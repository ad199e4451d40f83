CONSTANTS
    Users = {owner, guest}
    ShopOwners = {owner, guest}
    OtpUsers = {guest}
    Flows = {f1}
    MaxCalls = 2
    Absent = Absent
    Blank = Blank
SPECIFICATION Spec
INVARIANTS
    RefusedOtpStaysOut
