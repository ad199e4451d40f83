CONSTANTS
    Users = {owner, guest}
    ShopOwners = {owner}
    OtpUsers = {guest}
    Flows = {f1}
    MaxCalls = 2
    Absent = Absent
    Blank = Blank
SPECIFICATION FairSpec
INVARIANTS
    TypeOK
    SessionIdentity
    PasswordDecides
    QuoteCopiesAgree
    KeptCredential
PROPERTIES
    LogoutSticks
    SignInEnds
