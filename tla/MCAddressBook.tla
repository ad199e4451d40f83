---------------------------- MODULE MCAddressBook ---------------------------
(* Model-checking instances of AddressBook: the book at first. *)
EXTENDS AddressBook

CONSTANTS a1, a2

Two == <<a1, a2>>
=============================================================================
