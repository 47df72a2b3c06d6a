SPECIFICATION Spec
CONSTANTS
    Keys = {program, alice, bob}
    ID = program
    None = None
    Managed = {"hot_admin", "pause_admin"}
    MaxAdmins = 3
    Additional = {0, 32}
    MaxSpace = 200
INVARIANTS
    AdminTypeOK
    InvitationsAreCurrent
PROPERTIES
    RoomForProposalKept
