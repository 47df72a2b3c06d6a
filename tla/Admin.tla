------------------------------- MODULE Admin -------------------------------
(***************************************************************************)
(* The account of exponent_admin: the uber admin, who hands over by         *)
(* invitation, and the administrators of each principle, whom exponent_core *)
(* asks for by role.                                                       *)
(*                                                                         *)
(* Anchor grows or shrinks the account before a handler runs and writes the *)
(* account back after it; a handler whose account no longer fits fails.    *)
(***************************************************************************)
EXTENDS Naturals, SequencesExt

CONSTANTS
    Keys,           \* public keys of everybody involved
    ID,             \* the program's own key, held by its deployer
    None,           \* no proposed uber admin
    Managed,        \* bound: principles whose administrators change
    MaxAdmins,      \* bound: administrators listed in all
    Additional,     \* bound: bytes that realloc_admin may add
    MaxSpace        \* bound on the account's size

Principle == {"hot_admin", "cold_admin", "pause_admin",
              "reserved1", "reserved2", "reserved3"}

ASSUME AdminAssumption ==
    /\ ID \in Keys /\ None \notin Keys
    /\ Managed \subseteq Principle
    /\ MaxAdmins \in Nat /\ MaxSpace \in Nat
    /\ Additional \subseteq Nat

VARIABLES
    admin,      \* account Admin
    space,      \* bytes of the account, 0 before it is created
    inviter     \* history: who made the pending proposal

vars == <<admin, space, inviter>>

\* size_of_static: an account that lists no administrator, and a proposal.
SizeOfStatic == 8 + 32 + (1 + 32) + 6 * 4

NoAdmin == [uber_admin |-> None, proposed_uber_admin |-> None,
            principles |-> [p \in Principle |-> <<>>]]

\* What the account a takes when it is serialized.
ListedBytes(a) ==
    LET b(p) == 32 * Len(a.principles[p]) IN
    b("hot_admin") + b("cold_admin") + b("pause_admin")
        + b("reserved1") + b("reserved2") + b("reserved3")

Serialized(a) ==
    8 + 32 + (IF a.proposed_uber_admin = None THEN 1 ELSE 1 + 32)
      + 6 * 4 + ListedBytes(a)

Listed(a) == ListedBytes(a) \div 32

Created == space > 0

IsUberAdmin(key) == admin.uber_admin = key

\* Mutant: what does not fit is written all the same.
WriteBackAnyway(a, bytes) == admin' = a /\ space' = bytes

\* The account a is written back into an account of bytes.
WriteBack(a, bytes) ==
    /\ Serialized(a) <= bytes
    /\ admin' = a
    /\ space' = bytes

-----------------------------------------------------------------------------
(* The instructions.                                                       *)

InitializeAdmin ==
    /\ ~Created
    /\ WriteBack([NoAdmin EXCEPT !.uber_admin = ID], SizeOfStatic)
    /\ UNCHANGED inviter

\* A pending proposal is replaced.
InviteAdmin(uber_admin, proposed_admin) ==
    /\ Created
    /\ IsUberAdmin(uber_admin)
    /\ WriteBack([admin EXCEPT !.proposed_uber_admin = proposed_admin], space)
    /\ inviter' = uber_admin

\* Mutant: the proposal stays.
AcceptInvitationAgain(new_uber_admin) ==
    /\ Created
    /\ admin.proposed_uber_admin = new_uber_admin
    /\ WriteBack([admin EXCEPT !.uber_admin = new_uber_admin], space)
    /\ UNCHANGED inviter

AcceptInvitation(new_uber_admin) ==
    /\ Created
    /\ admin.proposed_uber_admin = new_uber_admin
    /\ WriteBack([admin EXCEPT !.uber_admin = new_uber_admin,
                               !.proposed_uber_admin = None], space)
    /\ UNCHANGED inviter

\* Mutant: the account does not grow.
AddPrincipleAdminInPlace(uber_admin, p, new_admin) ==
    /\ Created
    /\ IsUberAdmin(uber_admin)
    /\ Listed(admin) < MaxAdmins
    /\ WriteBack([admin EXCEPT !.principles[p] = Append(@, new_admin)], space)
    /\ UNCHANGED inviter

\* The account grows by a key; nobody checks that the key is new to the list.
AddPrincipleAdmin(uber_admin, p, new_admin) ==
    /\ Created
    /\ IsUberAdmin(uber_admin)
    /\ Listed(admin) < MaxAdmins
    /\ WriteBack([admin EXCEPT !.principles[p] = Append(@, new_admin)],
                 space + 32)
    /\ UNCHANGED inviter

IsPosition(list, key, i) ==
    list[i] = key /\ \A j \in 1..(i - 1) : list[j] # key

\* The first occurrence goes; a key that is not listed changes nothing.
Without(list, key) ==
    IF \E i \in DOMAIN list : IsPosition(list, key, i)
    THEN RemoveAt(list, CHOOSE i \in DOMAIN list : IsPosition(list, key, i))
    ELSE list

\* The account shrinks by a key, whether or not one is removed.
RemovePrincipleAdmin(uber_admin, p, admin_to_remove) ==
    /\ Created
    /\ IsUberAdmin(uber_admin)
    /\ 32 <= space
    /\ WriteBack([admin EXCEPT !.principles[p] = Without(@, admin_to_remove)],
                 space - 32)
    /\ UNCHANGED inviter

\* Anybody may make the account larger.
ReallocAdmin(additional_bytes) ==
    /\ Created
    /\ space + additional_bytes <= MaxSpace
    /\ space' = space + additional_bytes
    /\ UNCHANGED <<admin, inviter>>

-----------------------------------------------------------------------------

Init == admin = NoAdmin /\ space = 0 /\ inviter = None

Next ==
    \/ InitializeAdmin
    \/ \E signer \in Keys :
        \/ \E proposed \in Keys : InviteAdmin(signer, proposed)
        \/ AcceptInvitation(signer)
        \/ \E p \in Managed, key \in Keys :
            \/ AddPrincipleAdmin(signer, p, key)
            \/ RemovePrincipleAdmin(signer, p, key)
    \/ \E bytes \in Additional : ReallocAdmin(bytes)

Spec == Init /\ [][Next]_vars

=============================================================================
