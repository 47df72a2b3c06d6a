-------------------------- MODULE AdminProperties --------------------------
(* What makes the account of the administrators correct. *)
EXTENDS Admin

AdminAccount == [uber_admin : Keys \cup {None},
                 proposed_uber_admin : Keys \cup {None},
                 principles : [Principle -> Seq(Keys)]]

\* Type invariant: an uber admin is in office from the creation on, the lists
\* hold keys, and what they take fits in the account, whatever was removed
\* from it before.
AdminTypeOK ==
    /\ admin \in AdminAccount
    /\ space \in Nat
    /\ inviter \in Keys \cup {None}
    /\ Created <=> admin.uber_admin # None
    /\ Created => Serialized(admin) <= space

\* A proposal that can be accepted was made by the uber admin in office: none
\* survives a change of office, and so nobody invited by a predecessor takes
\* over (invite_admin, accept_invitation).
InvitationsAreCurrent ==
    admin.proposed_uber_admin # None => inviter = admin.uber_admin

\* What is left of the account beside the lists.
Room == space - (6 * 4 + ListedBytes(admin))

\* size_of_static leaves room for a proposal beside every key that is listed,
\* and nothing takes that room away but the removal of a key that is not on
\* the list (remove_principle_admin shrinks the account in any case): after
\* it an invitation fails until realloc_admin.
RoomForProposalKept ==
    [][ /\ ~Created => Room' = 8 + 32 + 33 \/ UNCHANGED vars
        /\ Created /\ Room' < Room =>
               admin' = admin /\ space' = space - 32 ]_vars

\* The list loses one entry, gains one at its end, or stays.
OneEntryChanged(old, new) ==
    \/ new = old
    \/ \E key \in Keys : new = Append(old, key)
    \/ \E i \in DOMAIN old : new = RemoveAt(old, i)

\* An instruction changes one entry and keeps the others in order, so a key
\* that was added twice is still an administrator after one removal
\* (add_principle_admin, remove_principle_admin).
OneEntryAtATime ==
    [][ \A p \in Principle :
            OneEntryChanged(admin.principles[p], admin'.principles[p]) ]_vars
=============================================================================
