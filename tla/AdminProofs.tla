---------------------------- MODULE AdminProofs ----------------------------
(***************************************************************************)
(* Theorems about Admin for every set of keys and every bound.             *)
(***************************************************************************)
EXTENDS AdminProperties, SequenceTheorems, TLAPS

-----------------------------------------------------------------------------
(* Lists of keys.                                                          *)

LEMMA RemoveAtFacts ==
    ASSUME NEW list \in Seq(Keys), NEW i \in DOMAIN list
    PROVE  /\ RemoveAt(list, i) \in Seq(Keys)
           /\ Len(RemoveAt(list, i)) = Len(list) - 1
  <1>1. i \in 1..Len(list) /\ Len(list) \in Nat
    BY SMT
  <1>2. /\ SubSeq(list, 1, i - 1) \in Seq(Keys)
        /\ Len(SubSeq(list, 1, i - 1)) = i - 1
    BY <1>1, SMT
  <1>3. /\ SubSeq(list, i + 1, Len(list)) \in Seq(Keys)
        /\ Len(SubSeq(list, i + 1, Len(list))) = Len(list) - i
    BY <1>1, SMT
  <1>4. RemoveAt(list, i) = SubSeq(list, 1, i - 1) \o SubSeq(list, i + 1, Len(list))
    BY Zenon DEF RemoveAt
  <1> DEFINE l == SubSeq(list, 1, i - 1)
             r == SubSeq(list, i + 1, Len(list))
  <1> HIDE DEF l, r
  <1>5. l \o r \in Seq(Keys) /\ Len(l \o r) = Len(l) + Len(r)
    BY <1>2, <1>3, ConcatProperties DEF l, r
  <1>6. Len(l) = i - 1 /\ Len(r) = Len(list) - i /\ RemoveAt(list, i) = l \o r
    BY <1>2, <1>3, <1>4, Zenon DEF l, r
  <1>7. Len(l) + Len(r) = Len(list) - 1
    BY <1>1, <1>6, SMT
  <1> QED
    BY <1>5, <1>6, <1>7, Zenon

LEMMA WithoutFacts ==
    ASSUME NEW list \in Seq(Keys), NEW key
    PROVE  \/ Without(list, key) = list
           \/ \E i \in DOMAIN list : Without(list, key) = RemoveAt(list, i)
  <1>1. CASE \E i \in DOMAIN list : IsPosition(list, key, i)
    <2> DEFINE i == CHOOSE n \in DOMAIN list : IsPosition(list, key, n)
    <2>1. i \in DOMAIN list
      BY <1>1, Zenon
    <2>2. Without(list, key) = RemoveAt(list, i)
      BY <1>1, Zenon DEF Without
    <2> QED
      BY <2>1, <2>2, Zenon
  <1>2. CASE ~\E i \in DOMAIN list : IsPosition(list, key, i)
    BY <1>2, Zenon DEF Without
  <1> QED
    BY <1>1, <1>2

LEMMA WithoutType ==
    ASSUME NEW list \in Seq(Keys), NEW key
    PROVE  /\ Without(list, key) \in Seq(Keys)
           /\ \/ Len(Without(list, key)) = Len(list)
              \/ Len(Without(list, key)) = Len(list) - 1
  BY WithoutFacts, RemoveAtFacts, Zenon

-----------------------------------------------------------------------------
(* Sizes.                                                                  *)

\* What the lists of a take beside the list of p.
LEMMA ListedBytesType ==
    ASSUME NEW a \in AdminAccount
    PROVE  ListedBytes(a) \in Nat
  <1> DEFINE n(p) == Len(a.principles[p])
  <1>1. \A p \in Principle : n(p) \in Nat
    BY SMT DEF AdminAccount
  <1>2. /\ n("hot_admin") \in Nat /\ n("cold_admin") \in Nat
        /\ n("pause_admin") \in Nat /\ n("reserved1") \in Nat
        /\ n("reserved2") \in Nat /\ n("reserved3") \in Nat
    BY <1>1, Zenon DEF Principle
  <1>3. ListedBytes(a) = 32 * n("hot_admin") + 32 * n("cold_admin")
                           + 32 * n("pause_admin") + 32 * n("reserved1")
                           + 32 * n("reserved2") + 32 * n("reserved3")
    BY DEF ListedBytes
  <1> HIDE DEF n
  <1> QED
    BY <1>2, <1>3, SMT

\* The account with other officers, or other lists, is an account.
LEMMA OfficeUpdates ==
    ASSUME NEW a \in AdminAccount, NEW u \in Keys \cup {None},
           NEW v \in Keys \cup {None}
    PROVE  /\ LET b == [a EXCEPT !.uber_admin = u]
              IN  /\ b \in AdminAccount /\ b.uber_admin = u
                  /\ b.proposed_uber_admin = a.proposed_uber_admin
           /\ LET b == [a EXCEPT !.proposed_uber_admin = v]
              IN  b \in AdminAccount /\ b.uber_admin = a.uber_admin
  <1> DEFINE K == Keys \cup {None}
             L == [Principle -> Seq(Keys)]
  <1>1. AdminAccount = [uber_admin : K, proposed_uber_admin : K, principles : L]
    BY DEF AdminAccount
  <1>2. u \in K /\ v \in K
    OBVIOUS
  <1> HIDE DEF K, L
  <1> QED
    BY <1>1, <1>2, Zenon

LEMMA HandoverUpdate ==
    ASSUME NEW a \in AdminAccount, NEW u \in Keys
    PROVE  LET b == [a EXCEPT !.uber_admin = u, !.proposed_uber_admin = None]
           IN  /\ b \in AdminAccount /\ b.uber_admin = u
               /\ b.proposed_uber_admin = None
  <1> DEFINE K == Keys \cup {None}
             L == [Principle -> Seq(Keys)]
  <1>1. AdminAccount = [uber_admin : K, proposed_uber_admin : K, principles : L]
    BY DEF AdminAccount
  <1>2. u \in K /\ None \in K
    OBVIOUS
  <1> HIDE DEF K, L
  <1> QED
    BY <1>1, <1>2, Zenon

LEMMA ListsUpdate ==
    ASSUME NEW a \in AdminAccount, NEW ps \in [Principle -> Seq(Keys)]
    PROVE  LET b == [a EXCEPT !.principles = ps]
           IN  /\ b \in AdminAccount /\ b.uber_admin = a.uber_admin
               /\ b.proposed_uber_admin = a.proposed_uber_admin
               /\ b.principles = ps
  <1> DEFINE K == Keys \cup {None}
             L == [Principle -> Seq(Keys)]
  <1>1. AdminAccount = [uber_admin : K, proposed_uber_admin : K, principles : L]
    BY DEF AdminAccount
  <1>2. ps \in L
    OBVIOUS
  <1> HIDE DEF K, L
  <1> QED
    BY <1>1, <1>2, Zenon

\* Replacing the list of one principle keeps the account's officers.
LEMMA ListUpdate ==
    ASSUME NEW a \in AdminAccount, NEW p \in Principle, NEW list \in Seq(Keys)
    PROVE  LET b == [a EXCEPT !.principles[p] = list]
           IN  /\ b \in AdminAccount
               /\ b.uber_admin = a.uber_admin
               /\ b.proposed_uber_admin = a.proposed_uber_admin
               /\ b.principles = [a.principles EXCEPT ![p] = list]
  <1> DEFINE ps == [a.principles EXCEPT ![p] = list]
  <1>1. a.principles \in [Principle -> Seq(Keys)]
    BY DEF AdminAccount
  <1>2. ps \in [Principle -> Seq(Keys)]
    BY <1>1
  <1>3. [a EXCEPT !.principles[p] = list] = [a EXCEPT !.principles = ps]
    OBVIOUS
  <1> HIDE DEF ps
  <1>5. LET b == [a EXCEPT !.principles = ps]
        IN  /\ b \in AdminAccount /\ b.uber_admin = a.uber_admin
            /\ b.proposed_uber_admin = a.proposed_uber_admin
            /\ b.principles = ps
    BY <1>2, ListsUpdate, Zenon
  <1> QED
    BY <1>3, <1>5, Zenon DEF ps

-----------------------------------------------------------------------------
(* The invariant.                                                          *)

\* The inductive invariant: the account is empty until it is created.
AdminInv ==
    /\ AdminTypeOK
    /\ InvitationsAreCurrent
    /\ ~Created => admin = NoAdmin

\* The account before it is created: nobody holds an office in it.
LEMMA AdminInit == Init => AdminInv
  <1> SUFFICES ASSUME Init PROVE AdminInv
    OBVIOUS
  <1>1. NoAdmin \in AdminAccount
    BY SMT DEF NoAdmin, AdminAccount
  <1> QED
    BY <1>1, SMT DEF Init, AdminInv, AdminTypeOK, InvitationsAreCurrent,
                     NoAdmin, Created

\* The invariant of the next state, read off its parts.
LEMMA InvNext ==
    ASSUME NEW a \in AdminAccount, NEW bytes \in Nat,
           admin' = a, space' = bytes, inviter' \in Keys \cup {None},
           bytes > 0 <=> a.uber_admin # None,
           bytes > 0 => Serialized(a) <= bytes,
           bytes > 0 \/ a = NoAdmin,
           a.proposed_uber_admin # None => inviter' = a.uber_admin
    PROVE  AdminInv'
  <1>1. Serialized(a)' = Serialized(a)
    BY DEF Serialized, ListedBytes
  <1>2. Serialized(admin)' = Serialized(a)
    BY DEF Serialized, ListedBytes
  <1> HIDE DEF Serialized
  <1> QED
    BY <1>2, SMT DEF AdminInv, AdminTypeOK, InvitationsAreCurrent, Created,
                     AdminAccount

\* A write of an account of the right type, with an uber admin and the
\* proposal that he made, keeps the invariant.
LEMMA WriteBackKeepsInv ==
    ASSUME AdminInv, NEW a \in AdminAccount, NEW bytes \in Nat,
           WriteBack(a, bytes), a.uber_admin # None,
           inviter' \in Keys \cup {None},
           a.proposed_uber_admin # None => inviter' = a.uber_admin
    PROVE  AdminInv'
  <1>1. ListedBytes(a) \in Nat
    BY ListedBytesType
  <1>2. Serialized(a) > 0
    BY <1>1, SMT DEF Serialized
  <1> QED
    <2>1. bytes > 0 /\ Serialized(a) <= bytes
      <3>1. Serialized(a) \in Nat
        BY <1>1, SMT DEF Serialized
      <3> QED
        BY <1>2, <3>1, SMT DEF WriteBack
    <2>2. admin' = a /\ space' = bytes
      BY DEF WriteBack
    <2> QED
      BY <2>1, <2>2, InvNext

LEMMA AdminStepInv == AdminInv /\ [Next]_vars => AdminInv'
  <1> SUFFICES ASSUME AdminInv, [Next]_vars PROVE AdminInv'
    OBVIOUS
  <1> USE AdminAssumption
  <1>0. /\ admin \in AdminAccount /\ space \in Nat
        /\ inviter \in Keys \cup {None}
        /\ Created <=> admin.uber_admin # None
        /\ Created => Serialized(admin) <= space
        /\ Created \/ admin = NoAdmin
        /\ admin.proposed_uber_admin # None => inviter = admin.uber_admin
    BY SMT DEF AdminInv, AdminTypeOK, InvitationsAreCurrent
  <1>1. CASE InitializeAdmin
    <2> DEFINE a == [NoAdmin EXCEPT !.uber_admin = ID]
    <2>1. /\ a \in AdminAccount /\ a.uber_admin # None
          /\ a.proposed_uber_admin = None
      <3>1. NoAdmin \in AdminAccount /\ NoAdmin.proposed_uber_admin = None
        BY SMT DEF NoAdmin, AdminAccount
      <3>2. ID \in Keys \cup {None} /\ ID # None
        BY SMT
      <3> QED
        BY <3>1, <3>2, OfficeUpdates
    <2>2. SizeOfStatic \in Nat /\ WriteBack(a, SizeOfStatic) /\ inviter' = inviter
      BY <1>1, SMT DEF InitializeAdmin, SizeOfStatic
    <2> HIDE DEF a
    <2> QED
      BY <1>0, <2>1, <2>2, WriteBackKeepsInv, Zenon
  <1>2. ASSUME NEW signer \in Keys, NEW proposed \in Keys,
               InviteAdmin(signer, proposed)
        PROVE  AdminInv'
    <2> DEFINE a == [admin EXCEPT !.proposed_uber_admin = proposed]
    <2>1. a \in AdminAccount /\ a.uber_admin = signer /\ signer # None
      <3>1. proposed \in Keys \cup {None} /\ signer # None
        BY SMT
      <3>2. admin.uber_admin = signer
        BY <1>2 DEF InviteAdmin, IsUberAdmin
      <3> QED
        BY <1>0, <3>1, <3>2, OfficeUpdates
    <2>2. WriteBack(a, space) /\ inviter' = signer
      BY <1>2, SMT DEF InviteAdmin
    <2> HIDE DEF a
    <2> QED
      BY <1>0, <2>1, <2>2, WriteBackKeepsInv, Zenon
  <1>3. ASSUME NEW signer \in Keys, AcceptInvitation(signer)
        PROVE  AdminInv'
    <2> DEFINE a == [admin EXCEPT !.uber_admin = signer,
                                  !.proposed_uber_admin = None]
    <2>1. /\ a \in AdminAccount /\ a.uber_admin = signer
          /\ a.proposed_uber_admin = None
      BY <1>0, HandoverUpdate
    <2>2. WriteBack(a, space) /\ inviter' = inviter
      BY <1>3, SMT DEF AcceptInvitation
    <2>3. signer # None
      OBVIOUS
    <2> HIDE DEF a
    <2> QED
      BY <1>0, <2>1, <2>2, <2>3, WriteBackKeepsInv, Zenon
  <1>4. ASSUME NEW signer \in Keys, NEW p \in Managed, NEW key \in Keys,
               AddPrincipleAdmin(signer, p, key)
        PROVE  AdminInv'
    <2> DEFINE list == Append(admin.principles[p], key)
               a == [admin EXCEPT !.principles[p] = list]
    <2>1. p \in Principle /\ list \in Seq(Keys)
      BY <1>0, SMT DEF AdminAccount
    <2>2. WriteBack(a, space + 32) /\ inviter' = inviter /\ Created
      BY <1>4, SMT DEF AddPrincipleAdmin
    <2> HIDE DEF list
    <2>3. /\ a \in AdminAccount /\ a.uber_admin = admin.uber_admin
          /\ a.proposed_uber_admin = admin.proposed_uber_admin
      BY <1>0, <2>1, ListUpdate
    <2> HIDE DEF a
    <2>4. space + 32 \in Nat
      BY <1>0, SMT
    <2> QED
      BY <1>0, <2>2, <2>3, <2>4, WriteBackKeepsInv, Zenon
  <1>5. ASSUME NEW signer \in Keys, NEW p \in Managed, NEW key \in Keys,
               RemovePrincipleAdmin(signer, p, key)
        PROVE  AdminInv'
    <2> DEFINE list == Without(admin.principles[p], key)
               a == [admin EXCEPT !.principles[p] = list]
    <2>1. p \in Principle /\ list \in Seq(Keys)
      BY <1>0, WithoutType, SMT DEF AdminAccount
    <2>2. /\ WriteBack(a, space - 32) /\ inviter' = inviter /\ Created
          /\ space - 32 \in Nat
      BY <1>0, <1>5, SMT DEF RemovePrincipleAdmin
    <2> HIDE DEF list
    <2>3. /\ a \in AdminAccount /\ a.uber_admin = admin.uber_admin
          /\ a.proposed_uber_admin = admin.proposed_uber_admin
      BY <1>0, <2>1, ListUpdate
    <2> HIDE DEF a
    <2> QED
      BY <1>0, <2>2, <2>3, WriteBackKeepsInv, Zenon
  <1>6. ASSUME NEW bytes \in Additional, ReallocAdmin(bytes)
        PROVE  AdminInv'
    <2>1. bytes \in Nat
      OBVIOUS
    <2>2. Created => Serialized(admin) \in Nat
      BY <1>0, ListedBytesType, SMT DEF Serialized
    <2>3. /\ admin' = admin /\ space' = space + bytes /\ inviter' = inviter
          /\ space > 0
      BY <1>6 DEF ReallocAdmin, Created
    <2>4. /\ space + bytes \in Nat /\ space + bytes > 0
          /\ Serialized(admin) <= space + bytes /\ admin.uber_admin # None
      BY <1>0, <2>1, <2>2, <2>3, SMT DEF Created
    <2> QED
      BY <1>0, <2>3, <2>4, InvNext
  <1>7. CASE UNCHANGED vars
    BY <1>0, <1>7, InvNext DEF vars, Created
  <1> QED
    BY <1>1, <1>2, <1>3, <1>4, <1>5, <1>6, <1>7, Zenon DEF Next

\* The account has its types, and always the bytes that its lists take.
THEOREM AdminTyped == Spec => []AdminTypeOK
  <1>1. AdminInv => AdminTypeOK
    BY DEF AdminInv
  <1> QED
    BY <1>1, AdminInit, AdminStepInv, PTL DEF Spec

\* Only the invitation of the uber admin in office can be accepted.
THEOREM InvitationsStayCurrent == Spec => []InvitationsAreCurrent
  <1>1. AdminInv => InvitationsAreCurrent
    BY DEF AdminInv
  <1> QED
    BY <1>1, AdminInit, AdminStepInv, PTL DEF Spec

-----------------------------------------------------------------------------
(* What a step may do to the account.                                      *)

\* The lists after a step: one entry more, one less, or the same.
LEMMA ListsAfterStep ==
    ASSUME AdminInv, [Next]_vars, NEW p \in Principle
    PROVE  OneEntryChanged(admin.principles[p], admin'.principles[p])
  <1> DEFINE Goal == OneEntryChanged(admin.principles[p], admin'.principles[p])
  <1> SUFFICES Goal
    OBVIOUS
  <1> USE AdminAssumption
  <1>0. /\ admin \in AdminAccount
        /\ admin.principles \in [Principle -> Seq(Keys)]
    BY DEF AdminInv, AdminTypeOK, AdminAccount
  <1>1. CASE InitializeAdmin
    <2>1. admin = NoAdmin
      BY <1>1 DEF InitializeAdmin, AdminInv
    <2>2. admin' = [NoAdmin EXCEPT !.uber_admin = ID]
      BY <1>1 DEF InitializeAdmin, WriteBack
    <2> QED
      BY <2>1, <2>2, Zenon DEF NoAdmin, OneEntryChanged
  <1>2. ASSUME NEW signer \in Keys, NEW proposed \in Keys,
               InviteAdmin(signer, proposed)
        PROVE  Goal
    <2>1. admin' = [admin EXCEPT !.proposed_uber_admin = proposed]
      BY <1>2 DEF InviteAdmin, WriteBack
    <2> QED
      BY <1>0, <2>1, Zenon DEF AdminAccount, OneEntryChanged
  <1>3. ASSUME NEW signer \in Keys, AcceptInvitation(signer)
        PROVE  Goal
    <2>1. admin' = [admin EXCEPT !.uber_admin = signer,
                                 !.proposed_uber_admin = None]
      BY <1>3 DEF AcceptInvitation, WriteBack
    <2> QED
      BY <1>0, <2>1, Zenon DEF AdminAccount, OneEntryChanged
  <1>4. CASE admin' = admin
    BY <1>4 DEF OneEntryChanged
  <1>5. admin.principles[p] \in Seq(Keys)
    BY <1>0
  <1>6. ASSUME NEW q \in Principle, NEW key \in Keys,
               admin'.principles =
                   [admin.principles EXCEPT
                        ![q] = Without(admin.principles[q], key)]
        PROVE  Goal
    <2>1. CASE q = p
      <3>1. admin'.principles[p] = Without(admin.principles[p], key)
        BY <1>0, <1>6, <2>1, Zenon
      <3> QED
        BY <1>5, <3>1, WithoutFacts, Zenon DEF OneEntryChanged
    <2>2. CASE q # p
      BY <1>0, <1>6, <2>2, Zenon DEF OneEntryChanged
    <2> QED
      BY <2>1, <2>2
  <1>7. ASSUME NEW q \in Principle, NEW key \in Keys,
               admin'.principles =
                   [admin.principles EXCEPT
                        ![q] = Append(admin.principles[q], key)]
        PROVE  Goal
    BY <1>0, <1>7, Zenon DEF OneEntryChanged
  <1>8. ASSUME NEW bytes \in Additional, ReallocAdmin(bytes) PROVE Goal
    BY <1>4, <1>8 DEF ReallocAdmin
  <1>9. CASE UNCHANGED vars
    BY <1>4, <1>9 DEF vars
  <1>10. ASSUME NEW signer \in Keys, NEW q \in Managed, NEW key \in Keys,
               AddPrincipleAdmin(signer, q, key)
        PROVE  Goal
    <2> DEFINE list == Append(admin.principles[q], key)
    <2>1. admin' = [admin EXCEPT !.principles[q] = list]
      BY <1>10 DEF AddPrincipleAdmin, WriteBack
    <2>2. q \in Principle /\ list \in Seq(Keys)
      BY <1>0, SMT
    <2> HIDE DEF list
    <2>3. admin'.principles = [admin.principles EXCEPT ![q] = list]
      BY <1>0, <2>1, <2>2, ListUpdate
    <2> QED
      BY <1>7, <2>2, <2>3 DEF list
  <1>11. ASSUME NEW signer \in Keys, NEW q \in Managed, NEW key \in Keys,
               RemovePrincipleAdmin(signer, q, key)
        PROVE  Goal
    <2> DEFINE list == Without(admin.principles[q], key)
    <2>1. admin' = [admin EXCEPT !.principles[q] = list]
      BY <1>11 DEF RemovePrincipleAdmin, WriteBack
    <2>2. q \in Principle /\ list \in Seq(Keys)
      BY <1>0, WithoutType, SMT
    <2> HIDE DEF list
    <2>3. admin'.principles = [admin.principles EXCEPT ![q] = list]
      BY <1>0, <2>1, <2>2, ListUpdate
    <2> QED
      BY <1>6, <2>2, <2>3 DEF list
  <1> HIDE DEF Goal
  <1> QED
    BY <1>1, <1>2, <1>3, <1>8, <1>9, <1>10, <1>11, Zenon DEF Next

\* No instruction changes more than one entry of a list.
THEOREM OneEntryChanges == Spec => OneEntryAtATime
  <1>1. AdminInv /\ [Next]_vars =>
            [\A p \in Principle :
                OneEntryChanged(admin.principles[p], admin'.principles[p])]_vars
    BY ListsAfterStep
  <1> QED
    BY <1>1, AdminInit, AdminStepInv, PTL DEF Spec, OneEntryAtATime

-----------------------------------------------------------------------------
(* The room beside the lists.                                              *)

\* Accounts that differ in one list differ in the bytes of that list.
LEMMA ListedBytesChange ==
    ASSUME NEW a \in AdminAccount, NEW b \in AdminAccount, NEW p \in Principle,
           \A q \in Principle : q # p => b.principles[q] = a.principles[q]
    PROVE  ListedBytes(b) - ListedBytes(a)
             = 32 * Len(b.principles[p]) - 32 * Len(a.principles[p])
  <1> DEFINE m(q) == Len(a.principles[q])
             n(q) == Len(b.principles[q])
  <1>1. \A q \in Principle : m(q) \in Nat /\ n(q) \in Nat
    BY SMT DEF AdminAccount
  <1>2. \A q \in Principle : q # p => n(q) = m(q)
    OBVIOUS
  <1>3. /\ ListedBytes(a) = 32 * m("hot_admin") + 32 * m("cold_admin")
                              + 32 * m("pause_admin") + 32 * m("reserved1")
                              + 32 * m("reserved2") + 32 * m("reserved3")
        /\ ListedBytes(b) = 32 * n("hot_admin") + 32 * n("cold_admin")
                              + 32 * n("pause_admin") + 32 * n("reserved1")
                              + 32 * n("reserved2") + 32 * n("reserved3")
    BY DEF ListedBytes
  <1> HIDE DEF m, n
  <1>4. ListedBytes(b) - ListedBytes(a) = 32 * n(p) - 32 * m(p)
    <2>1. /\ m("hot_admin") \in Nat /\ m("cold_admin") \in Nat
          /\ m("pause_admin") \in Nat /\ m("reserved1") \in Nat
          /\ m("reserved2") \in Nat /\ m("reserved3") \in Nat
      BY <1>1, Zenon DEF Principle
    <2>2. /\ n("hot_admin") \in Nat /\ n("cold_admin") \in Nat
          /\ n("pause_admin") \in Nat /\ n("reserved1") \in Nat
          /\ n("reserved2") \in Nat /\ n("reserved3") \in Nat
      BY <1>1, Zenon DEF Principle
    <2>3. /\ "hot_admin" # p => n("hot_admin") = m("hot_admin")
          /\ "cold_admin" # p => n("cold_admin") = m("cold_admin")
          /\ "pause_admin" # p => n("pause_admin") = m("pause_admin")
          /\ "reserved1" # p => n("reserved1") = m("reserved1")
          /\ "reserved2" # p => n("reserved2") = m("reserved2")
          /\ "reserved3" # p => n("reserved3") = m("reserved3")
      BY <1>2, Zenon DEF Principle
    <2>4. \/ p = "hot_admin" \/ p = "cold_admin" \/ p = "pause_admin"
          \/ p = "reserved1" \/ p = "reserved2" \/ p = "reserved3"
      BY DEF Principle
    <2> QED
      BY <1>3, <2>1, <2>2, <2>3, <2>4, SMT
  <1> QED
    BY <1>4 DEF m, n

\* A list replaced by itself leaves the account as it is.
LEMMA SameList ==
    ASSUME NEW a \in AdminAccount, NEW p \in Principle
    PROVE  [a EXCEPT !.principles[p] = a.principles[p]] = a
  <1>1. [a.principles EXCEPT ![p] = a.principles[p]] = a.principles
    BY Zenon DEF AdminAccount
  <1>2. [a EXCEPT !.principles = a.principles] = a
    BY Zenon DEF AdminAccount
  <1>3. [a EXCEPT !.principles[p] = a.principles[p]]
          = [a EXCEPT !.principles
                 = [a.principles EXCEPT ![p] = a.principles[p]]]
    OBVIOUS
  <1> QED
    BY <1>1, <1>2, <1>3, Zenon

\* The room that an account has in bytes.
RoomOf(a, bytes) == bytes - (6 * 4 + ListedBytes(a))

\* A step of an account that exists: the room is kept, or a key was not found.
LEMMA RoomAfterStep ==
    ASSUME AdminInv, Next, Created
    PROVE  Room' < Room => admin' = admin /\ space' = space - 32
  <1> DEFINE Goal == Room' < Room => admin' = admin /\ space' = space - 32
  <1> SUFFICES Goal
    OBVIOUS
  <1> USE AdminAssumption
  <1>0. admin \in AdminAccount /\ space \in Nat /\ ListedBytes(admin) \in Nat
    BY ListedBytesType DEF AdminInv, AdminTypeOK
  <1>r. Room = RoomOf(admin, space) /\ Room' = RoomOf(admin', space')
    BY DEF Room, RoomOf, ListedBytes
  <1>1. ASSUME admin'.principles = admin.principles, space' \in Nat,
               space' >= space
        PROVE  Goal
    <2>1. ListedBytes(admin') = ListedBytes(admin)
      BY <1>1 DEF ListedBytes
    <2> QED
      BY <1>0, <1>r, <1>1, <2>1, SMT DEF RoomOf
  <1>2. ~InitializeAdmin
    BY DEF InitializeAdmin
  <1>3. ASSUME NEW signer \in Keys, NEW proposed \in Keys,
               InviteAdmin(signer, proposed)
        PROVE  Goal
    <2>1. /\ admin' = [admin EXCEPT !.proposed_uber_admin = proposed]
          /\ space' = space
      BY <1>3 DEF InviteAdmin, WriteBack
    <2>2. admin'.principles = admin.principles
      BY <1>0, <2>1, Zenon DEF AdminAccount
    <2> QED
      BY <1>0, <1>1, <2>1, <2>2, SMT
  <1>4. ASSUME NEW signer \in Keys, AcceptInvitation(signer)
        PROVE  Goal
    <2>1. /\ admin' = [admin EXCEPT !.uber_admin = signer,
                                    !.proposed_uber_admin = None]
          /\ space' = space
      BY <1>4 DEF AcceptInvitation, WriteBack
    <2>2. admin'.principles = admin.principles
      BY <1>0, <2>1, Zenon DEF AdminAccount
    <2> QED
      BY <1>0, <1>1, <2>1, <2>2, SMT
  <1>5. ASSUME NEW q \in Principle, NEW list \in Seq(Keys),
               admin' = [admin EXCEPT !.principles[q] = list]
        PROVE  /\ ListedBytes(admin') \in Nat
               /\ ListedBytes(admin') - ListedBytes(admin)
                    = 32 * Len(list) - 32 * Len(admin.principles[q])
    <2>1. /\ admin' \in AdminAccount
          /\ admin'.principles = [admin.principles EXCEPT ![q] = list]
      BY <1>0, <1>5, ListUpdate, Zenon
    <2>2. /\ admin'.principles[q] = list
          /\ \A p \in Principle : p # q =>
                 admin'.principles[p] = admin.principles[p]
      BY <1>0, <2>1, Zenon DEF AdminAccount
    <2> QED
      BY <1>0, <2>1, <2>2, ListedBytesChange, ListedBytesType
  <1>6. ASSUME NEW signer \in Keys, NEW q \in Managed, NEW key \in Keys,
               AddPrincipleAdmin(signer, q, key)
        PROVE  Goal
    <2> DEFINE list == Append(admin.principles[q], key)
    <2>1. /\ admin' = [admin EXCEPT !.principles[q] = list]
          /\ space' = space + 32
      BY <1>6 DEF AddPrincipleAdmin, WriteBack
    <2>2. /\ q \in Principle /\ list \in Seq(Keys)
          /\ admin.principles[q] \in Seq(Keys)
          /\ Len(list) = Len(admin.principles[q]) + 1
      BY <1>0, SMT DEF AdminAccount
    <2> HIDE DEF list
    <2>3. /\ ListedBytes(admin') \in Nat
          /\ ListedBytes(admin') - ListedBytes(admin)
               = 32 * Len(list) - 32 * Len(admin.principles[q])
      BY <1>5, <2>1, <2>2
    <2> QED
      BY <1>0, <1>r, <2>1, <2>2, <2>3, SMT DEF RoomOf
  <1>7. ASSUME NEW signer \in Keys, NEW q \in Managed, NEW key \in Keys,
               RemovePrincipleAdmin(signer, q, key)
        PROVE  Goal
    <2> DEFINE list == Without(admin.principles[q], key)
    <2>1. /\ admin' = [admin EXCEPT !.principles[q] = list]
          /\ space' = space - 32
      BY <1>7 DEF RemovePrincipleAdmin, WriteBack
    <2>2. /\ q \in Principle /\ admin.principles[q] \in Seq(Keys)
      BY <1>0, SMT DEF AdminAccount
    <2>3. \/ list = admin.principles[q]
          \/ /\ list \in Seq(Keys)
             /\ Len(list) = Len(admin.principles[q]) - 1
      BY <2>2, WithoutFacts, RemoveAtFacts, Zenon
    <2> HIDE DEF list
    <2>4. CASE list = admin.principles[q]
      <3>1. admin' = admin
        BY <1>0, <2>1, <2>2, <2>4, SameList, Zenon
      <3> QED
        BY <2>1, <3>1
    <2>5. CASE /\ list \in Seq(Keys)
               /\ Len(list) = Len(admin.principles[q]) - 1
      <3>1. /\ ListedBytes(admin') \in Nat
            /\ ListedBytes(admin') - ListedBytes(admin)
                 = 32 * Len(list) - 32 * Len(admin.principles[q])
        BY <1>5, <2>1, <2>2, <2>5
      <3>2. Len(admin.principles[q]) \in Nat
        BY <2>2, SMT
      <3> QED
        BY <1>0, <1>r, <2>1, <2>5, <3>1, <3>2, SMT DEF RoomOf
    <2> QED
      BY <2>3, <2>4, <2>5
  <1>8. ASSUME NEW bytes \in Additional, ReallocAdmin(bytes) PROVE Goal
    <2>1. admin' = admin /\ space' = space + bytes /\ bytes \in Nat
      BY <1>8, SMT DEF ReallocAdmin
    <2> QED
      BY <1>0, <1>1, <2>1, SMT
  <1> HIDE DEF Goal
  <1> QED
    BY <1>2, <1>3, <1>4, <1>6, <1>7, <1>8, Zenon DEF Next

\* Only the removal of a key that is not listed takes the room that
\* size_of_static reserves for a proposal.
THEOREM ProposalRoom == Spec => RoomForProposalKept
  <1> DEFINE A == /\ ~Created => Room' = 8 + 32 + 33 \/ UNCHANGED vars
                  /\ Created /\ Room' < Room =>
                         admin' = admin /\ space' = space - 32
  <1>1. AdminInv /\ [Next]_vars => [A]_vars
    <2> SUFFICES ASSUME AdminInv, Next PROVE A
      OBVIOUS
    <2>1. CASE Created
      BY <2>1, RoomAfterStep, Zenon
    <2>2. CASE ~Created
      <3>1. InitializeAdmin
        BY <2>2, Zenon DEF Next, InviteAdmin, AcceptInvitation,
                           AddPrincipleAdmin, RemovePrincipleAdmin,
                           ReallocAdmin
      <3>2. /\ admin' = [NoAdmin EXCEPT !.uber_admin = ID]
            /\ space' = SizeOfStatic
        BY <3>1 DEF InitializeAdmin, WriteBack
      <3>3. admin'.principles = [p \in Principle |-> <<>>]
        BY <3>2, Zenon DEF NoAdmin
      <3>4. \A p \in Principle : Len(admin'.principles[p]) = 0
        BY <3>3, SMT
      <3>5. ListedBytes(admin)' = 0
        <4> DEFINE n(p) == Len(admin'.principles[p])
        <4>1. /\ n("hot_admin") = 0 /\ n("cold_admin") = 0
              /\ n("pause_admin") = 0 /\ n("reserved1") = 0
              /\ n("reserved2") = 0 /\ n("reserved3") = 0
          BY <3>4, Zenon DEF Principle
        <4>2. ListedBytes(admin)'
                = 32 * n("hot_admin") + 32 * n("cold_admin")
                    + 32 * n("pause_admin") + 32 * n("reserved1")
                    + 32 * n("reserved2") + 32 * n("reserved3")
          BY DEF ListedBytes
        <4> HIDE DEF n
        <4> QED
          BY <4>1, <4>2, SMT
      <3> QED
        BY <2>2, <3>2, <3>5, SMT DEF Room, SizeOfStatic
    <2> QED
      BY <2>1, <2>2
  <1> QED
    BY <1>1, AdminInit, AdminStepInv, PTL DEF Spec, RoomForProposalKept
=============================================================================
