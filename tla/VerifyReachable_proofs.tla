----------------------- MODULE VerifyReachable_proofs -----------------------
(***************************************************************************)
(* Theorems about the verdict of verify-reachable on a growing store.      *)
(***************************************************************************)
EXTENDS VerifyReachable, SequenceTheorems, TLAPS

LEMMA Constants ==
    /\ Root \in Node
    /\ ParentLists \subseteq Seq(Node)
    /\ Absent # Torn
    /\ Absent \notin Record /\ Torn \notin Record
    /\ Retractable \subseteq Node
    /\ Cases \subseteq Options
BY AuditAssumption DEF AuditAssumption

(***************************************************************************)
(* The elements of a list                                                  *)
(***************************************************************************)

LEMMA ElemsOne == ASSUME NEW x PROVE Elems(<<x>>) = {x}
BY DEF Elems

LEMMA ElemsNone == Elems(<<>>) = {}
BY DEF Elems

LEMMA ElemsType == ASSUME NEW S, NEW s \in Seq(S) PROVE Elems(s) \subseteq S
BY DEF Elems

LEMMA ElemsEmpty == ASSUME NEW S, NEW s \in Seq(S) PROVE s = <<>> <=> Elems(s) = {}
<1>1. s # <<>> => 1 \in 1..Len(s)
  BY EmptySeq
<1>2. s # <<>> => s[1] \in Elems(s)
  BY <1>1 DEF Elems
<1>3. QED
  BY <1>2, ElemsNone

LEMMA Front ==
    ASSUME NEW S, NEW s \in Seq(S), NEW n \in Nat, n + 1 = Len(s)
    PROVE  /\ SubSeq(s, 1, n) \in Seq(S)
           /\ Len(SubSeq(s, 1, n)) = n
           /\ \A i \in 1..n : SubSeq(s, 1, n)[i] = s[i]
<1>1. \A i \in 1..n : s[i] \in S
  OBVIOUS
<1>2. SubSeq(s, 1, n) \in Seq(S)
  BY <1>1, SubSeqProperties
<1>3. Len(SubSeq(s, 1, n)) = IF 1 <= n THEN n - 1 + 1 ELSE 0
  BY <1>1, SubSeqProperties
<1>4. \A i \in 1..(n - 1 + 1) : SubSeq(s, 1, n)[i] = s[1 + i - 1]
  BY <1>1, SubSeqProperties
<1>5. QED
  BY <1>2, <1>3, <1>4

LEMMA ElemsPop ==
    ASSUME NEW S, NEW s \in Seq(S), s # <<>>
    PROVE  /\ SubSeq(s, 1, Len(s) - 1) \in Seq(S)
           /\ s[Len(s)] \in S
           /\ Elems(s) = Elems(SubSeq(s, 1, Len(s) - 1)) \cup {s[Len(s)]}
<1> DEFINE n == Len(s) - 1
           t == SubSeq(s, 1, n)
<1>1. n \in Nat /\ n + 1 = Len(s)
  OBVIOUS
<1>2. t \in Seq(S) /\ Len(t) = n /\ \A i \in 1..n : t[i] = s[i]
  BY <1>1, Front
<1>3. 1..Len(s) = 1..n \cup {Len(s)}
  BY <1>1
<1>4. s[Len(s)] \in S
  BY <1>1
<1>5. QED
  <2> HIDE DEF t, n
  <2>1. Elems(s) = Elems(t) \cup {s[Len(s)]}
    BY <1>2, <1>3 DEF Elems
  <2>2. QED
    BY <1>2, <1>4, <2>1 DEF t, n

LEMMA ElemsConcat ==
    ASSUME NEW S, NEW s \in Seq(S), NEW t \in Seq(S)
    PROVE  s \o t \in Seq(S) /\ Elems(s \o t) = Elems(s) \cup Elems(t)
<1>1. s \o t \in Seq(S) /\ Len(s \o t) = Len(s) + Len(t)
  OBVIOUS
<1>2. \A i \in 1..Len(s) : (s \o t)[i] = s[i]
  OBVIOUS
<1>3. \A i \in 1..Len(t) : (s \o t)[Len(s) + i] = t[i]
  OBVIOUS
<1>4. \A i \in 1..Len(s \o t) : i \in 1..Len(s) \/ i - Len(s) \in 1..Len(t)
  BY <1>1
<1>5. Elems(s \o t) \subseteq Elems(s) \cup Elems(t)
  BY <1>1, <1>4 DEF Elems
<1>6. Elems(s) \subseteq Elems(s \o t)
  BY <1>1, <1>2 DEF Elems
<1>7. Elems(t) \subseteq Elems(s \o t)
  <2>1. \A i \in 1..Len(t) : Len(s) + i \in 1..Len(s \o t)
    BY <1>1
  <2>2. QED
    BY <2>1, <1>3 DEF Elems
<1>8. QED
  BY <1>1, <1>5, <1>6, <1>7

(***************************************************************************)
(* Types                                                                   *)
(***************************************************************************)

LEMMA InitType == Init => TypeOK
<1> SUFFICES ASSUME Init PROVE TypeOK
  OBVIOUS
<1>1. stack \in Seq(Node)
  BY Constants DEF Init
<1>2. opt \in Options /\ Objects \subseteq Digest /\ Records \subseteq Record
  BY Constants DEF Init, Options, Objects, Digest, Records, Record
<1>3. man \in [Node -> Record \cup {Absent, Torn}]
  BY <1>2 DEF Init
<1>4. corrupt \in SUBSET (Digest \ intact)
  BY <1>2 DEF Init, Options
<1>5. before \in [ok : BOOLEAN, retracted : SUBSET Node]
  <2>1. ReachOk \in BOOLEAN
    BY DEF ReachOk
  <2>2. retracted \in SUBSET Node
    BY Constants DEF Init
  <2>3. QED
    BY <2>1, <2>2 DEF Init
<1>6. input \in Seq({"intact", "corrupt", "missing"})
  BY DEF Init
<1>7. QED
  BY <1>1, <1>2, <1>3, <1>4, <1>5, <1>6, Constants DEF Init, TypeOK

\* What a case bounds is part of what there is.
LEMMA CaseType == TypeOK => Objects \subseteq Digest /\ opt.ids \subseteq Node /\ Records \subseteq Record
BY DEF TypeOK, Options, Objects, Digest, Records, Record

LEMMA TypeStep == TypeOK /\ [Next]_vars => TypeOK'
<1> SUFFICES ASSUME TypeOK, [Next]_vars PROVE TypeOK'
  OBVIOUS
<1> USE Constants
<1>1. CASE Pop
  BY <1>1, ElemsPop DEF Pop, TypeOK, store, Goto
<1>2. CASE Finish
  BY <1>2 DEF Finish, TypeOK, store, Goto
<1>3. CASE ReadManifest
  BY <1>3 DEF ReadManifest, TypeOK, store, Goto, Readable
<1>4. CASE CheckObject
  BY <1>4 DEF CheckObject, Check, TypeOK, store, Goto
<1>5. CASE CheckParents
  BY <1>5 DEF CheckParents, Check, TypeOK, store, Goto
<1>6. CASE CheckTransform
  BY <1>6 DEF CheckTransform, Check, TypeOK, store, Goto
<1>7. CASE CheckRetraction
  <2>1. opt.deny \in BOOLEAN /\ opt.replay \in BOOLEAN
    BY DEF TypeOK, Options
  <2>2. bad' \in BOOLEAN /\ warned' \in SUBSET Node /\ pc' \in {"replay", "push"}
    BY <1>7, <2>1 DEF CheckRetraction, TypeOK, Goto
  <2>3. QED
    BY <1>7, <2>2 DEF CheckRetraction, TypeOK, store
<1>8. CASE CopyParent
  <2>1. input' \in Seq({"intact", "corrupt", "missing"})
    BY <1>8 DEF CopyParent, TypeOK
  <2>2. QED
    BY <1>8, <2>1 DEF CopyParent, TypeOK, store
<1>9. CASE EndReplay
  <2>1. bad' \in BOOLEAN
    BY <1>9 DEF EndReplay
  <2>2. input' \in Seq({"intact", "corrupt", "missing"})
    BY <1>9 DEF EndReplay
  <2>3. QED
    BY <1>9, <2>1, <2>2 DEF EndReplay, TypeOK, store, Goto
<1>10. CASE PushParents
  <2>1. Readable(nid) => stack \o man[nid].parents \in Seq(Node)
    BY ElemsConcat DEF TypeOK, Readable, Record
  <2>2. failed' \in BOOLEAN
    BY <1>10 DEF PushParents, TypeOK
  <2>3. QED
    BY <1>10, <2>1, <2>2 DEF PushParents, TypeOK, store, Goto
<1>11. CASE \E d \in Objects : StoreBlob(d)
  BY <1>11, CaseType DEF StoreBlob, TypeOK, walk
<1>12. CASE \E d \in Objects : StoreTornBlob(d)
  BY <1>12, CaseType DEF StoreTornBlob, TypeOK, walk
<1>13. CASE \E n \in opt.ids : CreateManifest(n)
  BY <1>13, CaseType DEF CreateManifest, TypeOK, walk
<1>14. CASE \E n \in opt.ids, m \in Records : FillManifest(n, m)
  BY <1>14, CaseType DEF FillManifest, TypeOK, walk
<1>15. CASE \E n \in opt.ids : Retract(n)
  BY <1>15, CaseType DEF Retract, TypeOK, walk
<1>16. CASE UNCHANGED vars
  BY <1>16 DEF vars, store, walk, TypeOK
<1>17. QED
  BY <1>1, <1>2, <1>3, <1>4, <1>5, <1>6, <1>7, <1>8, <1>9, <1>10, <1>11,
     <1>12, <1>13, <1>14, <1>15, <1>16 DEF Next, Audit, Write

\* The variables keep their types: in particular, verify_node has a readable
\* manifest in hand whenever it goes on to check what the manifest names.
THEOREM TypeCorrect == Spec => []TypeOK
BY InitType, TypeStep, PTL DEF Spec

(***************************************************************************)
(* The store only grows                                                    *)
(***************************************************************************)

\* What every step, of the audit and of the writers, keeps of the store.
Grows ==
    /\ \A n \in Node : Readable(n) => man'[n] = man[n]
    /\ \A n \in Node : man[n] # Absent => man'[n] # Absent
    /\ intact \subseteq intact'
    /\ retracted \subseteq retracted'
    /\ opt' = opt
    /\ ~opt.race => corrupt' = corrupt

LEMMA StoreGrows == TypeOK /\ [Next]_vars => Grows
<1> SUFFICES ASSUME TypeOK, [Next]_vars PROVE Grows
  OBVIOUS
<1> USE Constants
<1>1. CASE Audit \/ UNCHANGED vars
  <2>1. UNCHANGED <<opt, store>>
    BY <1>1 DEF Audit, vars, Pop, Finish, ReadManifest, CheckObject, CheckParents,
       CheckTransform, Check, CheckRetraction, CopyParent, EndReplay, PushParents
  <2>2. QED
    BY <2>1 DEF store, Grows
<1>2. CASE \E d \in Objects : StoreBlob(d)
  BY <1>2 DEF StoreBlob, Grows
<1>3. CASE \E d \in Objects : StoreTornBlob(d)
  BY <1>3 DEF StoreTornBlob, Grows
<1>4. CASE \E n \in opt.ids : CreateManifest(n)
  BY <1>4, CaseType DEF CreateManifest, Grows, Readable, TypeOK
<1>5. CASE \E n \in opt.ids, m \in Records : FillManifest(n, m)
  BY <1>5, CaseType DEF FillManifest, Grows, Readable, TypeOK
<1>6. CASE \E n \in opt.ids : Retract(n)
  BY <1>6 DEF Retract, Grows
<1>7. QED
  BY <1>1, <1>2, <1>3, <1>4, <1>5, <1>6 DEF Next, Write

LEMMA ParentsType == TypeOK => \A n \in Node : Parents(n) \subseteq Node
BY Constants, ElemsType DEF TypeOK, Parents, Readable, Record

\* A manifest that can be read stays as it is, and a node that verifies goes
\* on verifying.
LEMMA NodeStep ==
    ASSUME TypeOK, Grows, NEW n \in Node
    PROVE  /\ Readable(n) => Readable(n)' /\ Parents(n)' = Parents(n)
           /\ Parents(n) \subseteq Parents(n)'
           /\ NodeOk(n) => NodeOk(n)'
           /\ Readable(n) /\ Derives(n) => Derives(n)'
<1>1. Readable(n) => Readable(n)' /\ Parents(n)' = Parents(n)
  BY DEF Grows, Readable, Parents
<1>2. ~Readable(n) => Parents(n) = {}
  BY DEF Parents
<1>3. NodeOk(n) => NodeOk(n)'
  <2> HAVE NodeOk(n)
  <2>1. Readable(n) /\ man'[n] = man[n]
    BY DEF NodeOk, Grows
  <2>2. Parents(n) \subseteq Node
    BY ParentsType
  <2>3. QED
    BY <1>1, <2>1, <2>2 DEF NodeOk, Grows
<1>4. Readable(n) /\ Derives(n) => Derives(n)'
  <2> HAVE Readable(n) /\ Derives(n)
  <2>1. man'[n] = man[n] /\ Parents(n)' = Parents(n)
    BY <1>1 DEF Grows
  <2>2. QED
    BY <2>1 DEF Derives
<1>5. QED
  BY <1>1, <1>2, <1>3, <1>4

(***************************************************************************)
(* Reachable nodes                                                         *)
(***************************************************************************)

LEMMA ReachClosed ==
    TypeOK => /\ Reach(Root) \subseteq Node
              /\ Root \in Reach(Root)
              /\ \A n \in Reach(Root) : Parents(n) \subseteq Reach(Root)
BY Constants, ParentsType DEF Reach, Closed

LEMMA ReachLeast ==
    ASSUME NEW S \in SUBSET Node, Root \in S, \A n \in S : Parents(n) \subseteq S
    PROVE  Reach(Root) \subseteq S
BY DEF Reach, Closed

\* While everything reachable can be read, the reachable nodes stay the same.
LEMMA ReachStep ==
    ASSUME TypeOK, TypeOK', Grows, \A n \in Reach(Root) : Readable(n)
    PROVE  Reach(Root)' = Reach(Root)
<1> DEFINE R == Reach(Root)
<1>1. R \subseteq Node /\ Root \in R /\ \A n \in R : Parents(n) \subseteq R
  BY ReachClosed
<1>2. \A n \in R : Parents(n)' = Parents(n)
  BY <1>1, NodeStep
<1>3. \A n \in Node : Parents(n) \subseteq Parents(n)'
  BY NodeStep
<1>4. Reach(Root)' \subseteq R
  <2> HIDE DEF R
  <2>1. Root \in R /\ \A n \in R : Parents(n)' \subseteq R
    BY <1>1, <1>2
  <2>2. QED
    BY <1>1, <2>1 DEF Reach, Closed
<1>5. R \subseteq Reach(Root)'
  <2> SUFFICES ASSUME NEW m \in Node, m \in R,
                      NEW S \in SUBSET Node, Root \in S,
                      \A n \in S : Parents(n)' \subseteq S
               PROVE  m \in S
    BY <1>1 DEF Reach, Closed
  <2>1. \A n \in S : Parents(n) \subseteq S
    BY <1>3
  <2>2. QED
    BY <2>1, ReachLeast
<1>6. QED
  BY <1>4, <1>5

(***************************************************************************)
(* One replay                                                              *)
(***************************************************************************)

\* What replay_node has found is about the first parents of the node.
InputInv ==
    /\ pc # "replay" => input = <<>>
    /\ pc = "replay" =>
          /\ Len(input) <= Len(doc.parents)
          /\ ~opt.race => \A i \in 1..Len(input) :
                             input[i] = "corrupt" => doc.parents[i] \in corrupt

LEMMA InputInit == Init => InputInv
BY DEF Init, InputInv

LEMMA AppendInput ==
    ASSUME NEW S, NEW s \in Seq(S), NEW x \in S
    PROVE  /\ Append(s, x) \in Seq(S) /\ Len(Append(s, x)) = Len(s) + 1
           /\ \A i \in 1..Len(s) : Append(s, x)[i] = s[i]
           /\ Append(s, x)[Len(s) + 1] = x
OBVIOUS

LEMMA InputStep == TypeOK /\ InputInv /\ [Next]_vars => InputInv'
<1> SUFFICES ASSUME TypeOK, InputInv, [Next]_vars PROVE InputInv'
  OBVIOUS
<1>1. Grows
  BY StoreGrows
<1>2. CASE Pop \/ Finish \/ ReadManifest \/ CheckObject \/ CheckParents
             \/ CheckTransform \/ PushParents
  <2>1. pc # "replay" /\ pc' # "replay" /\ input' = input
    BY <1>2 DEF Pop, Finish, ReadManifest, CheckObject, CheckParents,
       CheckTransform, Check, PushParents, Goto
  <2>2. QED
    BY <2>1 DEF InputInv
<1>3. CASE CheckRetraction
  <2>1. input' = <<>> /\ doc' = doc /\ doc.parents \in Seq(Node)
    BY <1>3, Constants DEF CheckRetraction, InputInv, TypeOK, Record
  <2>2. Len(input') <= Len(doc'.parents) /\ 1..Len(input') = {}
    BY <2>1
  <2>3. QED
    BY <2>1, <2>2 DEF InputInv
<1>4. CASE CopyParent
  <2> DEFINE k == Len(input)
             x == IF doc.parents[k + 1] \in intact THEN "intact"
                  ELSE IF doc.parents[k + 1] \in corrupt THEN "corrupt" ELSE "missing"
  <2>1. /\ k < Len(doc.parents) /\ input' = Append(input, x)
        /\ pc = "replay" /\ UNCHANGED <<pc, opt, store, doc>>
    BY <1>4 DEF CopyParent
  <2>2. doc.parents \in Seq(Node)
    BY <2>1, Constants DEF TypeOK, Record
  <2>3. /\ Len(input') = k + 1
        /\ \A i \in 1..k : input'[i] = input[i]
        /\ input'[k + 1] = x
        /\ k \in Nat
    BY <2>1, AppendInput DEF TypeOK
  <2>4. Len(input') <= Len(doc'.parents)
    BY <2>1, <2>2, <2>3
  <2>5. x = "corrupt" => doc.parents[k + 1] \in corrupt
    OBVIOUS
  <2>6. \A i \in 1..Len(input') : i \in 1..k \/ i = k + 1
    BY <2>3
  <2>7. ~opt.race => \A i \in 1..Len(input') :
                        input'[i] = "corrupt" => doc.parents[i] \in corrupt
    <3> HIDE DEF x, k
    <3> SUFFICES ASSUME ~opt.race, NEW i \in 1..Len(input'), input'[i] = "corrupt"
                 PROVE  doc.parents[i] \in corrupt
      OBVIOUS
    <3>1. CASE i \in 1..k
      BY <2>1, <2>3, <3>1 DEF InputInv, k
    <3>2. CASE i = k + 1
      BY <2>3, <2>5, <3>2
    <3>3. QED
      BY <2>6, <3>1, <3>2
  <2>8. doc' = doc /\ corrupt' = corrupt /\ opt' = opt /\ pc' = pc
    BY <2>1 DEF store
  <2>9. QED
    BY <2>1, <2>4, <2>7, <2>8 DEF InputInv
<1>5. CASE EndReplay
  BY <1>5 DEF EndReplay, InputInv, Goto
<1>6. CASE Write \/ UNCHANGED vars
  <2>1. UNCHANGED walk
    BY <1>6 DEF Write, StoreBlob, StoreTornBlob, CreateManifest, FillManifest, Retract, vars
  <2>2. QED
    BY <1>1, <2>1 DEF walk, InputInv, Grows
<1>7. QED
  BY <1>2, <1>3, <1>4, <1>5, <1>6 DEF Next, Audit

(***************************************************************************)
(* A verdict of "OK"                                                       *)
(***************************************************************************)

\* The ids that have been visited or wait for it.
Known == seen \cup Elems(stack)

\* A replay that was right is one that reproduced the node, or was given
\* other bytes than a parent's: then that parent is going to fail.
Replayed(n) ==
    opt.replay /\ ~opt.race => Derives(n) \/ Parents(n) \cap corrupt # {}

\* What is established of a node whose visit is over.
Complete(n) == NodeOk(n) /\ Replayed(n) /\ Parents(n) \subseteq Known

Late == {"retraction", "replay", "push"}

\* The visit of nid has passed the checks that come before pc.
Checked ==
    /\ pc \in {"object", "parents", "transform", "retraction", "replay"} => doc = man[nid]
    /\ pc \in {"object", "parents", "transform"} \cup Late => Readable(nid)
    /\ pc \in {"parents", "transform"} \cup Late => nid \in intact
    /\ pc \in {"transform"} \cup Late => \A p \in Parents(nid) : man[p] # Absent
    /\ pc \in Late /\ Parents(nid) # {} => man[nid].transform \in intact
    /\ pc = "push" => Replayed(nid)

Idle == pc \in {"pop", "done"}

\* As long as no error was reported, every visited node verifies and its
\* parents are known, except the one whose visit is not over.
WalkInv ==
    /\ Root \in Known
    /\ pc = "done" => stack = <<>>
    /\ pc \in {"pop", "read", "replay", "done"} => ~bad
    /\ ~bad => Checked
    /\ ~failed => \A n \in seen : n # nid \/ Idle => Complete(n)

LEMMA WalkInit == Init => WalkInv
BY ElemsOne DEF Init, WalkInv, Known, Checked, Idle, Late

LEMMA CheckedNode == Checked /\ pc \in Late => NodeOk(nid)
BY DEF Checked, NodeOk, Late

\* A replay that was right stays so while the store grows.
LEMMA ReplayedStays ==
    ASSUME TypeOK, Grows, NEW n \in Node, Readable(n), Replayed(n)
    PROVE  Replayed(n)'
<1>1. Parents(n)' = Parents(n) /\ (Derives(n) => Derives(n)')
  BY NodeStep
<1>2. opt' = opt /\ (~opt.race => corrupt' = corrupt)
  BY DEF Grows
<1>3. QED
  BY <1>1, <1>2 DEF Replayed

\* What a step that leaves the stack and the visited ids alone preserves.
LEMMA CompleteStays ==
    ASSUME TypeOK, Grows, NEW n \in Node, Complete(n), Known \subseteq Known'
    PROVE  Complete(n)'
<1>1. Parents(n)' = Parents(n) /\ NodeOk(n)'
  BY NodeStep DEF Complete, NodeOk
<1>2. Replayed(n)'
  BY ReplayedStays DEF Complete, NodeOk
<1>3. QED
  BY <1>1, <1>2 DEF Complete

\* The checks that were passed still hold when the store has grown.
LEMMA CheckedStays ==
    ASSUME TypeOK, Grows, Checked, UNCHANGED walk
    PROVE  Checked'
<1>1. nid \in Node /\ Parents(nid) \subseteq Node /\ pc' = pc /\ nid' = nid /\ doc' = doc
  BY ParentsType DEF TypeOK, walk
<1>2. Readable(nid) => Readable(nid)' /\ man'[nid] = man[nid] /\ Parents(nid)' = Parents(nid)
  <2>1. Readable(nid) => man'[nid] = man[nid]
    BY <1>1 DEF Grows
  <2>2. QED
    BY <1>1, <2>1 DEF Readable, Parents
<1>3. pc = "push" => Replayed(nid)'
  <2> HAVE pc = "push"
  <2>1. Readable(nid) /\ Replayed(nid)
    BY DEF Checked, Late
  <2>2. Parents(nid)' = Parents(nid) /\ man'[nid] = man[nid]
    BY <1>2, <2>1
  <2>3. opt' = opt /\ (~opt.race => corrupt' = corrupt)
    BY DEF Grows
  <2>4. Derives(nid) => Derives(nid)'
    BY <1>1, <2>2 DEF Derives
  <2>5. QED
    BY <2>1, <2>2, <2>3, <2>4 DEF Replayed
<1>4. \A p \in Node : man[p] # Absent => man'[p] # Absent
  BY DEF Grows
<1>5. intact \subseteq intact'
  BY DEF Grows
<1>6. CASE Readable(nid)
  <2>1. man'[nid] = man[nid] /\ Parents(nid)' = Parents(nid) /\ Readable(nid)'
    BY <1>2, <1>6
  <2>2. QED
    BY <1>1, <1>3, <1>4, <1>5, <2>1 DEF Checked, Late
<1>7. CASE ~Readable(nid)
  BY <1>1, <1>7 DEF Checked, Late
<1>8. QED
  BY <1>6, <1>7

\* The answer of a replay that ends without an error.
LEMMA AnswerRight ==
    ASSUME TypeOK, InputInv, Checked, pc = "replay",
           Len(input) = Len(doc.parents), TRUE \in ReplayAnswers
    PROVE  Replayed(nid)
<1> SUFFICES ASSUME ~opt.race PROVE Derives(nid) \/ Parents(nid) \cap corrupt # {}
  BY DEF Replayed
<1>1. doc = man[nid] /\ Readable(nid)
  BY DEF Checked, Late
<1>2. doc.parents \in Seq(Node) /\ Parents(nid) = Elems(doc.parents)
  BY <1>1, Constants DEF Parents, Readable, Record
<1>3. CASE doc.parents = <<>>
  BY <1>2, <1>3, ElemsNone DEF Derives
<1>4. CASE "corrupt" \in Elems(input)
  <2>1. PICK i \in 1..Len(input) : input[i] = "corrupt"
    BY <1>4 DEF Elems
  <2>2. doc.parents[i] \in corrupt /\ i \in 1..Len(doc.parents)
    BY <2>1 DEF InputInv
  <2>3. QED
    BY <1>2, <2>2 DEF Elems
<1>5. CASE doc.parents # <<>> /\ "corrupt" \notin Elems(input)
  <2>1. Reproduces(nid, doc)
    BY <1>5 DEF ReplayAnswers
  <2>2. QED
    BY <1>1, <2>1 DEF Derives
<1>6. QED
  BY <1>3, <1>4, <1>5

LEMMA WalkStep == TypeOK /\ InputInv /\ WalkInv /\ [Next]_vars => WalkInv'
<1> SUFFICES ASSUME TypeOK, InputInv, WalkInv, [Next]_vars PROVE WalkInv'
  OBVIOUS
<1> USE Constants
<1>1. TypeOK' /\ Grows
  BY TypeStep, StoreGrows
<1>2. seen \subseteq Node
  BY DEF TypeOK
<1>3. CASE Pop
  <2> DEFINE last == stack[Len(stack)]
  <2>1. Elems(stack) = Elems(stack') \cup {last} /\ last \in Node
    BY <1>3, ElemsPop DEF Pop, TypeOK
  <2>2. last \in seen' /\ seen \subseteq seen'
    BY <1>3 DEF Pop
  <2>3. Known \subseteq Known'
    BY <2>1, <2>2 DEF Known
  <2>4. ~failed => \A n \in seen : Complete(n)'
    BY <1>1, <1>2, <1>3, <2>3, CompleteStays DEF Pop, WalkInv, Idle
  <2>5. \A n \in seen' : n # nid' \/ Idle' => n \in seen
    BY <1>3 DEF Pop, Idle, Goto
  <2>6. Checked'
    BY <1>3 DEF Pop, Checked, Goto, Late
  <2>7. pc' # "done" /\ failed' = failed /\ ~bad'
    BY <1>3 DEF Pop, Goto, WalkInv
  <2>8. QED
    BY <2>3, <2>4, <2>5, <2>6, <2>7 DEF WalkInv
<1>4. CASE Finish
  <2>1. Known' = Known
    BY <1>4 DEF Finish, Known
  <2>2. ~failed => \A n \in seen : Complete(n)'
    BY <1>1, <1>2, <1>4, <2>1, CompleteStays DEF Finish, WalkInv, Idle
  <2>3. QED
    BY <1>4, <2>1, <2>2 DEF Finish, WalkInv, Goto, Checked, Late
<1>5. CASE ReadManifest \/ CheckObject \/ CheckParents \/ CheckTransform
             \/ CheckRetraction \/ CopyParent \/ EndReplay
  <2>1. /\ UNCHANGED <<opt, store, stack, seen, nid, failed>>
        /\ ~Idle /\ ~Idle' /\ pc' # "read"
    BY <1>5 DEF ReadManifest, CheckObject, CheckParents, CheckTransform, Check,
       CheckRetraction, CopyParent, EndReplay, Goto, Idle, TypeOK
  <2>2. Known' = Known
    BY <2>1 DEF Known
  <2>3. ~failed' => \A n \in seen' : n # nid' => Complete(n)'
    <3> SUFFICES ASSUME ~failed', NEW n \in seen, n # nid PROVE Complete(n)'
      BY <2>1
    <3>1. Complete(n)
      BY <2>1 DEF WalkInv
    <3>2. QED
      BY <1>1, <1>2, <2>2, <3>1, CompleteStays
  <2>4. ~bad' => Checked'
    <3> SUFFICES ASSUME ~bad' PROVE Checked'
      OBVIOUS
    <3>1. ~bad => Checked
      BY DEF WalkInv
    <3>2. Parents(nid)' = Parents(nid) /\ Readable(nid)' = Readable(nid) /\ Late' = Late
      BY <2>1 DEF store, Parents, Readable, Late
    <3>3. CASE ReadManifest
      BY <3>2, <3>3 DEF ReadManifest, Checked, Goto, store, Late
    <3>4. CASE CheckObject
      BY <3>1, <3>2, <3>4 DEF CheckObject, Check, Checked, Goto, store, TypeOK, Late
    <3>5. CASE CheckParents
      BY <3>1, <3>2, <3>5 DEF CheckParents, Check, Checked, Goto, store, TypeOK, Parents, Late
    <3>6. CASE CheckTransform
      <4>1. ~bad
        BY <3>6 DEF CheckTransform, Check, TypeOK
      <4>2. doc.parents # <<>> <=> Parents(nid) # {}
        BY <3>1, <3>6, <4>1, ElemsEmpty DEF CheckTransform, Check, Checked, Parents,
           TypeOK, Record
      <4>3. QED
        BY <3>1, <3>2, <3>6, <4>1, <4>2 DEF CheckTransform, Check, Checked, Goto, store,
           TypeOK, Late
    <3>7. CASE CheckRetraction
      <4>1. ~bad /\ (opt.replay => pc' = "replay")
        BY <3>7 DEF CheckRetraction, TypeOK, Goto
      <4>2. pc' = "push" => Replayed(nid)'
        BY <2>1, <4>1 DEF Replayed
      <4>3. QED
        BY <2>1, <3>1, <3>2, <3>7, <4>1, <4>2 DEF CheckRetraction, Checked, Goto, store, Late
    <3>8. CASE CopyParent
      BY <2>1, <3>1, <3>2, <3>8 DEF CopyParent, Checked, store, Late
    <3>9. CASE EndReplay
      <4>1. ~bad /\ TRUE \in ReplayAnswers
        <5>1. ReplayAnswers \subseteq BOOLEAN
          <6>1. doc.parents # <<>> => Reproduces(nid, doc) \in BOOLEAN
            BY <3>9, AuditAssumption DEF AuditAssumption, EndReplay, TypeOK
          <6>2. QED
            BY <6>1 DEF ReplayAnswers
        <5>2. PICK ok \in ReplayAnswers : bad' = ~ok
          BY <3>9 DEF EndReplay
        <5>3. ok = TRUE
          BY <5>1, <5>2
        <5>4. QED
          BY <3>9, <5>3 DEF EndReplay, WalkInv
      <4>2. Replayed(nid)
        BY <3>1, <3>9, <4>1, AnswerRight DEF EndReplay
      <4>3. Derives(nid) => Derives(nid)'
        BY <2>1, <3>2 DEF Derives, store
      <4>4. Replayed(nid)'
        BY <2>1, <3>2, <4>2, <4>3 DEF Replayed, store
      <4>5. QED
        BY <2>1, <3>1, <3>2, <3>9, <4>1, <4>4 DEF EndReplay, Checked, Goto, store, Late
    <3>10. QED
      BY <1>5, <3>3, <3>4, <3>5, <3>6, <3>7, <3>8, <3>9
  <2>5. pc' = "replay" => ~bad'
    BY <1>5 DEF ReadManifest, CheckObject, CheckParents, CheckTransform, Check,
       CheckRetraction, CopyParent, EndReplay, Goto, WalkInv
  <2>6. Root \in Known' /\ pc' \notin {"pop", "done"}
    BY <2>1, <2>2 DEF WalkInv, Idle
  <2>7. QED
    BY <2>1, <2>3, <2>4, <2>5, <2>6 DEF WalkInv
<1>6. CASE PushParents
  <2>1. UNCHANGED <<opt, store, seen, nid>> /\ pc = "push" /\ pc' = "pop" /\ ~bad'
    BY <1>6 DEF PushParents, Goto
  <2>2. Readable(nid) => Elems(stack') = Elems(stack) \cup Parents(nid)
    <3> HAVE Readable(nid)
    <3>1. man[nid].parents \in Seq(Node) /\ Parents(nid) = Elems(man[nid].parents)
      BY DEF Readable, Parents, Record
    <3>2. stack' = stack \o man[nid].parents /\ stack \in Seq(Node)
      BY <1>6 DEF PushParents, TypeOK
    <3>3. Elems(stack \o man[nid].parents) = Elems(stack) \cup Elems(man[nid].parents)
      BY <3>1, <3>2, ElemsConcat
    <3>4. QED
      BY <3>1, <3>2, <3>3
  <2>3. Known \subseteq Known'
    BY <1>6, <2>1, <2>2 DEF Known, PushParents
  <2>4. ~failed' => \A n \in seen : Complete(n)'
    <3> SUFFICES ASSUME ~failed', NEW n \in seen PROVE Complete(n)'
      OBVIOUS
    <3>1. Readable(nid) /\ ~failed /\ ~bad
      BY <1>6 DEF PushParents, TypeOK
    <3>2. CASE n = nid
      <4>1. NodeOk(nid) /\ Replayed(nid)
        BY <2>1, <3>1, CheckedNode DEF WalkInv, Checked, Late
      <4>2. NodeOk(nid)' /\ Replayed(nid)' /\ Parents(nid)' = Parents(nid)
        <5>1. Parents(nid)' = Parents(nid) /\ (Derives(nid) => Derives(nid)')
          BY <2>1 DEF store, Parents, Readable, Derives
        <5>2. NodeOk(nid)'
          BY <2>1, <4>1, <5>1 DEF store, NodeOk, Readable
        <5>3. Replayed(nid)'
          BY <2>1, <4>1, <5>1 DEF store, Replayed
        <5>4. QED
          BY <5>1, <5>2, <5>3
      <4>3. QED
        BY <2>1, <2>2, <3>1, <3>2, <4>2 DEF Complete, Known
    <3>3. CASE n # nid
      <4>1. Complete(n)
        BY <3>1, <3>3 DEF WalkInv
      <4>2. QED
        BY <1>1, <1>2, <2>3, <4>1, CompleteStays
    <3>4. QED
      BY <3>2, <3>3
  <2>5. QED
    BY <2>1, <2>3, <2>4 DEF WalkInv, Checked, Late
<1>7. CASE Write \/ UNCHANGED vars
  <2>1. UNCHANGED walk
    BY <1>7 DEF Write, StoreBlob, StoreTornBlob, CreateManifest, FillManifest, Retract, vars
  <2>2. Known' = Known /\ Idle' = Idle
    BY <2>1 DEF walk, Known, Idle
  <2>3. \A n \in seen : Complete(n) => Complete(n)'
    BY <1>1, <1>2, <2>2, CompleteStays
  <2>4. Checked => Checked'
    BY <1>1, <2>1, CheckedStays
  <2>5. QED
    BY <2>1, <2>2, <2>3, <2>4 DEF WalkInv, walk
<1>8. QED
  BY <1>3, <1>4, <1>5, <1>6, <1>7 DEF Next, Audit

LEMMA WalkCovers ==
    TypeOK /\ WalkInv /\ pc = "done" /\ ~failed =>
        /\ Reach(Root) \subseteq seen
        /\ \A n \in seen : NodeOk(n) /\ (opt.replay /\ ~opt.race => Derives(n))
<1> SUFFICES ASSUME TypeOK, WalkInv, pc = "done", ~failed
             PROVE  /\ Reach(Root) \subseteq seen
                    /\ \A n \in seen : NodeOk(n) /\ (opt.replay /\ ~opt.race => Derives(n))
  OBVIOUS
<1>1. Known = seen
  BY ElemsNone DEF WalkInv, Known
<1>2. \A n \in seen : Complete(n)
  BY DEF WalkInv, Idle
<1>3. seen \in SUBSET Node /\ Root \in seen
  BY <1>1 DEF TypeOK, WalkInv
<1>4. seen \cap corrupt = {}
  BY <1>2 DEF Complete, NodeOk, TypeOK
<1>5. QED
  BY <1>1, <1>2, <1>3, <1>4, ReachLeast DEF Complete, Replayed

\* When verify-reachable reports "OK", everything reachable verifies at that
\* moment, although the files were read one after the other while others were
\* being written: what a check has seen only gets better.  With --replay, the
\* derived nodes follow from their parents: a parent that was not what its
\* name says when it was used has failed its own check since.
THEOREM VerdictIsSound == Spec => []VerdictSound
<1>1. TypeOK /\ WalkInv => VerdictSound
  BY WalkCovers DEF VerdictSound
<1>2. QED
  BY <1>1, InitType, TypeStep, InputInit, InputStep, WalkInit, WalkStep, PTL DEF Spec

(***************************************************************************)
(* An error                                                                *)
(***************************************************************************)

Retracted == opt.deny /\ Reach(Root) \cap retracted # {}

\* If everything reachable verified at the start, it still does, the walk is
\* on reachable nodes only, and the only error it can find is a retraction.
AlarmInv ==
    before.ok =>
        /\ ReachOk
        /\ Known \cup {nid} \subseteq Reach(Root)
        /\ pc \in {"object", "parents", "transform", "retraction", "replay"} =>
              doc = man[nid]
        /\ pc = "replay" => opt.replay /\ \A i \in 1..Len(input) : input[i] = "intact"
        /\ failed \/ bad => Retracted

LEMMA AlarmInit == Init => AlarmInv
<1> SUFFICES ASSUME Init PROVE AlarmInv
  OBVIOUS
<1>1. Root \in Reach(Root)
  BY InitType, ReachClosed
<1>2. Known \cup {nid} = {Root}
  BY ElemsOne DEF Init, Known
<1>3. before.ok => ReachOk
  BY DEF Init
<1>4. QED
  BY <1>1, <1>2, <1>3 DEF Init, AlarmInv

\* What the growth of the store leaves of the invariant.
LEMMA AlarmStays ==
    ASSUME TypeOK, TypeOK', Grows, AlarmInv, before.ok
    PROVE  /\ Reach(Root)' = Reach(Root)
           /\ ReachOk'
           /\ Retracted => Retracted'
           /\ \A n \in Reach(Root) : Readable(n) /\ man'[n] = man[n]
<1>1. Reach(Root) \subseteq Node
  BY ReachClosed
<1>2. \A n \in Reach(Root) : NodeOk(n) /\ (opt.replay => Derives(n))
  BY DEF AlarmInv, ReachOk
<1>3. Reach(Root)' = Reach(Root)
  BY <1>2, ReachStep DEF NodeOk
<1>4. ReachOk'
  <2>1. \A n \in Reach(Root) : NodeOk(n)' /\ (opt.replay => Derives(n)')
    BY <1>1, <1>2, NodeStep DEF NodeOk
  <2>2. opt' = opt
    BY DEF Grows
  <2>3. QED
    BY <1>3, <2>1, <2>2 DEF ReachOk
<1>5. Retracted => Retracted'
  BY <1>3 DEF Retracted, Grows
<1>6. \A n \in Reach(Root) : Readable(n) /\ man'[n] = man[n]
  BY <1>1, <1>2 DEF NodeOk, Grows
<1>7. QED
  BY <1>3, <1>4, <1>5, <1>6

LEMMA AlarmStep == TypeOK /\ InputInv /\ AlarmInv /\ [Next]_vars => AlarmInv'
<1> SUFFICES ASSUME TypeOK, InputInv, AlarmInv, [Next]_vars, before'.ok PROVE AlarmInv'
  BY DEF AlarmInv
<1> USE Constants
<1>1. TypeOK' /\ Grows
  BY TypeStep, StoreGrows
<1>2. before' = before
  BY DEF Next, Audit, Write, Pop, Finish, ReadManifest, CheckObject, CheckParents,
     CheckTransform, Check, CheckRetraction, CopyParent, EndReplay, PushParents,
     StoreBlob, StoreTornBlob, CreateManifest, FillManifest, Retract, vars
<1>3. /\ Reach(Root)' = Reach(Root)
      /\ ReachOk'
      /\ Retracted => Retracted'
      /\ \A n \in Reach(Root) : Readable(n) /\ man'[n] = man[n]
      /\ opt' = opt
  BY <1>1, <1>2, AlarmStays DEF Grows
<1>4. /\ NodeOk(nid) /\ (opt.replay => Derives(nid))
      /\ nid \in Reach(Root) /\ Known \subseteq Reach(Root)
      /\ pc \in {"object", "parents", "transform", "retraction", "replay"} =>
            doc = man[nid]
      /\ pc = "replay" => opt.replay /\ \A i \in 1..Len(input) : input[i] = "intact"
      /\ failed \/ bad => Retracted
  BY <1>2 DEF AlarmInv, ReachOk
<1>5. SUFFICES
        /\ Known' \cup {nid'} \subseteq Reach(Root)
        /\ pc' \in {"object", "parents", "transform", "retraction", "replay"} =>
              doc' = man'[nid']
        /\ pc' = "replay" => opt.replay /\ \A i \in 1..Len(input') : input'[i] = "intact"
        /\ failed' \/ bad' => Retracted'
  BY <1>2, <1>3 DEF AlarmInv
<1>6. CASE Pop
  <2>1. Elems(stack) = Elems(stack') \cup {stack[Len(stack)]}
    BY <1>6, ElemsPop DEF Pop, TypeOK
  <2>2. Known' \cup {nid'} \subseteq Known \cup {nid}
    BY <1>6, <2>1 DEF Pop, Known
  <2>3. QED
    BY <1>3, <1>4, <1>6, <2>2 DEF Pop, Goto
<1>7. CASE Finish
  BY <1>3, <1>4, <1>7 DEF Finish, Goto, Known
<1>8. CASE ReadManifest
  BY <1>3, <1>4, <1>8 DEF ReadManifest, Goto, Known, store
<1>9. CASE CheckObject
  BY <1>3, <1>4, <1>9 DEF CheckObject, Check, Goto, Known, store, NodeOk
<1>10. CASE CheckParents
  BY <1>3, <1>4, <1>10 DEF CheckParents, Check, Goto, Known, store, NodeOk, Parents
<1>11. CASE CheckTransform
  <2>1. doc = man[nid] /\ doc.parents \in Seq(Node)
    BY <1>3, <1>4, <1>11 DEF CheckTransform, Check, Readable, Record
  <2>2. doc.parents # <<>> => doc.transform \in intact
    BY <1>4, <2>1, ElemsEmpty DEF NodeOk, Parents
  <2>3. QED
    BY <1>3, <1>4, <1>11, <2>2 DEF CheckTransform, Check, Goto, Known, store
<1>12. CASE CheckRetraction
  <2>1. opt.deny /\ nid \in retracted => Retracted
    BY <1>4 DEF Retracted
  <2>2. pc' = "replay" => opt.replay /\ input' = <<>> /\ 1..Len(input') = {}
    BY <1>12 DEF CheckRetraction, InputInv, Goto
  <2>3. QED
    BY <1>3, <1>4, <1>12, <2>1, <2>2 DEF CheckRetraction, Goto, Known, store
<1>13. CASE CopyParent
  <2> DEFINE p == doc.parents[Len(input) + 1]
  <2>1. doc = man[nid] /\ doc.parents \in Seq(Node)
    BY <1>3, <1>4, <1>13 DEF CopyParent, Readable, Record
  <2>2. p \in Parents(nid)
    <3>1. Len(input) + 1 \in 1..Len(doc.parents)
      BY <1>13, <2>1 DEF CopyParent, TypeOK
    <3>2. QED
      BY <1>4, <2>1, <3>1 DEF Parents, NodeOk, Elems
  <2>3. p \in intact
    <3>1. p \in Reach(Root)
      BY <1>4, <2>2, ReachClosed
    <3>2. QED
      BY <1>2, <3>1 DEF AlarmInv, ReachOk, NodeOk
  <2>4. input' = Append(input, "intact")
    BY <1>13, <2>3 DEF CopyParent
  <2>5. /\ Len(input') = Len(input) + 1
        /\ \A i \in 1..Len(input) : input'[i] = input[i]
        /\ input'[Len(input) + 1] = "intact"
    BY <2>4, AppendInput DEF TypeOK
  <2>6. \A i \in 1..Len(input') : i \in 1..Len(input) \/ i = Len(input) + 1
    BY <2>5 DEF TypeOK
  <2>7. \A i \in 1..Len(input') : input'[i] = "intact"
    BY <1>4, <1>13, <2>5, <2>6 DEF CopyParent
  <2>8. QED
    BY <1>3, <1>4, <1>13, <2>7 DEF CopyParent, Known, store
<1>14. CASE EndReplay
  <2>1. doc = man[nid] /\ doc.parents \in Seq(Node) /\ Parents(nid) = Elems(doc.parents)
    BY <1>3, <1>4, <1>14 DEF EndReplay, Readable, Record, Parents
  <2>2. "missing" \notin Elems(input) /\ "corrupt" \notin Elems(input)
    BY <1>4, <1>14 DEF EndReplay, Elems
  <2>3. doc.parents # <<>> => Reproduces(nid, doc)
    BY <1>4, <1>14, <2>1, ElemsEmpty DEF EndReplay, Derives
  <2>4. ReplayAnswers = {TRUE}
    <3>1. doc.parents # <<>> => Reproduces(nid, doc) = TRUE
      BY <1>14, <2>3, AuditAssumption DEF AuditAssumption, EndReplay, TypeOK
    <3>2. QED
      BY <2>2, <3>1 DEF ReplayAnswers
  <2>5. ~bad'
    BY <1>14, <2>4 DEF EndReplay
  <2>6. QED
    BY <1>3, <1>4, <1>14, <2>5 DEF EndReplay, Goto, Known, store
<1>15. CASE PushParents
  <2>1. Readable(nid) /\ man[nid].parents \in Seq(Node)
    BY <1>4 DEF NodeOk, Readable, Record
  <2>2. Elems(man[nid].parents) \subseteq Reach(Root)
    BY <1>4, <2>1, ReachClosed DEF Parents
  <2>3. stack' = stack \o man[nid].parents /\ stack \in Seq(Node)
    BY <1>15, <2>1 DEF PushParents, TypeOK
  <2>4. Elems(stack') = Elems(stack) \cup Elems(man[nid].parents)
    BY <2>1, <2>3, ElemsConcat
  <2>5. QED
    BY <1>3, <1>4, <1>15, <2>1, <2>2, <2>4 DEF PushParents, Goto, Known
<1>16. CASE Write \/ UNCHANGED vars
  <2>1. UNCHANGED walk
    BY <1>16 DEF Write, StoreBlob, StoreTornBlob, CreateManifest, FillManifest, Retract, vars
  <2>2. QED
    BY <1>3, <1>4, <2>1 DEF walk, Known
<1>17. QED
  BY <1>6, <1>7, <1>8, <1>9, <1>10, <1>11, <1>12, <1>13, <1>14, <1>15, <1>16
  DEF Next, Audit

\* verify-reachable raises no alarm because of what is being written while it
\* runs: of a history that verified, it can only report retractions.
THEOREM NoFalseAlarms == Spec => []NoFalseAlarm
<1>1. AlarmInv => NoFalseAlarm
  BY DEF AlarmInv, NoFalseAlarm, Retracted
<1>2. QED
  BY <1>1, InitType, TypeStep, InputInit, InputStep, AlarmInit, AlarmStep, PTL DEF Spec

(***************************************************************************)
(* Retractions                                                             *)
(***************************************************************************)

Reported(n) == ~opt.deny /\ n \in warned

ReportInv ==
    /\ before.retracted \subseteq retracted
    /\ ~bad => (nid \in before.retracted /\ pc \in {"replay", "push"} => Reported(nid))
    /\ ~failed => \A n \in seen \cap before.retracted : n # nid \/ Idle => Reported(n)

LEMMA ReportInit == Init => ReportInv
BY DEF Init, ReportInv

LEMMA ReportStep == TypeOK /\ WalkInv /\ ReportInv /\ [Next]_vars => ReportInv'
<1> SUFFICES ASSUME TypeOK, WalkInv, ReportInv, [Next]_vars PROVE ReportInv'
  OBVIOUS
<1>1. Grows
  BY StoreGrows
<1>2. before' = before
  BY DEF Next, Audit, Write, Pop, Finish, ReadManifest, CheckObject, CheckParents,
     CheckTransform, Check, CheckRetraction, CopyParent, EndReplay, PushParents,
     StoreBlob, StoreTornBlob, CreateManifest, FillManifest, Retract, vars
<1>3. before'.retracted \subseteq retracted' /\ opt' = opt
  BY <1>1, <1>2 DEF ReportInv, Grows
<1>4. CASE Pop
  BY <1>2, <1>3, <1>4 DEF Pop, ReportInv, Reported, Idle, Goto
<1>5. CASE Finish \/ PushParents
  BY <1>2, <1>3, <1>5 DEF Finish, PushParents, ReportInv, Reported, Idle, Goto, TypeOK
<1>6. CASE ReadManifest
  BY <1>2, <1>3, <1>6 DEF ReadManifest, ReportInv, Reported, Idle, Goto
<1>7. CASE CheckObject \/ CheckParents \/ CheckTransform
  BY <1>2, <1>3, <1>7 DEF CheckObject, CheckParents, CheckTransform, Check,
     ReportInv, Reported, Idle, Goto, TypeOK
<1>8. CASE CheckRetraction
  BY <1>2, <1>3, <1>8 DEF CheckRetraction, ReportInv, Reported, Idle, Goto, TypeOK
<1>9. CASE CopyParent \/ EndReplay
  BY <1>2, <1>3, <1>9 DEF CopyParent, EndReplay, WalkInv, ReportInv, Reported, Idle, Goto, TypeOK
<1>10. CASE Write \/ UNCHANGED vars
  <2>1. UNCHANGED walk
    BY <1>10 DEF Write, StoreBlob, StoreTornBlob, CreateManifest, FillManifest, Retract, vars
  <2>2. QED
    BY <1>2, <1>3, <2>1 DEF walk, ReportInv, Reported, Idle
<1>11. QED
  BY <1>4, <1>5, <1>6, <1>7, <1>8, <1>9, <1>10 DEF Next, Audit

\* No retraction that was there when the audit started is passed over.
THEOREM RetractionsAreReported == Spec => []RetractionsReported
<1>1. TypeOK /\ WalkInv /\ ReportInv => RetractionsReported
  BY WalkCovers DEF ReportInv, Reported, Idle, RetractionsReported
<1>2. QED
  BY <1>1, InitType, TypeStep, InputInit, InputStep, WalkInit, WalkStep,
     ReportInit, ReportStep, PTL DEF Spec

\* --replay runs the transform of a node only after every check of it, and
\* what these checks found still holds while it runs.
THEOREM OnlyVerifiedRuns == Spec => []RunsOnlyVerified
<1>1. TypeOK /\ WalkInv /\ ReportInv => RunsOnlyVerified
  <2> SUFFICES ASSUME WalkInv, ReportInv, pc = "replay"
               PROVE  NodeOk(nid) /\ (opt.deny => nid \notin before.retracted)
    BY DEF RunsOnlyVerified
  <2>1. ~bad /\ Checked
    BY DEF WalkInv
  <2>2. QED
    BY <2>1, CheckedNode DEF ReportInv, Reported, Late
<1>2. QED
  BY <1>1, InitType, TypeStep, InputInit, InputStep, WalkInit, WalkStep,
     ReportInit, ReportStep, PTL DEF Spec
=============================================================================
