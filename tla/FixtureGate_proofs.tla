------------------------- MODULE FixtureGate_proofs -------------------------
(***************************************************************************)
(* Theorems about the fixture gate, for every set of cases, every state of *)
(* their directories and of the vectors, and every edited engine.          *)
(***************************************************************************)
EXTENDS FixtureGate, TLAPS

(***************************************************************************)
(* Types                                                                   *)
(***************************************************************************)

LEMMA CodeType == \A e : CodeOf(e) \in ProcessCode
BY DEF CodeOf, ProcessCode

LEMMA TypeInit == Init => TypeOK
<1> SUFFICES ASSUME Init PROVE TypeOK
  OBVIOUS
<1>1. /\ AllMatch \in VectorStates
      /\ {} \in CaseLists
      /\ "shipped" \in Engines
      /\ Pinned \in [Case -> Dirs \cup {Absent}]
      /\ MaxEdits \in Nat
  BY FixtureAssumption
<1>2. args \in Args
  BY <1>1 DEF Init, Args
<1>3. /\ dirs \in [Case -> Dirs \cup {Absent}]
      /\ vec \in VectorStates
      /\ engine \in Engines
  BY <1>1 DEF Init
<1>4. edits \in 0..MaxEdits
  BY <1>1 DEF Init
<1>5. QED
  BY <1>2, <1>3, <1>4 DEF Init, TypeOK

LEMMA TypeStep == TypeOK /\ [Next]_vars => TypeOK'
<1> SUFFICES ASSUME TypeOK, [Next]_vars PROVE TypeOK'
  OBVIOUS
<1> USE CodeType DEF TypeOK
<1>1. CASE UNCHANGED vars
  BY <1>1 DEF vars, repo, run
<1>2. ASSUME NEW a \in Args, Start(a) PROVE TypeOK'
  BY <1>2 DEF Start, Exit, ProcessCode, repo
<1>3. CASE RunVectors
  BY <1>3 DEF RunVectors, Exit, ProcessCode, repo
<1>4. CASE SelectCases
  BY <1>4 DEF SelectCases, Exit, ProcessCode, repo, Present, Args
<1>5. ASSUME NEW c \in Case, RunCase(c) PROVE TypeOK'
  BY <1>5 DEF RunCase, Raise, Compare, Exit, repo
<1>6. CASE Finish
  BY <1>6 DEF Finish, Exit, ProcessCode, repo
<1>7. CASE Interrupt
  BY <1>7 DEF Interrupt, Exit, ProcessCode, repo
<1>8. CASE CheckFrozen
  BY <1>8 DEF CheckFrozen, Unchanged, repo, run
<1>9. CASE Edit
  <2>1. edits' \in 0..MaxEdits
    <3>1. MaxEdits \in Nat
      BY FixtureAssumption
    <3>2. QED
      BY <1>9, <3>1 DEF Edit
  <2>2. QED
    BY <1>9, <2>1 DEF Edit, run
<1>10. QED
  BY <1>1, <1>2, <1>3, <1>4, <1>5, <1>6, <1>7, <1>8, <1>9 DEF Next

\* Every variable stays in its type, whatever the gate and the developer do:
\* in particular the process exits with a code of ADR-006, or with 130 when it
\* is interrupted (cli.py:75), and never with one of an envelope or with an
\* exception.
THEOREM TypeCorrect == Spec => []TypeOK
BY TypeInit, TypeStep, PTL DEF Spec

(***************************************************************************)
(* What a run has established                                              *)
(***************************************************************************)

\* The case was compared, and reproduces what is expected of it.
Passed(c) == Matches(c) /\ Actual(c) \notin Exception

Shown(c) == ~Matches(c) /\ (args.trace_dir => c \in traced)

\* Cases are run only after vectors that match; what was dealt with has
\* passed, unless a mismatch is on record; what is on record is a mismatch.
Progress ==
    pc = "cases" =>
        /\ todo \subseteq Selected
        /\ bad = {} => \A c \in Selected \ todo : Passed(c)

Ended == code = "OK" => vec = AllMatch /\ \A c \in Selected : Passed(c)

RunInv ==
    /\ pc \in {"select", "cases"} => vec = AllMatch
    /\ pc # "idle" => code = "none"
    /\ pc \in {"vectors", "select"} => bad = {}
    /\ Progress
    /\ pc = "cases" => \A c \in bad : c \in Selected /\ Shown(c)
    /\ Ended
    /\ MismatchIsShown

LEMMA RunInit == Init => RunInv
BY DEF Init, RunInv, Progress, Ended, MismatchIsShown

\* A run reads the repository, its options and its own state only; what it
\* keeps of them it keeps while they are the same.
LEMMA RunSame == RunInv /\ UNCHANGED <<repo, run, code>> => RunInv'
<1> SUFFICES ASSUME RunInv, UNCHANGED <<repo, run, code>> PROVE RunInv'
  OBVIOUS
<1>1. /\ Selected' = Selected
      /\ \A c : Matches(c)' = Matches(c) /\ Actual(c)' = Actual(c)
  BY DEF repo, run, Selected, Present, Matches, Actual, Verify, VerifyTriplet
<1>2. Progress' /\ Ended'
  BY <1>1 DEF RunInv, Progress, Ended, Passed, repo, run
<1>3. MismatchIsShown'
  BY <1>1 DEF RunInv, MismatchIsShown, repo, run
<1>4. (pc = "cases" => \A c \in bad : c \in Selected /\ Shown(c))'
  BY <1>1 DEF RunInv, Shown, repo, run
<1>5. QED
  BY <1>2, <1>3, <1>4 DEF RunInv, repo, run

LEMMA CaseStep ==
    ASSUME TypeOK, RunInv, NEW c \in Case, RunCase(c)
    PROVE  RunInv'
<1>1. /\ Selected' = Selected
      /\ \A x : Matches(x)' = Matches(x) /\ Actual(x)' = Actual(x)
  BY DEF RunCase, repo, Selected, Present, Matches, Actual, Verify, VerifyTriplet
<1>2. pc = "cases" /\ vec = AllMatch /\ vec' = vec /\ code = "none" /\ c \in todo /\ args' = args
  BY DEF RunInv, RunCase, IsNext, repo
<1>3. ASSUME pc' = "idle", code' \in {"USAGE", "INTERNAL_ERROR"} PROVE RunInv'
  BY <1>3 DEF RunInv, Progress, Ended, MismatchIsShown
<1>4. CASE Actual(c) \in Exception
  BY <1>3, <1>4 DEF RunCase, Raise, Exit, CodeOf
<1>5. CASE Actual(c) \notin Exception /\ dirs[c].expected = Broken
  BY <1>3, <1>5 DEF RunCase, Raise, Exit, CodeOf
<1>6. CASE Actual(c) \notin Exception /\ dirs[c].expected # Broken
  <2>1. Compare(c) /\ pc' = pc /\ code' = code
    BY <1>6 DEF RunCase
  <2>2. Progress'
    <3>1. todo' \subseteq Selected'
      BY <1>1, <1>2, <2>1 DEF RunInv, Progress, Compare
    <3>2. ASSUME bad' = {}, NEW x \in Selected', x \notin todo' PROVE Passed(x)'
      <4>1. bad = {} /\ Matches(c) /\ todo' = todo \ {c}
        BY <2>1, <3>2 DEF Compare
      <4>2. Passed(x)
        BY <1>1, <1>2, <1>6, <3>2, <4>1 DEF RunInv, Progress, Passed
      <4>3. QED
        BY <1>1, <4>2 DEF Passed
    <3>3. QED
      BY <3>1, <3>2 DEF Progress
  <2>3. ASSUME NEW x \in bad' PROVE x \in Selected' /\ Shown(x)'
    <3>1. CASE x \in bad
      BY <1>1, <1>2, <2>1, <3>1 DEF RunInv, Shown, Compare
    <3>2. CASE x = c /\ ~Matches(c)
      BY <1>1, <1>2, <2>1, <3>2 DEF RunInv, Progress, Shown, Compare
    <3>3. QED
      BY <2>1, <3>1, <3>2 DEF Compare
  <2>4. QED
    BY <1>2, <2>1, <2>2, <2>3 DEF RunInv, Ended, MismatchIsShown
<1>7. QED
  BY <1>4, <1>5, <1>6

LEMMA FinishStep ==
    ASSUME TypeOK, RunInv, Finish
    PROVE  RunInv'
<1>1. /\ Selected' = Selected
      /\ \A x : Matches(x)' = Matches(x) /\ Actual(x)' = Actual(x)
  BY DEF Finish, repo, Selected, Present, Matches, Actual, Verify, VerifyTriplet
<1>2. /\ pc = "cases" /\ vec = AllMatch /\ todo = {} /\ pc' = "idle"
      /\ UNCHANGED <<vec, args, bad, traced>>
  BY DEF RunInv, Finish, Exit, repo
<1>3. CASE bad = {}
  <2>1. code' = "OK" /\ \A c \in Selected : Passed(c)
    BY <1>2, <1>3 DEF RunInv, Progress, Finish, Exit
  <2>2. Ended'
    BY <1>1, <1>2, <2>1 DEF Ended, Passed
  <2>3. QED
    BY <1>2, <2>1, <2>2 DEF RunInv, Progress, MismatchIsShown
<1>4. CASE bad # {}
  <2>1. code' = "FIXTURE_MISMATCH"
    BY <1>4 DEF Finish, Exit
  <2>2. PICK c \in bad : c \in Selected /\ Shown(c)
    BY <1>2, <1>4 DEF RunInv
  <2>3. MismatchIsShown'
    BY <1>1, <1>2, <2>2 DEF MismatchIsShown, Shown
  <2>4. QED
    BY <1>2, <2>1, <2>3 DEF RunInv, Progress, Ended
<1>5. QED
  BY <1>3, <1>4

LEMMA RunStep == TypeOK /\ RunInv /\ [Next]_vars => RunInv'
<1> SUFFICES ASSUME TypeOK, RunInv, [Next]_vars PROVE RunInv'
  OBVIOUS
<1>1. CASE UNCHANGED vars
  BY <1>1, RunSame DEF vars
<1>2. ASSUME NEW a \in Args, Start(a) PROVE RunInv'
  BY <1>2 DEF Start, Exit, RunInv, Progress, Ended, MismatchIsShown
<1>3. CASE RunVectors
  <2>1. vec' = vec /\ bad' = bad /\ pc = "vectors" /\ code = "none"
    BY <1>3 DEF RunVectors, RunInv, repo
  <2>2. CASE vec = AllMatch /\ pc' = "select" /\ UNCHANGED code
    BY <2>1, <2>2 DEF RunInv, Progress, Ended, MismatchIsShown
  <2>3. CASE \E f \in VectorFile : vec[f] = "differs" /\ Exit("FIXTURE_MISMATCH")
    BY <2>1, <2>3 DEF Exit, RunInv, Progress, Ended, MismatchIsShown
  <2>4. CASE \E f \in VectorFile : Exit(CodeOf(vec[f]))
    BY <2>1, <2>4 DEF Exit, CodeOf, RunInv, Progress, Ended, MismatchIsShown
  <2>5. QED
    BY <1>3, <2>2, <2>3, <2>4 DEF RunVectors
<1>4. CASE SelectCases
  <2>1. /\ UNCHANGED <<vec, dirs, args, bad>>
        /\ pc = "select" /\ vec = AllMatch /\ bad = {} /\ code = "none"
    BY <1>4 DEF SelectCases, RunInv, repo
  <2>2. CASE args.case \subseteq Present
    <3>1. pc' = "cases" /\ code' = code /\ todo' = Selected
      BY <1>4, <2>2 DEF SelectCases, Selected
    <3>2. Selected' = Selected
      BY <2>1 DEF Selected, Present
    <3>3. QED
      BY <2>1, <3>1, <3>2 DEF RunInv, Progress, Ended, MismatchIsShown
  <2>3. CASE ~(args.case \subseteq Present)
    <3>1. pc' = "idle" /\ code' = "USAGE"
      BY <1>4, <2>3 DEF SelectCases, Exit
    <3>2. QED
      BY <3>1 DEF RunInv, Progress, Ended, MismatchIsShown
  <2>4. QED
    BY <2>2, <2>3
<1>5. ASSUME NEW c \in Case, RunCase(c) PROVE RunInv'
  BY <1>5, CaseStep
<1>6. CASE Finish
  BY <1>6, FinishStep
<1>7. CASE Interrupt
  BY <1>7 DEF Interrupt, Exit, RunInv, Progress, Ended, MismatchIsShown
<1>8. CASE CheckFrozen
  BY <1>8, RunSame DEF CheckFrozen
<1>9. CASE Edit
  BY <1>9 DEF Edit, run, RunInv, Progress, Ended, MismatchIsShown
<1>10. QED
  BY <1>1, <1>2, <1>3, <1>4, <1>5, <1>6, <1>7, <1>8, <1>9 DEF Next

LEMMA Invariance == Spec => [](TypeOK /\ RunInv)
BY TypeInit, TypeStep, RunInit, RunStep, PTL DEF Spec

\* "fixtures: OK" is complete, for every list of cases and with every option:
\* the vectors match and each selected case reproduces its expected.json.
THEOREM GreenIsCompleteHolds == Spec => []GreenIsComplete
<1>1. RunInv => GreenIsComplete
  BY DEF RunInv, Ended, Passed, GreenIsComplete
<1>2. QED
  BY <1>1, Invariance, PTL

\* Exit code 20 has a vector or a selected case that differs, of which a trace
\* was written when traces were asked for, with --fail-fast too.
THEOREM MismatchIsShownHolds == Spec => []MismatchIsShown
<1>1. RunInv => MismatchIsShown
  BY DEF RunInv
<1>2. QED
  BY <1>1, Invariance, PTL

(***************************************************************************)
(* The gate and the frozen pins                                            *)
(***************************************************************************)

PinsSeen == frozen => Unchanged

LEMMA PinsStep == PinsSeen /\ [Next]_vars => PinsSeen'
<1> SUFFICES ASSUME PinsSeen, [Next]_vars PROVE PinsSeen'
  OBVIOUS
<1> USE DEF PinsSeen, Unchanged, repo
<1>1. CASE UNCHANGED vars
  BY <1>1 DEF vars
<1>2. ASSUME NEW a \in Args, Start(a) PROVE PinsSeen'
  BY <1>2 DEF Start
<1>3. CASE RunVectors
  BY <1>3 DEF RunVectors
<1>4. CASE SelectCases
  BY <1>4 DEF SelectCases
<1>5. ASSUME NEW c \in Case, RunCase(c) PROVE PinsSeen'
  BY <1>5 DEF RunCase
<1>6. CASE Finish \/ Interrupt
  BY <1>6 DEF Finish, Interrupt
<1>7. CASE CheckFrozen
  BY <1>7 DEF CheckFrozen
<1>8. CASE Edit
  BY <1>8 DEF Edit
<1>9. QED
  BY <1>1, <1>2, <1>3, <1>4, <1>5, <1>6, <1>7, <1>8 DEF Next

\* When check_frozen.py and the gate over all cases have passed on the same
\* files, the engine gives every pinned envelope, however it was edited and
\* whatever case was added or deleted: the gate alone does not notice a case
\* that is gone, and the pins alone do not run the engine.
THEOREM GatesFreezeEngineHolds == Spec => []GatesFreezeEngine
<1>1. Init => PinsSeen
  BY DEF Init, PinsSeen
<1>2. TypeOK /\ RunInv /\ PinsSeen => GatesFreezeEngine
  <2> SUFFICES ASSUME RunInv, PinsSeen, frozen, code = "OK", args.case = {},
                      NEW c \in Case, Pinned[c] # Absent
               PROVE  Verify(Pinned[c].docs) = Pinned[c].expected.verify
    BY DEF GatesFreezeEngine
  <2>1. dirs[c] = Pinned[c]
    BY DEF PinsSeen, Unchanged
  <2>2. Passed(c)
    BY <2>1 DEF RunInv, Ended, Selected, Present
  <2>3. Actual(c) = Verify(dirs[c].docs)
    BY <2>2 DEF Passed, Actual, Exception
  <2>4. dirs[c].expected.verify = Actual(c)
    BY <2>2 DEF Passed, Matches
  <2>5. QED
    BY <2>1, <2>3, <2>4
<1>3. QED
  BY <1>1, <1>2, PinsStep, Invariance, PTL DEF Spec

(***************************************************************************)
(* The gate on what is shipped                                             *)
(***************************************************************************)

\* What the frozen cases hold, as fixtures/ does: of three documents, what
\* verify_triplet answers about them.  It is a premise and no assumption of the
\* module: a case that expects something else may be pinned too, and then the
\* gate is red until the engine is edited.
PinsAgree ==
    \A c \in Case :
        Pinned[c] # Absent =>
            /\ Pinned[c].docs \in Docs
            /\ VerifyTriplet(Pinned[c].docs) \in Envelope
            /\ Pinned[c].expected = [inputs |-> Pinned[c].docs, schema |-> "ok",
                                     verify |-> VerifyTriplet(Pinned[c].docs)]

Raises(c) == Actual(c) \in Exception \/ dirs[c].expected = Broken

\* Exit code 40 has a vector or a selected case whose files raise something.
ErrorHasCause ==
    code = "INTERNAL_ERROR" =>
        \/ \E f \in VectorFile : vec[f] \in Exception
        \/ \E c \in Selected : Raises(c)

LEMMA CauseSame ==
    ErrorHasCause /\ UNCHANGED <<repo, args, code>> => ErrorHasCause'
BY DEF ErrorHasCause, Raises, Actual, Verify, VerifyTriplet, Selected, Present, repo

LEMMA CauseStep == TypeOK /\ RunInv /\ ErrorHasCause /\ [Next]_vars => ErrorHasCause'
<1> SUFFICES ASSUME TypeOK, RunInv, ErrorHasCause, [Next]_vars PROVE ErrorHasCause'
  OBVIOUS
<1>1. CASE UNCHANGED vars
  BY <1>1, CauseSame DEF vars, run
<1>2. ASSUME NEW a \in Args, Start(a) PROVE ErrorHasCause'
  BY <1>2 DEF Start, Exit, ErrorHasCause
<1>3. CASE RunVectors
  BY <1>3, CauseSame DEF RunVectors, Exit, ErrorHasCause, repo
<1>4. CASE SelectCases
  BY <1>4, CauseSame DEF SelectCases, Exit, ErrorHasCause
<1>5. ASSUME NEW c \in Case, RunCase(c) PROVE ErrorHasCause'
  <2>1. c \in Selected
    BY <1>5 DEF RunCase, IsNext, RunInv, Progress
  <2>2. Selected' = Selected /\ (Raises(c)' <=> Raises(c))
    BY <1>5 DEF RunCase, repo, Selected, Present, Raises, Actual, Verify, VerifyTriplet
  <2>3. CASE Raises(c)
    BY <2>1, <2>2, <2>3 DEF ErrorHasCause
  <2>4. CASE ~Raises(c)
    BY <1>5, <2>4, CauseSame DEF RunCase, Raises
  <2>5. QED
    BY <2>3, <2>4
<1>6. CASE Finish \/ Interrupt
  BY <1>6 DEF Finish, Interrupt, Exit, ErrorHasCause
<1>7. CASE CheckFrozen
  BY <1>7, CauseSame DEF CheckFrozen, run
<1>8. CASE Edit
  BY <1>8 DEF Edit, ErrorHasCause
<1>9. QED
  BY <1>1, <1>2, <1>3, <1>4, <1>5, <1>6, <1>7, <1>8 DEF Next

\* On the pinned files, with the shipped engine, a pinned case raises nothing
\* and reproduces what is expected of it.
LEMMA PinnedPasses ==
    ASSUME PinsAgree, Unchanged, engine = "shipped", NEW c \in Case, Pinned[c] # Absent
    PROVE  ~Raises(c) /\ Matches(c)
<1>1. dirs[c] = Pinned[c] /\ schema = "ok"
  BY DEF Unchanged
<1>2. dirs[c].docs \in Docs /\ dirs[c].docs # Broken
  BY <1>1, FixtureAssumption DEF PinsAgree
<1>3. schema \notin Exception
  BY <1>1, FixtureAssumption
<1>4. Actual(c) = VerifyTriplet(dirs[c].docs)
  BY <1>2, <1>3 DEF Actual, Verify
<1>5. Actual(c) \in Envelope /\ Actual(c) \notin Exception
  BY <1>1, <1>4, FixtureAssumption DEF PinsAgree
<1>6. dirs[c].expected = [inputs |-> dirs[c].docs, schema |-> "ok", verify |-> Actual(c)]
  BY <1>1, <1>4 DEF PinsAgree
<1>7. dirs[c].expected # Broken
  BY <1>2, <1>5, <1>6, FixtureAssumption DEF Expected
<1>8. QED
  BY <1>1, <1>5, <1>6, <1>7 DEF Raises, Matches

\* The gate never cries wolf: if what is pinned agrees with the engine as it is
\* shipped, a run that exits 20 or 40 on the pinned files with that engine was
\* given a case that is not pinned, whichever cases and options it was given.
THEOREM ShippedIsGreenHolds ==
    ASSUME PinsAgree
    PROVE  Spec => []ShippedIsGreen
<1>1. Init => ErrorHasCause
  BY DEF Init, ErrorHasCause
<1>2. TypeOK /\ RunInv /\ ErrorHasCause => ShippedIsGreen
  <2> SUFFICES ASSUME TypeOK, RunInv, ErrorHasCause,
                      code \in {"FIXTURE_MISMATCH", "INTERNAL_ERROR"},
                      Unchanged, engine = "shipped"
               PROVE  \E c \in Selected : Pinned[c] = Absent
    BY DEF ShippedIsGreen
  <2>1. \A f \in VectorFile : vec[f] = "match"
    BY DEF Unchanged, AllMatch
  <2>2. \A f \in VectorFile : vec[f] # "differs" /\ vec[f] \notin Exception
    BY <2>1, FixtureAssumption
  <2>3. PICK c \in Selected : Raises(c) \/ ~Matches(c)
    BY <2>2 DEF RunInv, MismatchIsShown, ErrorHasCause
  <2>4. c \in Case
    BY FixtureAssumption DEF TypeOK, Args, Selected, Present
  <2>5. QED
    BY <2>3, <2>4, PinnedPasses
<1>3. QED
  BY <1>1, <1>2, CauseStep, Invariance, PTL DEF Spec

\* Green and red, of the files and the engine: every vector matches, the
\* selected cases are there, each is read and run, and is as expected.
AllPass ==
    /\ vec = AllMatch
    /\ Selected \subseteq Present
    /\ \A c \in Selected : Matches(c) /\ ~Raises(c)

SelectedThere == pc = "cases" \/ code = "OK" => Selected \subseteq Present

LEMMA ThereStep == TypeOK /\ RunInv /\ SelectedThere /\ [Next]_vars => SelectedThere'
<1> SUFFICES ASSUME TypeOK, RunInv, SelectedThere, [Next]_vars PROVE SelectedThere'
  OBVIOUS
<1>1. ASSUME UNCHANGED <<repo, args>>, (pc' = "cases" \/ code' = "OK") => (pc = "cases" \/ code = "OK")
      PROVE  SelectedThere'
  BY <1>1 DEF SelectedThere, Selected, Present, repo
<1>2. CASE UNCHANGED vars
  BY <1>1, <1>2 DEF vars, run
<1>3. ASSUME NEW a \in Args, Start(a) PROVE SelectedThere'
  BY <1>3 DEF Start, Exit, SelectedThere
<1>4. CASE RunVectors
  BY <1>4, CodeType, <1>1 DEF RunVectors, RunInv, Exit, CodeOf, SelectedThere
<1>5. CASE SelectCases
  <2>1. UNCHANGED <<dirs, args>>
    BY <1>5 DEF SelectCases, repo
  <2>2. CASE args.case \subseteq Present
    BY <2>1, <2>2 DEF SelectedThere, Selected, Present
  <2>3. CASE ~(args.case \subseteq Present)
    BY <1>5, <2>3 DEF SelectCases, Exit, SelectedThere
  <2>4. QED
    BY <2>2, <2>3
<1>6. ASSUME NEW c \in Case, RunCase(c) PROVE SelectedThere'
  BY <1>6, <1>1 DEF RunCase, Raise, Compare, Exit
<1>7. CASE Finish
  BY <1>7, <1>1 DEF Finish
<1>8. CASE Interrupt
  BY <1>8 DEF Interrupt, Exit, SelectedThere
<1>9. CASE CheckFrozen
  BY <1>9, <1>1 DEF CheckFrozen, run
<1>10. CASE Edit
  BY <1>10 DEF Edit, run, SelectedThere
<1>11. QED
  BY <1>2, <1>3, <1>4, <1>5, <1>6, <1>7, <1>8, <1>9, <1>10 DEF Next

LEMMA PassedIsReadable ==
    ASSUME TypeOK, NEW c \in Case, dirs[c] # Absent, Passed(c)
    PROVE  ~Raises(c)
<1>1. dirs[c] \in Dirs /\ dirs[c].docs \in Docs \cup {Broken}
  BY FixtureAssumption DEF TypeOK, Dir
<1>2. Actual(c) \notin Exception
  BY DEF Passed
<1>3. dirs[c].docs \in Docs /\ Actual(c) = Verify(dirs[c].docs)
  BY <1>1, <1>2 DEF Actual, Exception
<1>4. schema \in {"ok", "other"}
  BY <1>2, <1>3 DEF Verify, TypeOK, Exception
<1>5. Actual(c) \in Envelope
  <2>1. CASE engine = "shipped"
    <3> PICK d \in Docs : d = dirs[c].docs
      BY <1>3
    <3>1. Actual(c) = VerifyTriplet(d)
      BY <1>2, <1>3, <2>1 DEF Verify
    <3>2. Invalid(d) \in SUBSET {"cap", "wss", "dss"}
      BY DEF Invalid
    <3>3. QED
      BY <1>2, <3>1, <3>2 DEF VerifyTriplet, Result, Envelope, Exception
  <2>2. CASE engine # "shipped"
    BY <1>2, <1>3, <2>2, FixtureAssumption DEF Verify, TypeOK
  <2>3. QED
    BY <2>1, <2>2
<1>6. dirs[c].expected \in Expected
  BY <1>3, <1>4, <1>5 DEF Passed, Matches, Expected
<1>7. QED
  BY <1>2, <1>6, FixtureAssumption DEF Raises

\* The verdict is one about the files and the engine, and not about the
\* options, the order of the cases or an earlier run: of the codes 0, 20 and
\* 40, the gate gives 0 if all passes and another one if not.
THEOREM VerdictIsOfTheFiles ==
    Spec => [](code \in {"OK", "FIXTURE_MISMATCH", "INTERNAL_ERROR"} => (code = "OK" <=> AllPass))
<1>1. Init => ErrorHasCause /\ SelectedThere
  BY DEF Init, ErrorHasCause, SelectedThere
<1>2. ASSUME TypeOK, RunInv, ErrorHasCause, SelectedThere
      PROVE  code \in {"OK", "FIXTURE_MISMATCH", "INTERNAL_ERROR"} => (code = "OK" <=> AllPass)
  <2>1. code = "OK" => AllPass
    <3> SUFFICES ASSUME code = "OK", NEW c \in Selected
                 PROVE  /\ vec = AllMatch /\ Selected \subseteq Present
                        /\ Matches(c) /\ ~Raises(c)
      BY <1>2 DEF RunInv, Ended, SelectedThere, AllPass
    <3>1. vec = AllMatch /\ Selected \subseteq Present /\ Passed(c)
      BY <1>2 DEF RunInv, Ended, SelectedThere
    <3>2. QED
      BY <1>2, <3>1, PassedIsReadable DEF Present, Passed
  <2>2. \A f \in VectorFile : AllMatch[f] # "differs" /\ AllMatch[f] \notin Exception
    BY FixtureAssumption DEF AllMatch
  <2>3. code \in {"FIXTURE_MISMATCH", "INTERNAL_ERROR"} => ~AllPass
    BY <1>2, <2>2 DEF RunInv, MismatchIsShown, ErrorHasCause, AllPass
  <2>4. QED
    BY <2>1, <2>3
<1>3. QED
  BY <1>1, <1>2, CauseStep, ThereStep, Invariance, PTL DEF Spec
==============================================================================
