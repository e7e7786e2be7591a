----------------------------- MODULE FixtureGate -----------------------------
(***************************************************************************)
(* The Sprint-1 acceptance gate, nre-verify-fixtures (src/nre/verify/):    *)
(* canon vectors first, then every fixture case, whose three documents go  *)
(* through verify_triplet and whose envelope must equal expected.json.     *)
(*                                                                         *)
(* A developer edits the frozen surface and the engine, and runs the gate  *)
(* with any options and tools/check_frozen.py, as ci/run_checks.sh does,   *)
(* in any order.  Nothing is edited while one of them runs.                *)
(***************************************************************************)
EXTENDS Integers

CONSTANTS
    Case,         \* names of fixture cases, in their order
    Dirs,         \* what the directory of a case may hold
    CaseLists,    \* what --case is given; none: --all, which --case overrides
    VectorStates, \* how the files of vectors/ may compare with canon
    Engines,      \* the engine as shipped and as somebody edits it
    Edited(_, _), \* what an edited engine answers about the documents
    Pinned,       \* the case directories that FROZEN_SHA256SUMS lists
    Absent,       \* no such directory
    KeyError,     \* the exception of that name
    Broken,       \* any other one, and a file that raises it when it is read
    MaxEdits      \* bound on the number of edits

\* The three documents, by what verify_triplet asks of them: which are valid,
\* whether wss.hash is that of its payload ("none": the payload, with a NaN
\* for one, has no canonical bytes), whether dss owes a hash it has not.
Docs == [cap : BOOLEAN, wss : BOOLEAN, dss : BOOLEAN,
         hash : {"match", "differs", "none"}, due : BOOLEAN]

\* Its ok and errors follow from the exit code.
Envelope == [exit_code : {0, 10, 11, 12}, schema_errors : SUBSET {"cap", "wss", "dss"},
             computed : SUBSET {"hash", "expected_hash"}]

Exception == {KeyError, Broken}

\* Of expected.json, the inputs and the schema whose digests it names, and the
\* rest of the envelope. "other" is a schema with other bytes, pinned again,
\* that finds the same faults.
Expected == [inputs : Docs, schema : {"ok", "other"}, verify : Envelope]
Dir == [docs : Docs \cup {Broken}, expected : Expected \cup {Broken}]

\* The vector files, in the order in which they are read.
VectorFile == 1..3     \* strings.json, ids.json, fileref.json
VectorState == [VectorFile -> {"match", "differs"} \cup Exception]
AllMatch == [f \in VectorFile |-> "match"]

ASSUME FixtureAssumption ==
    /\ Case \subseteq Nat
    /\ Dirs \subseteq Dir /\ Absent \notin Dirs
    /\ CaseLists \subseteq SUBSET Case /\ {} \in CaseLists
    /\ VectorStates \subseteq VectorState /\ AllMatch \in VectorStates
    /\ "shipped" \in Engines
    /\ \A e \in Engines \ {"shipped"}, d \in Docs : Edited(e, d) \in Envelope \cup Exception
    /\ KeyError # Broken
    /\ \A e \in Exception : e \notin Envelope /\ e \notin {"match", "differs", "ok", "other"}
    /\ Broken \notin Docs /\ Broken \notin Expected
    /\ Pinned \in [Case -> Dirs \cup {Absent}]
    /\ MaxEdits \in Nat

VARIABLES
    dirs,     \* dirs[c]: fixtures/cases/<c>
    vec,      \* fixtures/vectors/, compared with what canon computes
    schema,   \* schemas/: "ok", "other", not what its pin says, lacking a $def
    engine,   \* member of Engines
    pc,       \* what the gate does next
    args,     \* its options
    todo,     \* cases still to run
    bad,      \* mismatches
    traced,   \* cases whose trace this run has written
    code,     \* exit code of the last run, if nothing was edited since
    frozen,   \* check_frozen.py has passed and nothing was edited since
    edits     \* edits so far

repo == <<dirs, vec, schema, engine>>
run == <<pc, args, todo, bad, traced>>
vars == <<repo, run, code, frozen, edits>>

Args == [case : CaseLists, trace_dir : BOOLEAN, fail_fast : BOOLEAN]

\* 0, 2, 20, 40 and 130
ProcessCode == {"OK", "USAGE", "FIXTURE_MISMATCH", "INTERNAL_ERROR", "INTERRUPTED"}

TypeOK ==
    /\ dirs \in [Case -> Dirs \cup {Absent}]
    /\ vec \in VectorStates
    /\ schema \in {"ok", "other", Broken, KeyError}
    /\ engine \in Engines
    /\ pc \in {"idle", "vectors", "select", "cases"}
    /\ args \in Args
    /\ todo \in SUBSET Case
    /\ bad \in SUBSET Case
    /\ traced \in SUBSET Case
    /\ code \in ProcessCode \cup {"none"}
    /\ frozen \in BOOLEAN
    /\ edits \in 0..MaxEdits

Init ==
    /\ dirs = Pinned
    /\ vec = AllMatch
    /\ schema = "ok"
    /\ engine = "shipped"
    /\ pc = "idle"
    /\ args = [case |-> {}, trace_dir |-> FALSE, fail_fast |-> FALSE]
    /\ todo = {} /\ bad = {} /\ traced = {}
    /\ code = "none"
    /\ frozen = FALSE
    /\ edits = 0

(***************************************************************************)
(* verify_triplet                                                          *)
(***************************************************************************)

Invalid(d) == {x \in {"cap", "wss", "dss"} : ~d[x]}

Result(exit, invalid, hashes) ==
    [exit_code |-> exit, schema_errors |-> invalid, computed |-> hashes]

\* Mutant: the hash is computed before the schema errors are looked at.
VerifyTriplet_HashFirst(d) ==
    CASE d.hash = "none"    -> Broken
      [] d.hash = "differs" -> Result(10, {}, {"hash", "expected_hash"})
      [] OTHER -> IF Invalid(d) # {} THEN Result(12, Invalid(d), {"hash"})
                  ELSE IF d.due THEN Result(11, {}, {"hash"})
                  ELSE Result(0, {}, {"hash"})

\* Schema first, then the two circuit breakers; each return ends it.
VerifyTriplet(d) ==
    IF Invalid(d) # {} THEN Result(12, Invalid(d), {})
    ELSE CASE d.hash = "none"    -> Broken
           [] d.hash = "differs" -> Result(10, {}, {"hash", "expected_hash"})
           [] OTHER -> IF d.due THEN Result(11, {}, {"hash"}) ELSE Result(0, {}, {"hash"})

\* verify_triplet loads and checks the schema first, every time.
Verify(d) ==
    IF schema \in Exception THEN schema
    ELSE IF engine = "shipped" THEN VerifyTriplet(d) ELSE Edited(engine, d)

(***************************************************************************)
(* run_fixtures                                                            *)
(***************************************************************************)

\* Mutant: main does not catch what it has no code for.
CodeOf_Uncaught(e) == IF e = KeyError THEN "USAGE" ELSE e

\* cli.main: a KeyError, wherever it comes from, is a usage error.
CodeOf(e) == IF e = KeyError THEN "USAGE" ELSE "INTERNAL_ERROR"

Exit(c) ==
    /\ code' = c
    /\ pc' = "idle"

\* Without --case and --all, or outside of a repository: usage.
Start(a) ==
    /\ pc = "idle"
    /\ args' = a
    /\ todo' = {} /\ bad' = {} /\ traced' = {}
    /\ \/ pc' = "vectors" /\ code' = "none"
       \/ Exit("USAGE")
    /\ UNCHANGED <<repo, frozen, edits>>

\* An exception ends the comparison, also of files that differ.
RunVectors ==
    /\ pc = "vectors"
    /\ \/ \E f \in VectorFile :
             /\ vec[f] \in Exception
             /\ \A g \in 1..(f - 1) : vec[g] \notin Exception
             /\ Exit(CodeOf(vec[f]))
       \/ /\ \A f \in VectorFile : vec[f] \notin Exception
          /\ \E f \in VectorFile : vec[f] = "differs"
          /\ Exit("FIXTURE_MISMATCH")
       \/ vec = AllMatch /\ pc' = "select" /\ UNCHANGED code
    /\ UNCHANGED <<repo, args, todo, bad, traced, frozen, edits>>

Present == {c \in Case : dirs[c] # Absent}

\* iter_case_dirs
SelectCases ==
    /\ pc = "select"
    /\ IF args.case \subseteq Present
       THEN /\ todo' = IF args.case = {} THEN Present ELSE args.case
            /\ pc' = "cases"
            /\ UNCHANGED code
       ELSE Exit("USAGE") /\ UNCHANGED todo
    /\ UNCHANGED <<repo, args, bad, traced, frozen, edits>>

\* What run_case computes for c: an envelope, or the exception it raises.
Actual(c) == IF dirs[c].docs = Broken THEN Broken ELSE Verify(dirs[c].docs)

\* Mutant: of the envelopes the exit codes are compared.
Matches_CodeOnly(c) ==
    /\ dirs[c].expected.inputs = dirs[c].docs
    /\ dirs[c].expected.schema = schema
    /\ dirs[c].expected.verify.exit_code = Actual(c).exit_code

Matches(c) ==
    dirs[c].expected = [inputs |-> dirs[c].docs, schema |-> schema, verify |-> Actual(c)]

IsNext(c) == c \in todo /\ \A x \in todo : c <= x

Raise(e) == Exit(CodeOf(e)) /\ UNCHANGED <<todo, bad, traced>>

\* Mutant: --fail-fast leaves the loop before the case is listed.
Compare_BreakFirst(c) ==
    /\ traced' = IF args.trace_dir THEN traced \cup {c} ELSE traced
    /\ bad' = IF Matches(c) \/ args.fail_fast THEN bad ELSE bad \cup {c}
    /\ todo' = IF args.fail_fast /\ ~Matches(c) THEN {} ELSE todo \ {c}

\* Mutant: the trace is written after the mismatch is dealt with.
Compare_TraceLast(c) ==
    /\ traced' = IF args.trace_dir /\ (Matches(c) \/ ~args.fail_fast)
                 THEN traced \cup {c} ELSE traced
    /\ bad' = IF Matches(c) THEN bad ELSE bad \cup {c}
    /\ todo' = IF args.fail_fast /\ ~Matches(c) THEN {} ELSE todo \ {c}

\* The trace is written first; --fail-fast leaves the loop at a mismatch.
Compare(c) ==
    /\ traced' = IF args.trace_dir THEN traced \cup {c} ELSE traced
    /\ bad' = IF Matches(c) THEN bad ELSE bad \cup {c}
    /\ todo' = IF args.fail_fast /\ ~Matches(c) THEN {} ELSE todo \ {c}

RunCase(c) ==
    /\ pc = "cases"
    /\ IsNext(c)
    /\ IF Actual(c) \in Exception THEN Raise(Actual(c))
       ELSE IF dirs[c].expected = Broken THEN Raise(Broken)
       ELSE Compare(c) /\ UNCHANGED <<pc, code>>
    /\ UNCHANGED <<repo, args, frozen, edits>>

Finish ==
    /\ pc = "cases"
    /\ todo = {}
    /\ Exit(IF bad = {} THEN "OK" ELSE "FIXTURE_MISMATCH")
    /\ UNCHANGED <<repo, args, todo, bad, traced, frozen, edits>>

\* KeyboardInterrupt
Interrupt ==
    /\ pc # "idle"
    /\ Exit("INTERRUPTED")
    /\ UNCHANGED <<repo, args, todo, bad, traced, frozen, edits>>

(***************************************************************************)
(* The other gate, and the developer                                       *)
(***************************************************************************)

\* The sums file lists the case files, the vectors and the schema.
Unchanged ==
    /\ \A c \in Case : Pinned[c] # Absent => dirs[c] = Pinned[c]
    /\ vec = AllMatch
    /\ schema = "ok"

CheckFrozen ==
    /\ pc = "idle"
    /\ frozen' = Unchanged
    /\ UNCHANGED <<repo, run, code, edits>>

Edit ==
    /\ pc = "idle"
    /\ edits < MaxEdits
    /\ edits' = edits + 1
    /\ \/ \E c \in Case, d \in Dirs \cup {Absent} :
             dirs' = [dirs EXCEPT ![c] = d] /\ UNCHANGED <<vec, schema, engine>>
       \/ vec' \in VectorStates /\ UNCHANGED <<dirs, schema, engine>>
       \/ schema' \in {"ok", "other", Broken, KeyError} /\ UNCHANGED <<dirs, vec, engine>>
       \/ engine' \in Engines /\ UNCHANGED <<dirs, vec, schema>>
    /\ code' = "none"
    /\ frozen' = FALSE
    /\ UNCHANGED run

Next ==
    \/ \E a \in Args : Start(a)
    \/ RunVectors \/ SelectCases
    \/ \E c \in Case : RunCase(c)
    \/ Finish \/ Interrupt
    \/ CheckFrozen \/ Edit

Spec == Init /\ [][Next]_vars

(***************************************************************************)
(* Properties                                                              *)
(***************************************************************************)

Selected == IF args.case = {} THEN Present ELSE args.case

\* "OK" is complete: all vectors match and every selected case reproduces its
\* expected.json, with --fail-fast too.
GreenIsComplete ==
    code = "OK" => vec = AllMatch /\ \A c \in Selected : Matches(c)

\* A mismatch is one, and shows: with --trace-dir there is a trace of a case
\* that differs, unless a vector does.
MismatchIsShown ==
    code = "FIXTURE_MISMATCH" =>
        \/ \E f \in VectorFile : vec[f] = "differs"
        \/ \E c \in Selected : ~Matches(c) /\ (args.trace_dir => c \in traced)

\* Every run on the shipped files with the shipped engine, of all cases or of
\* pinned ones, passes: what the cases expect is what the engine does.
ShippedIsGreen ==
    /\ code \in {"FIXTURE_MISMATCH", "INTERNAL_ERROR"}
    /\ Unchanged /\ engine = "shipped"
    => \E c \in Selected : Pinned[c] = Absent

\* The two gates together freeze the engine on the pinned cases: when both
\* have passed, whatever was edited before, it still gives every envelope that
\* is pinned, and no pinned case was left out because its files are gone.
GatesFreezeEngine ==
    frozen /\ code = "OK" /\ args.case = {} =>
        \A c \in Case :
            Pinned[c] # Absent =>
                Verify(Pinned[c].docs) = Pinned[c].expected.verify
=============================================================================
