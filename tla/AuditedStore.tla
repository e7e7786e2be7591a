---------------------------- MODULE AuditedStore ----------------------------
(***************************************************************************)
(* The store while it is both written and audited: the commands of         *)
(* LedgerStore, run by any number of processes, and one more process that  *)
(* runs `ledger verify-reachable`, the walk of VerifyReachable, which may  *)
(* begin at any moment.  Every file the audit reads is one the commands    *)
(* wrote: VerifyReachable's store is a view of LedgerStore's, and what its *)
(* environment may do is what the commands do.                             *)
(***************************************************************************)
EXTENDS StoreAudit, Sequences

CONSTANTS
    Root,             \* the id that the audit is asked about
    Listing,          \* Listing[m]: the parents in m in the order of its file
    Flags,            \* how the audit may be called
    Reproduces(_, _)  \* a record's transform writes the bytes of the node

\* The audit's own variables, those of VerifyReachable.  `at` is its pc.
VARIABLES opt, at, stack, seen, nid, doc, input, bad, failed, warned, before

audit == <<opt, at, stack, seen, nid, doc, input, bad, failed, warned, before>>

(***************************************************************************)
(* What the audit sees of the store                                        *)
(***************************************************************************)

\* A manifest holds the parents in the order in which they were given.
Entry(m) == [parents |-> Listing[m], transform |-> m.transform]
Entries == [n \in Artifact |-> IF Written(n) THEN Entry(man[n]) ELSE man[n]]

IntactBlobs == {d \in Digest : obj[d] = d}
OtherBlobs == {d \in Digest : obj[d] \notin {Absent, d}}
RetractedNodes == {n \in Artifact : retr[n] # Absent}

Lists == {Listing[m] : m \in Manifest}

\* Two processes may store the same bytes at the same time.
Races == \E p, q \in Proc : p # q

Calls == [deny : BOOLEAN, replay : BOOLEAN, busy : {TRUE}, race : {Races},
          ids : {Artifact}, lists : {Lists}, damaged : {Digest}]

Auditor == INSTANCE VerifyReachable WITH
    Node <- Artifact,
    Script <- Script \cup {RootTransform},
    ParentLists <- Lists,
    Retractable <- Artifact,
    Cases <- Calls,
    man <- Entries,
    intact <- IntactBlobs,
    corrupt <- OtherBlobs,
    retracted <- RetractedNodes,
    pc <- at

ASSUME AuditedAssumption ==
    /\ Root \in Artifact
    /\ Listing \in [Manifest -> Seq(Artifact)]
    /\ \A m \in Manifest : Auditor!Elems(Listing[m]) = m.parents
    /\ {Absent, Torn} \cap Auditor!Record = {}
    /\ Flags \subseteq [deny : BOOLEAN, replay : BOOLEAN]
    /\ \A n \in Artifact, m \in Auditor!Record :
          m.parents # <<>> => Reproduces(n, m) \in BOOLEAN

(***************************************************************************)
(* The system                                                              *)
(***************************************************************************)

\* Only opt says something before the audit begins.
AuditedInit ==
    /\ Init
    /\ opt \in {c \in Calls : [deny |-> c.deny, replay |-> c.replay] \in Flags}
    /\ at = "idle"
    /\ stack = <<>>
    /\ seen = {}
    /\ nid = Root
    /\ doc = Absent
    /\ input = <<>>
    /\ bad = FALSE
    /\ failed = FALSE
    /\ warned = {}
    /\ before = [ok |-> FALSE, retracted |-> {}]

\* verify_reachable is called, on the store as it is by now.
StartAudit ==
    /\ at = "idle"
    /\ at' = "pop"
    /\ stack' = <<Root>>
    /\ before' = [ok |-> Auditor!ReachOk, retracted |-> RetractedNodes]
    /\ UNCHANGED <<vars, opt, seen, nid, doc, input, bad, failed, warned>>

AuditedNext ==
    \/ Next /\ UNCHANGED audit
    \/ StartAudit
    \/ UNCHANGED vars /\ Auditor!Audit

AuditedSpec == AuditedInit /\ [][AuditedNext]_<<vars, audit>>

(***************************************************************************)
(* Properties                                                              *)
(***************************************************************************)

\* With at most two writers, every audit is a behaviour of VerifyReachable: it
\* starts in one of its initial states, and what the commands do to the store
\* meanwhile, killed or not, is nothing but what that module lets other
\* processes do.  (A third writer may empty a complete object.)
AuditRefines ==
    [][IF at = "idle" THEN at' = "idle" \/ Auditor!Init'
                      ELSE [Auditor!Next]_(Auditor!vars)]_<<vars, audit>>

\* A verdict of "OK" holds of the store at the moment it is reported, although
\* the commands of two writers wrote between any two files that the audit
\* read, and goes on to hold whatever these two write after it.
VerdictStands == at = "done" /\ ~failed => VerifyReachableOk(Root)

\* Half-written files of running commands are no cause for an error: if all
\* that is reachable verified at the start, only a retraction can be one.
AlarmHasCause ==
    at # "idle" /\ before.ok /\ failed =>
        opt.deny /\ Reach(Root) \cap RetractedNodes # {}

\* While --replay runs a transform, the files of the node that the walk has
\* checked one by one still verify together, if at most two processes write.
RunsOnVerifiedFiles == at = "replay" => VerifyNodeOk(nid)
=============================================================================
