----------------------------- MODULE MCFixtureGate -----------------------------
(***************************************************************************)
(* Of five cases four are pinned, one for each exit code, as in fixtures/. *)
(***************************************************************************)
EXTENDS FixtureGate

Good == [cap |-> TRUE, wss |-> TRUE, dss |-> TRUE, hash |-> "match", due |-> FALSE]
Owing == [Good EXCEPT !.due = TRUE]
NoKind == [Good EXCEPT !.cap = FALSE]
Mislabelled == [Good EXCEPT !.hash = "differs"]
NotANumber == [Good EXCEPT !.hash = "none"]

Expecting(docs, envelope) ==
    [docs |-> docs, expected |-> [inputs |-> docs, schema |-> "ok", verify |-> envelope]]

\* dss_requires_non_null_hash, ok_minimal, schema_error_cap_missing_kind,
\* wss_hash_integrity_failed, and a name that is new.
MCPinned ==
    [c \in Case |->
        CASE c = 1 -> Expecting(Owing, Result(11, {}, {"hash"}))
          [] c = 2 -> Expecting(Good, Result(0, {}, {"hash"}))
          [] c = 3 -> Expecting(NoKind, Result(12, {"cap"}, {}))
          [] c = 4 -> Expecting(Mislabelled, Result(10, {}, {"hash", "expected_hash"}))
          [] OTHER -> Absent]

\* Besides what is pinned: a case with an envelope that is wrong in a detail, one without canonical bytes, one that cannot be read.
MCDirs ==
    ({MCPinned[c] : c \in Case} \ {Absent}) \cup
    {Expecting(NoKind, Result(12, {"cap"}, {"hash"})),
     Expecting(NotANumber, Result(0, {}, {"hash"})),
     [MCPinned[2] EXCEPT !.expected.schema = "other"],
     [docs |-> Good, expected |-> Broken], [docs |-> Broken, expected |-> Broken]}

\* One engine looks at the dss first, one says more about a schema error.
MCEdited(e, d) ==
    CASE e = "dss first" /\ Invalid(d) = {} /\ d.due -> Result(11, {}, {"hash"})
      [] e = "hash too" /\ Invalid(d) # {} -> Result(12, Invalid(d), {"hash"})
      [] OTHER -> VerifyTriplet(d)

MCVectors ==
    {AllMatch, [AllMatch EXCEPT ![2] = "differs"], [AllMatch EXCEPT ![3] = KeyError],
     [AllMatch EXCEPT ![1] = "differs", ![2] = Broken, ![3] = KeyError]}
=============================================================================
