----------------------------- MODULE Algorithms -----------------------------
(***************************************************************************)
(* The sequential algorithms of the enclave, each on all inputs of a small *)
(* set.  A behaviour is about one of them: a pure one is evaluated in one  *)
(* step, on the coarse part of its input that the initial state holds, and *)
(* the property ranges over the rest; the fixed set, which has a state,    *)
(* takes steps.                                                            *)
(***************************************************************************)
EXTENDS PbMessages, Batching, FixedSet, NoiseMessages, MergeE164s, OramSizes

vars == <<job, set, khash, replaced, members, placed>>

Jobs ==
    DivisionJobs \cup BatchJobs \cup NoiseJobs \cup MergeJobs
    \cup [what : {"message"}, kind : MessageKinds]
    \cup [what : {"sizes"}, build : Builds]

(* The set is the initial one where the behaviour is about something else. *)
Init ==
    \/ job = [what |-> "set"] /\ FInit
    \/ job \in Jobs /\ FInit /\ khash = [k \in Keys |-> Min(Hashes)]

done == [what |-> "done"]

Evaluate ==
    /\ job.what \notin {"set", "done"}
    /\ job' = done
    /\ UNCHANGED <<set, khash, replaced, members, placed>>

Next ==
    \/ Evaluate
    \/ job.what = "set" /\ FNext /\ UNCHANGED job

Spec == Init /\ [][Next]_vars

-----------------------------------------------------------------------------
(* pbtools: encoding fits its buffer or fails, and decoding inverts it, for *)
(* every scalar type, packed and nested fields (MessageOK in PbMessages); a *)
(* request that is cut short is an error (CutDetected); and both passes     *)
(* over repeated fields agree when their parts are spread (PartsMerge).     *)
MessagesRoundTrip ==
    [][Evaluate /\ is("message") =>
        /\ MessageOK(job.kind)
        /\ job.kind = "request" => \A m \in Requests : CutDetected(m)
        /\ job.kind \in DOMAIN Types =>
              \A m, n \in {v \in Numbers(Types[job.kind]) : Len(v.many) < MAX_ITEMS} :
                  PartsMerge(Types[job.kind], m, n)]_vars

(* pbutil.h: see WorkspaceSuffices in PbMessages. *)
WorkspaceEnough ==
    [][Evaluate /\ is("message") /\ job.kind = "request" =>
        \A m, n \in Requests : WorkspaceSuffices(m, n)]_vars

(* The sizes of the ORAMs of a build: see Agree in OramSizes. *)
SizesAgree == is("sizes") => Agree(job.build)
=============================================================================
