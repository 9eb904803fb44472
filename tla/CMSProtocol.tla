---------------------------- MODULE CMSProtocol -----------------------------
(***************************************************************************)
(* The stop-reason protocol that ksba_cms_parse and ksba_cms_build promise *)
(* their caller (spec section 4), with no container data at all.           *)
(*                                                                         *)
(*   phase   the stop reason the last call left                            *)
(*   mode    which direction the container runs: "none" before a handler   *)
(*           is installed, then "parse" or "build"                         *)
(*   result  whether the last call succeeded ("ok") or failed ("err")      *)
(*                                                                         *)
(* A container starts at NONE.  The first driver call that succeeds moves  *)
(* it to GOT_CONTENT and fixes the direction; from then on a successful    *)
(* call moves the phase along the graph of that direction or leaves it,    *)
(* and a failed call leaves it or parks it at RUNNING.                     *)
(***************************************************************************)

Phases == {"NONE", "RUNNING", "GOT_CONTENT", "NEED_HASH", "BEGIN_DATA",
           "END_DATA", "NEED_SIG", "READY"}
Modes == {"none", "parse", "build"}
Results == {"ok", "err"}

\* The steps a successful handler call may take, per direction.
ParseEdges == {<<"GOT_CONTENT", "NEED_HASH">>, <<"GOT_CONTENT", "BEGIN_DATA">>,
               <<"BEGIN_DATA", "END_DATA">>, <<"NEED_HASH", "READY">>,
               <<"END_DATA", "READY">>}
BuildEdges == {<<"GOT_CONTENT", "BEGIN_DATA">>, <<"GOT_CONTENT", "END_DATA">>,
               <<"BEGIN_DATA", "NEED_SIG">>, <<"END_DATA", "NEED_SIG">>,
               <<"NEED_SIG", "READY">>}
Edges(m) == IF m = "parse" THEN ParseEdges ELSE BuildEdges

VARIABLES phase, mode, result

pvars == <<phase, mode, result>>

PTypeOK ==
  /\ phase \in Phases
  /\ mode \in Modes
  /\ result \in Results

PInit == phase = "NONE" /\ mode = "none" /\ result = "ok"

\* A call that leaves the phase where it is, successful or not.  Before the
\* start the caller may still choose the direction; after it, it is fixed.
Idle ==
  /\ phase' = phase
  /\ phase # "NONE" => mode' = mode
  /\ result' \in Results

\* The first successful driver call.
Start ==
  /\ phase = "NONE"
  /\ phase' = "GOT_CONTENT"
  /\ mode' \in {"parse", "build"}
  /\ result' = "ok"

\* A successful handler call moves one edge of its direction's graph.
Advance ==
  /\ phase # "NONE"
  /\ <<phase, phase'>> \in Edges(mode)
  /\ mode' = mode
  /\ result' = "ok"

\* A failed handler call parks the container at RUNNING.
Abort ==
  /\ phase # "NONE"
  /\ phase' = "RUNNING"
  /\ mode' = mode
  /\ result' = "err"

PNext == Idle \/ Start \/ Advance \/ Abort

PSpec == PInit /\ [][PNext]_pvars
=============================================================================
