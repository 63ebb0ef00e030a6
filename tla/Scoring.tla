------------------------------ MODULE Scoring ------------------------------
(***************************************************************************)
(* The verdict of one verification run: the soft checks distilled from a   *)
(* run (verifiers.py, _build_soft_checks), the score and the status bucket *)
(* (scoring.py, score_server) and the corrections _finalize applies to the *)
(* bucket before it writes a record.  Everything here is a pure function   *)
(* of the run, so the module has no variables.                             *)
(*                                                                         *)
(* Scores are counted in sixtieths of a point: a success rate over at most *)
(* five tools is then a whole number and the thresholds of the rounded     *)
(* score (round(x) >= 80, round(x) >= 40) become 79.5 and 39.5 points.     *)
(***************************************************************************)
EXTENDS Integers

CONSTANT MaxTools        \* tools exercised per run, MAX_TOOLS_INVOKED = 5

ASSUME MaxToolsAssumption == MaxTools \in 1..5

RemoteAttempts == 3      \* REMOTE_ATTEMPTS_PLANNED

Status ==
  {"pending", "malformed", "verified", "review", "rejected", "unverifiable",
   "retry_pending", "partial_verified", "oauth_pending_consent",
   "reauth_required", "scope_not_granted"}

-----------------------------------------------------------------------------
(* What a run can report.  A check is "absent" when its stage never ran.    *)

Kind  == {"success", "transport_fail", "auth_required", "protocol_fail", "malformed"}
Check == {"absent", "fail", "pass"}

\* tried: tools invoked; ok: answered with success; judged: got a semantic
\* verdict (every success and every error result, no timeout or exception);
\* valid: judged meaningful, which only a success can be.
Tally ==
  {t \in [tried : 0..MaxTools, ok : 0..MaxTools, judged : 0..MaxTools, valid : 0..MaxTools] :
     t.valid <= t.ok /\ t.ok <= t.judged /\ t.judged <= t.tried}

PartTally == {t \in Tally : t.tried < MaxTools}

NoTools == [tried |-> 0, ok |-> 0, judged |-> 0, valid |-> 0]

\* consent: the authorization server offers only the authorization_code grant.
Run == [kind : Kind, install : Check, handshake : Check, tools : Check,
        tally : Tally, probe : Check, flagged : BOOLEAN, consent : BOOLEAN]

\* A run that failed, and how far it came.
Failed(kind, install, handshake, tools, consent) ==
  [kind |-> kind, install |-> install, handshake |-> handshake, tools |-> tools,
   tally |-> NoTools, probe |-> "absent", flagged |-> FALSE, consent |-> consent]

\* A run that connected and listed tools; the tools check fails on an empty list.
Connected(tools, tally, probe, flagged) ==
  [kind |-> "success", install |-> "pass", handshake |-> "pass", tools |-> tools,
   tally |-> tally, probe |-> probe, flagged |-> flagged, consent |-> FALSE]

LocalFailures ==
  \* install command does not parse; sandbox or install raised
  {Failed(k, "absent", "absent", "absent", FALSE) : k \in {"malformed", "transport_fail"}}
  \cup {Failed("protocol_fail", "pass", "fail", "absent", FALSE)}
  \cup {Failed("auth_required", "pass", "fail", "absent", c) : c \in BOOLEAN}
  \* raised after the handshake: the install stage is overwritten by the failure
  \* and the tools of the run are lost, but handshake and connection still count
  \cup {Failed("transport_fail", "pass", "pass", "fail", FALSE)}

LocalConnections ==
  {Connected("fail", NoTools, "absent", FALSE)}
  \cup {Connected("pass", t, "pass", FALSE) : t \in Tally}
  \cup {Connected("pass", t, "fail", TRUE) : t \in Tally}
  \* the first tool has no name: it is neither invoked nor probed
  \cup {Connected("pass", t, "absent", FALSE) : t \in PartTally}

LocalRuns == LocalFailures \cup LocalConnections

RemoteRuns ==
  {Failed(k, "absent", "absent", "absent", FALSE) : k \in {"transport_fail", "protocol_fail"}}
  \cup {Failed("auth_required", "pass", "absent", "absent", c) : c \in BOOLEAN}
  \cup {Connected("fail", NoTools, "absent", FALSE)}
  \cup {Connected("pass", t, "pass", FALSE) : t \in Tally}
  \cup {Connected("pass", t, "fail", TRUE) : t \in Tally}
  \* a malformed-input probe that raises is flagged but leaves no verdict
  \cup {Connected("pass", t, "absent", TRUE) : t \in Tally}

-----------------------------------------------------------------------------
(* scoring.py *)

Unit == 60

Points(check, weight) == IF check = "pass" THEN Unit * weight ELSE 0

Rate(part, whole, weight) == IF whole = 0 THEN 0 ELSE (Unit * weight * part) \div whole

\* The clamp to 0..100 is left out: a run that is flagged has connected, so
\* the sum never leaves that range (ScoreRange in ScoringProofs).
Score(run) ==
    Points(run.install, 25) + Points(run.handshake, 15) + Points(run.tools, 15)
  + Rate(run.tally.ok, run.tally.tried, 25)
  + Rate(run.tally.valid, run.tally.judged, 15)
  + Points(run.probe, 5)
  - (IF run.flagged THEN Unit * 10 ELSE 0)

AtLeast60(run) == 2 * Score(run) >= 119 * Unit      \* faulty threshold

AtLeast80(run) == 2 * Score(run) >= 159 * Unit
AtLeast40(run) == 2 * Score(run) >= 79 * Unit

\* faulty: half of the attempts count as all of them
ConfidenceByHalf(completed, planned) ==
  IF planned <= 1 \/ 2 * completed >= planned THEN "high" ELSE "low"

Confidence(completed, planned) ==
  IF planned <= 1 \/ completed >= planned THEN "high"
  ELSE IF 2 * completed >= planned THEN "medium" ELSE "low"

\* _build_soft_checks: blocked by missing credentials, nothing invoked
AuthBlocked(run) == run.kind = "auth_required" /\ run.tally.tried = 0

Bucket(run, completed, planned) ==
  LET conf == Confidence(completed, planned) IN
  CASE AuthBlocked(run)                          -> "partial_verified"
    [] ~AuthBlocked(run) /\ AtLeast80(run)       ->
         IF conf = "high" THEN "verified" ELSE IF conf = "low" THEN "review" ELSE "retry_pending"
    [] ~AuthBlocked(run) /\ ~AtLeast80(run) /\ AtLeast40(run) -> "review"
    [] OTHER -> IF conf = "high" THEN "rejected" ELSE "retry_pending"

\* _finalize: what the bucket becomes for runs that are not quality judgments
Verdict(run, completed, planned) ==
  LET bucket == Bucket(run, completed, planned) IN
  CASE run.kind = "malformed"                                -> "malformed"
    [] run.kind = "transport_fail" /\ completed < planned    -> "retry_pending"
    [] run.kind = "auth_required" /\ bucket \notin {"verified", "review"} ->
         IF run.consent THEN "oauth_pending_consent" ELSE "partial_verified"
    [] OTHER -> bucket

Succeeded(run) == run.kind = "success" /\ run.tally.ok > 0

\* timeout_policy.py: attempts wait now / +1h / +6h; ages are counted in the
\* levels 0 (under an hour), 1 (under six hours) and 2.
RetryDelay(attempts) == IF attempts >= 2 THEN 2 ELSE attempts
=============================================================================
