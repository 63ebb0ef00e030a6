--------------------------- MODULE ScoringProofs ---------------------------
(***************************************************************************)
(* What the verdict of a run guarantees, for every number of tools the     *)
(* verifier may invoke (MaxTools) and every outcome of the run.            *)
(***************************************************************************)
EXTENDS Scoring, TLAPS

-----------------------------------------------------------------------------
(* The shape of a run.                                                      *)

\* A run has the fields of Run, and only one that connected has counted tools
\* or been flagged by the malformed-input probe.
WellFormed(run) ==
  /\ run \in Run
  /\ run.tally # NoTools =>
       run.kind = "success" /\ run.install = "pass" /\ run.handshake = "pass"
  /\ run.flagged => run.install = "pass" /\ run.handshake = "pass"

\* A tally counts at most five tools, and its parts never exceed their wholes.
LEMMA TallyBounds ==
  ASSUME NEW t \in Tally
  PROVE  /\ t.ok \in 0..5 /\ t.tried \in 0..5 /\ t.judged \in 0..5 /\ t.valid \in 0..5
         /\ t.valid <= t.ok /\ t.ok <= t.judged /\ t.judged <= t.tried
BY MaxToolsAssumption DEF Tally

\* A run that failed is well formed.
LEMMA FailedWellFormed ==
  ASSUME NEW k \in Kind, NEW i \in Check, NEW h \in Check, NEW c \in Check,
         NEW d \in BOOLEAN
  PROVE  WellFormed(Failed(k, i, h, c, d))
<1>1. NoTools \in Tally
  BY MaxToolsAssumption DEF NoTools, Tally
<1> QED
  BY <1>1 DEF WellFormed, Failed, Run, Check

\* So is a run that connected.
LEMMA ConnectedWellFormed ==
  ASSUME NEW c \in Check, NEW t \in Tally, NEW p \in Check, NEW f \in BOOLEAN
  PROVE  WellFormed(Connected(c, t, p, f))
BY DEF WellFormed, Connected, Run, Check, Kind

\* Every run the verifiers report is well formed.
LEMMA RunsWellFormed == \A run \in LocalRuns \cup RemoteRuns : WellFormed(run)
<1>1. NoTools \in Tally
  BY MaxToolsAssumption DEF NoTools, Tally
<1>2. {"absent", "fail", "pass"} \subseteq Check
  BY DEF Check
<1>3. \A k \in Kind, i, h, c \in Check, d \in BOOLEAN : WellFormed(Failed(k, i, h, c, d))
  BY FailedWellFormed
<1>4. \A t \in Tally, p \in Check, f \in BOOLEAN : WellFormed(Connected("pass", t, p, f))
  BY <1>2, ConnectedWellFormed
<1>5. WellFormed(Connected("fail", NoTools, "absent", FALSE))
  BY <1>1, <1>2, ConnectedWellFormed
<1>6. Kind = {"success", "transport_fail", "auth_required", "protocol_fail", "malformed"}
  BY DEF Kind
<1>7. ASSUME NEW run \in LocalRuns PROVE WellFormed(run)
  <2>1. PartTally \subseteq Tally
    BY DEF PartTally
  <2>2. \A r \in LocalFailures : WellFormed(r)
    BY <1>2, <1>3, <1>6, ZenonT(30) DEF LocalFailures
  <2>3. \A r \in LocalConnections : WellFormed(r)
    BY <1>2, <1>4, <1>5, <2>1 DEF LocalConnections
  <2> QED
    BY <2>2, <2>3 DEF LocalRuns
<1>8. ASSUME NEW run \in RemoteRuns PROVE WellFormed(run)
  BY <1>2, <1>3, <1>4, <1>5, <1>6, ZenonT(30) DEF RemoteRuns
<1> QED
  BY <1>7, <1>8

-----------------------------------------------------------------------------
(* The score.                                                               *)

\* A success rate earns at most the weight of its check.
LEMMA RateBounds ==
  \A part, whole \in 0..5 : part <= whole =>
    Rate(part, whole, 25) \in 0..1500 /\ Rate(part, whole, 15) \in 0..900
<1> TAKE part, whole \in 0..5
<1> HAVE part <= whole
<1>1. CASE whole = 0
  BY <1>1 DEF Rate
<1>2. CASE whole = 1
  BY <1>2 DEF Rate, Unit
<1>3. CASE whole = 2
  BY <1>3 DEF Rate, Unit
<1>4. CASE whole = 3
  BY <1>4 DEF Rate, Unit
<1>5. CASE whole = 4
  BY <1>5 DEF Rate, Unit
<1>6. CASE whole = 5
  BY <1>6 DEF Rate, Unit
<1> QED
  BY <1>1, <1>2, <1>3, <1>4, <1>5, <1>6, SMTT(30)

Upto15 == 0..900      \* what a check of weight 15 can earn
Upto25 == 0..1500     \* and one of weight 25

\* So do the two rates of a tally.
LEMMA TallyRates ==
  ASSUME NEW t \in Tally
  PROVE  Rate(t.ok, t.tried, 25) \in Upto25 /\ Rate(t.valid, t.judged, 15) \in Upto15
<1>1. ASSUME NEW x, NEW y, x \in 0..5, y \in 0..5, x <= y
      PROVE  Rate(x, y, 25) \in Upto25 /\ Rate(x, y, 15) \in Upto15
  BY <1>1, RateBounds DEF Upto25, Upto15
<1>2. /\ t.ok \in 0..5 /\ t.tried \in 0..5 /\ t.ok <= t.tried
      /\ t.valid \in 0..5 /\ t.judged \in 0..5 /\ t.valid <= t.judged
  BY TallyBounds
<1> QED
  BY <1>1, <1>2, SMTT(30)

\* Scores stay between 0 and 100 points, so the clamp of score_server
\* (scoring.py) never acts on a run the verifiers can report.
THEOREM ScoreRange == \A run \in LocalRuns \cup RemoteRuns : Score(run) \in 0..(100 * Unit)
<1> SUFFICES ASSUME NEW run \in LocalRuns \cup RemoteRuns
             PROVE  Score(run) \in 0..(100 * Unit)
  OBVIOUS
<1>1. WellFormed(run) /\ run.tally \in Tally
  BY RunsWellFormed DEF WellFormed, Run
<1> DEFINE served == Rate(run.tally.ok, run.tally.tried, 25)
           judged == Rate(run.tally.valid, run.tally.judged, 15)
           penalty == IF run.flagged THEN 600 ELSE 0
<1>2. served \in Upto25 /\ judged \in Upto15
  BY <1>1, TallyRates, Zenon
<1>3. /\ Points(run.install, 25) \in {0, 1500} /\ Points(run.handshake, 15) \in {0, 900}
      /\ Points(run.tools, 15) \in {0, 900}    /\ Points(run.probe, 5) \in {0, 300}
  BY DEF Points, Unit
<1>4. penalty \in {0, 600} /\ (penalty = 600 => Points(run.install, 25) = 1500)
  <2>1. CASE run.flagged
    BY <1>1, <2>1 DEF WellFormed, Points, Unit
  <2>2. CASE ~run.flagged
    BY <2>2
  <2> QED
    BY <2>1, <2>2
<1>5. Score(run) = Points(run.install, 25) + Points(run.handshake, 15) + Points(run.tools, 15)
                   + served + judged + Points(run.probe, 5) - penalty
  BY SMTT(30) DEF Score, Unit
<1> HIDE DEF served, judged, penalty
<1>6. Score(run) \in 0..6000
  <2> DEFINE i == Points(run.install, 25)
             h == Points(run.handshake, 15)
             l == Points(run.tools, 15)
             p == Points(run.probe, 5)
  <2>1. /\ i \in {0, 1500} /\ h \in {0, 900} /\ l \in {0, 900} /\ p \in {0, 300}
        /\ penalty = 600 => i = 1500
        /\ Score(run) = i + h + l + served + judged + p - penalty
    BY <1>3, <1>4, <1>5
  <2> HIDE DEF i, h, l, p
  <2> QED
    BY <2>1, <1>2, <1>4 DEF Upto25, Upto15
<1> QED
  BY <1>6 DEF Unit

-----------------------------------------------------------------------------
(* The verdict.                                                             *)

\* A run that saw no tool work scores at most 60 points, short of the 80 that
\* the bucket "verified" asks for.
LEMMA IdleRunScoresLow ==
  ASSUME NEW run \in Run, run.tally.ok = 0
  PROVE  ~AtLeast80(run)
<1>0. run.tally \in Tally
  BY DEF Run
<1>1. run.tally.valid = 0
  BY <1>0, TallyBounds
<1>2. run.tally.tried \in 0..5 /\ run.tally.judged \in 0..5
  BY <1>0, TallyBounds
<1>3. Rate(0, run.tally.tried, 25) = 0 /\ Rate(0, run.tally.judged, 15) = 0
  <2>1. \A n \in 1..5 : (0 \div n) = 0
    OBVIOUS
  <2> QED
    BY <1>2, <2>1 DEF Rate, Unit
<1>4. /\ Points(run.install, 25) \in {0, 1500} /\ Points(run.handshake, 15) \in {0, 900}
      /\ Points(run.tools, 15) \in {0, 900}    /\ Points(run.probe, 5) \in {0, 300}
  BY DEF Points, Unit
<1>5. run.flagged \in BOOLEAN
  BY DEF Run
<1> QED
  BY <1>1, <1>3, <1>4, <1>5 DEF AtLeast80, Score, Unit

\* Whatever the bucket is corrected to, "verified" comes from 80 points.
LEMMA VerifiedScoresHigh ==
  ASSUME NEW run \in Run, NEW completed, NEW planned,
         Verdict(run, completed, planned) = "verified"
  PROVE  AtLeast80(run)
BY DEF Verdict, Bucket

\* Rule 8 at its source: no run is called verified unless it connected and at
\* least one tool answered its invocation with success, whatever else went
\* well (install, handshake, tools/list, probe) and however few attempts.
THEOREM VerifiedNeedsSuccess ==
  \A run \in LocalRuns \cup RemoteRuns : \A completed, planned \in 1..RemoteAttempts :
    Verdict(run, completed, planned) = "verified" => Succeeded(run)
<1> SUFFICES ASSUME NEW run \in LocalRuns \cup RemoteRuns,
                    NEW completed \in 1..RemoteAttempts, NEW planned \in 1..RemoteAttempts,
                    Verdict(run, completed, planned) = "verified"
             PROVE  Succeeded(run)
  OBVIOUS
<1>1. WellFormed(run) /\ run \in Run /\ run.tally \in Tally
  BY RunsWellFormed DEF WellFormed, Run
<1>2. run.tally.ok # 0
  BY <1>1, VerifiedScoresHigh, IdleRunScoresLow
<1>3. run.kind = "success"
  BY <1>1, <1>2 DEF WellFormed, NoTools
<1> QED
  BY <1>1, <1>2, <1>3, TallyBounds DEF Succeeded

\* A verdict that settles a server is only given by the last planned attempt:
\* earlier ones leave it in review or in the retry queue.
THEOREM DecisiveNeedsAllAttempts ==
  ASSUME NEW run, NEW planned \in 1..RemoteAttempts, NEW completed \in 1..planned,
         Verdict(run, completed, planned) \in {"verified", "rejected"}
  PROVE  completed = planned
<1>1. Bucket(run, completed, planned) \in {"verified", "rejected"}
  BY DEF Verdict
<1>2. Confidence(completed, planned) = "high"
  BY <1>1 DEF Bucket
<1> QED
  BY <1>2 DEF Confidence, RemoteAttempts

\* Every verdict is a status the registry knows.
LEMMA VerdictIsStatus ==
  \A run, completed, planned : Verdict(run, completed, planned) \in Status
BY DEF Verdict, Bucket, Status
=============================================================================
