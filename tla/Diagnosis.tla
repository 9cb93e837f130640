------------------------------ MODULE Diagnosis -------------------------------
(***************************************************************************)
(* Stage 4's calculator: which values of which structural dimension carry  *)
(* the failures of an episode, measured against what the same weekday and  *)
(* time of day saw in the weeks before.                                    *)
(*                                                                         *)
(* A segment is a pair of a dimension and a value, a profile the set of    *)
(* segments a payment belongs to: a field that is absent is in no segment. *)
(* Counts are records [ok, failed] of captures and failures.  Rates and    *)
(* contributions stay fractions, [num, den] with den positive, and are     *)
(* compared by multiplication.  Error evidence only adorns the audit       *)
(* payload and is left out.                                                *)
(***************************************************************************)
EXTENDS Integers, Sequences, FiniteSetsExt, SequencesExt

CONSTANTS
  Profiles,      \* sets of segments
  Alphabetical,  \* the segments of STRUCTURAL_DIMENSIONS, by dimension and value
  MinFailures,   \* MIN_FAILURES_FOR_RCA_EVALUATION
  MinVolume,     \* MIN_BASELINE_VOLUME, which is also Stage 2's volume threshold
  MinWindows     \* MIN_VALID_HISTORICAL_WINDOWS

Segments == ToSet(Alphabetical)

\* A payment has at most one value per field.
ASSUME DiagnosisAssumption ==
  /\ Alphabetical \in Seq(Segments)
  /\ IsFiniteSet(Profiles) /\ UNION Profiles \subseteq Segments
  /\ \A p \in Profiles : \A s, t \in p : s[1] = t[1] => s = t
  /\ MinFailures \in Nat \ {0} /\ MinVolume \in Nat \ {0} /\ MinWindows \in Nat \ {0}

\* The segment under which Stage 2 stores its global snapshots
GlobalSegment == <<"GLOBAL", "ALL">>

NoCounts  == [ok |-> 0, failed |-> 0]
Total(c)  == c.ok + c.failed
Add(a, b) == [ok |-> a.ok + b.ok, failed |-> a.failed + b.failed]

\* The sum of the counts of some profiles, or of some windows
CountsOf(tally, P) == FoldSet(LAMBDA p, c : Add(tally[p], c), NoCounts, P)
Everything(tally)  == CountsOf(tally, Profiles)
Within(tally, seg) == CountsOf(tally, {p \in Profiles : seg \in p})
Present(tally)     == {seg \in Segments : Total(Within(tally, seg)) > 0}

-----------------------------------------------------------------------------
(* Historical baselines.  history maps a segment to the snapshots of the   *)
(* weeks before: for each window of the present, a sequence of counts.     *)

\* Snapshots of too little volume are left out.
Valid(history, seg, windows) ==
  IF seg \notin DOMAIN history THEN {}
  ELSE {x \in UNION {{w} \X DOMAIN history[seg][w] : w \in windows} :
          Total(history[seg][x[1]][x[2]]) >= MinVolume}

Sufficient(history, seg, windows) == Cardinality(Valid(history, seg, windows)) >= MinWindows

Baseline(history, seg, windows) ==
  LET V == Valid(history, seg, windows) IN CountsOf([x \in V |-> history[seg][x[1]][x[2]]], V)

\* Failures beyond the volume-weighted rate of the baseline
Excess(counts, baseline) ==
  [num |-> counts.failed * Total(baseline) - Total(counts) * baseline.failed,
   den |-> Total(baseline)]

\* The denominator of all contributions.  Stage 2 stores no snapshot under the segment that
\* is looked up here (see GlobalSegment), so that it is always the failures of all.
TotalExcess(history, windows, tally) ==
  LET global == <<"GLOBAL", "GLOBAL">> IN
  IF Sufficient(history, global, windows)
  THEN Excess(Everything(tally), Baseline(history, global, windows))
  ELSE [num |-> Everything(tally).failed, den |-> 1]

-----------------------------------------------------------------------------
(* Candidates *)

Contribution(excess, total) == [num |-> excess.num * total.den, den |-> excess.den * total.num]
AtLeast(x, percent)         == 100 * x.num >= percent * x.den
Compare(x, y)               == x.num * y.den - y.num * x.den

StrengthOf(contribution, failed) ==
  LET strong == AtLeast(contribution, 70) /\ failed >= 3 * MinFailures IN
  CASE strong                                  -> "STRONG"
    [] ~strong /\ AtLeast(contribution, 40)    -> "MODERATE"
    [] ~strong /\ ~AtLeast(contribution, 40)   -> "WEAK"

\* The segments that qualify, with what qualifies them
Candidates(history, windows, tally) ==
  LET total == TotalExcess(history, windows, tally)
      excess(seg) == Excess(Within(tally, seg), Baseline(history, seg, windows))
      share(seg)  == Contribution(excess(seg), total)
  IN {[segment |-> seg, share |-> share(seg), failed |-> Within(tally, seg).failed,
       strength |-> StrengthOf(share(seg), Within(tally, seg).failed)] :
        seg \in {s \in Present(tally) :
          /\ Sufficient(history, s, windows)
          /\ excess(s).num > 0
          /\ Within(tally, s).failed >= MinFailures
          /\ AtLeast(share(s), 30)}}

\* rank_candidates: by contribution, failures and name
Position(seg) == CHOOSE i \in DOMAIN Alphabetical : Alphabetical[i] = seg

Before(a, b) ==
  LET c == Compare(a.share, b.share) IN
  \/ c > 0
  \/ c = 0 /\ a.failed > b.failed
  \/ c = 0 /\ a.failed = b.failed /\ Position(a.segment) < Position(b.segment)

\* The place of each is behind those before it.
Ranked(candidates) ==
  LET ahead(c) == {b \in candidates : Before(b, c)} IN
  [i \in 1 .. Cardinality(candidates) |->
     CHOOSE c \in candidates : Cardinality(ahead(c)) = i - 1]

-----------------------------------------------------------------------------

Unknown == [class |-> "UNKNOWN", candidates |-> <<>>]

TooFew(tally) == Everything(tally).failed < MinFailures

\* What evaluate_episode makes of an ACTIVE episode
Diagnose(history, windows, tally) ==
  LET ranked == Ranked(Candidates(history, windows, tally)) IN
  CASE TooFew(tally) \/ TotalExcess(history, windows, tally).num <= 0 -> Unknown
    [] OTHER -> [class |-> IF ranked = <<>> THEN "SYSTEMIC" ELSE "SEGMENT_SPECIFIC",
                 candidates |-> ranked]

\* The baselines that took part, if any was looked up
BaselinesUsed(history, windows, tally) ==
  IF TooFew(tally) THEN {}
  ELSE UNION {{<<seg, x, history[seg][x[1]][x[2]]>> : x \in Valid(history, seg, windows)} :
                seg \in Present(tally)}

\* Mutated form of Fingerprint: only failures count.
FingerprintOfFailures(history, windows, tally) ==
  [windows |-> windows, failed |-> Everything(tally).failed,
   baselines |-> BaselinesUsed(history, windows, tally)]

\* compute_input_fingerprint: the counts of the episode are not told apart by segment.
Fingerprint(history, windows, tally) ==
  [windows |-> windows, failed |-> Everything(tally).failed,
   total |-> Total(Everything(tally)), baselines |-> BaselinesUsed(history, windows, tally)]
==============================================================================
