---------------------------- MODULE AccessClimb ----------------------------
(***************************************************************************)
(* The access-rate thread with a choice of two searches.  Beside the one   *)
(* over all splits (AccessRate) the source has get_best_access_rates,      *)
(* which climbs from the split in use: it tries three greater local        *)
(* shares, if none is better ever smaller ones, and again until a round    *)
(* brings nothing.  If no round did, it goes up in great steps.  The       *)
(* thread calls the one or the other; the call of this one is commented    *)
(* out at this commit.                                                     *)
(*                                                                         *)
(* Performances are compared as floats: both sides are rounded to 24 bits, *)
(* since performance__delta_threshold, which is 0, is a float.             *)
(***************************************************************************)
EXTENDS AccessRate, Sequences

CONSTANTS
    FineSteps,      \* percentage_to_index of 0.01, 0.02 and 0.03 percent
    CoarseStep,     \* percentage_to_index of 1 percent
    Precision       \* 2 to the number of bits of a float's significand

\* A step of zero keys, which less than 10000 keys bring about, never ends.
ASSUME StepsAreSane ==
    /\ FineSteps \in [1 .. 3 -> Nat \ {0}] /\ CoarseStep \in Nat
    /\ FineSteps[1] <= FineSteps[2] /\ FineSteps[2] <= FineSteps[3]
    /\ FineSteps[3] <= CoarseStep
    /\ Precision \in Nat \ {0}
    /\ CacheSize \div 3 < NumKeys   \* the cache is smaller than the database

VARIABLE
    climb   \* [at, turn, local, increased, decreased, improved, told]: where it
            \* is, i and new_local, improved_increasing, _decreasing, improved,
            \* and whether the settings are the climb's

climbVars == <<vars, climb>>

NotClimbing == [at |-> "off", turn |-> 0, local |-> 0,
                increased |-> FALSE, decreased |-> FALSE, improved |-> FALSE, told |-> FALSE]

ClimbInit == Init /\ climb = NotClimbing

Climbing == climb.at # "off"

-----------------------------------------------------------------------------
(* Comparing performances                                                  *)

Powers == {2 ^ i : i \in 0 .. 16}

\* The spacing of floats near p.
Spacing(p) == CHOOSE u \in Powers : p < Precision * u /\ (u = 1 \/ 2 * p >= Precision * u)

\* p as a float: the nearest one, of two the even one.
Single(p) ==
    LET u == Spacing(p)
        up == \/ 2 * (p % u) > u
              \/ 2 * (p % u) = u /\ (p \div u) % 2 = 1
    IN ((p \div u) + (IF up THEN 1 ELSE 0)) * u

Better(p) == Single(p) > Single(best.perf)
Worse(p) == Single(p) < Single(best.perf)

Take(local, p) == best' = [perf |-> p, local |-> local, remote |-> CacheSize - 3 * local]

-----------------------------------------------------------------------------
(* get_best_access_rates                                                   *)

InUse == IF settings = None THEN 0 ELSE settings.local

\* A new turn of the do loop, and what follows the last.
NewRound(c) == [c EXCEPT !.at = "up", !.turn = 1, !.increased = FALSE, !.decreased = FALSE]

\* Mutant: one round is all.
AfterRoundOnce(c) == [c EXCEPT !.at = IF c.improved THEN "tell" ELSE "far", !.local = best.local + CoarseStep]

AfterRound(c) ==
    IF c.increased \/ c.decreased THEN NewRound(c)
    ELSE [c EXCEPT !.at = IF c.improved THEN "tell" ELSE "far", !.local = best.local + CoarseStep]

\* The thread wakes up and ranks the keys, as in Collect.
StartClimb(ranking, latencies) ==
    /\ Idle
    /\ cdf' = ranking /\ ns' = latencies
    /\ at' = 0
    /\ climb' = [NotClimbing EXCEPT !.at = "start", !.told = climb.told]
    /\ UNCHANGED <<best, settings>>

\* The performance of the water marks in use, with the new frequencies.  Before
\* any were set, nothing is kept locally.
Measure ==
    /\ climb.at = "start"
    /\ best' = [perf |-> Performance(InUse, CacheSize - 3 * InUse),
                local |-> InUse, remote |-> CacheSize - 3 * InUse]
    /\ climb' = NewRound(climb)
    /\ UNCHANGED <<cdf, ns, at, settings>>

Fits(local) == 3 * local <= CacheSize

Higher == best.local + FineSteps[climb.turn]
Lower == climb.local - FineSteps[1]
Farther == climb.local + CoarseStep

\* The for loop over three greater local shares, each seen from the best so far.
Up ==
    /\ climb.at = "up" /\ climb.turn <= 3 /\ Fits(Higher)
    /\ LET p == Performance(Higher, CacheSize - 3 * Higher)
       IN /\ IF Better(p) THEN Take(Higher, p) ELSE UNCHANGED best
          /\ climb' = [climb EXCEPT !.turn = @ + 1, !.increased = @ \/ Better(p),
                                    !.improved = @ \/ Better(p)]
    /\ UNCHANGED <<cdf, ns, at, settings>>

UpEnds ==
    /\ climb.at = "up"
    /\ IF climb.turn > 3 THEN TRUE ELSE ~Fits(Higher)
    /\ climb' = IF climb.increased THEN AfterRound(climb)
                ELSE [climb EXCEPT !.at = "down", !.local = best.local]
    /\ UNCHANGED vars

\* The while loop over ever smaller local shares, until one does worse.
Down ==
    /\ climb.at = "down" /\ Lower > 0
    /\ LET p == Performance(Lower, CacheSize - 3 * Lower)
           seen == [climb EXCEPT !.local = Lower, !.decreased = @ \/ Better(p),
                                 !.improved = @ \/ Better(p)]
       IN /\ IF Better(p) THEN Take(Lower, p) ELSE UNCHANGED best
          /\ climb' = IF Worse(p) THEN AfterRound(seen) ELSE seen
    /\ UNCHANGED <<cdf, ns, at, settings>>

DownEnds ==
    /\ climb.at = "down" /\ Lower <= 0
    /\ climb' = AfterRound(climb)
    /\ UNCHANGED vars

\* Mutant: the way up ends only with a share that does worse.
FarTooFar ==
    /\ climb.at = "far" /\ InUse > 0
    /\ LET p == Performance(Farther, RemoteShare(Farther))
       IN /\ IF Better(p) THEN Take(Farther, p) ELSE UNCHANGED best
          /\ climb' = [climb EXCEPT !.local = Farther, !.at = IF Worse(p) THEN "tell" ELSE @]
    /\ UNCHANGED <<cdf, ns, at, settings>>

\* No round improved anything: great steps up, unless nothing is kept locally.
\* The great steps down that follow wait for a flag that is never set.
Far ==
    /\ climb.at = "far" /\ InUse > 0 /\ Fits(Farther)
    /\ LET p == Performance(Farther, CacheSize - 3 * Farther)
       IN /\ IF Better(p) THEN Take(Farther, p) ELSE UNCHANGED best
          /\ climb' = [climb EXCEPT !.local = Farther, !.at = IF Worse(p) THEN "tell" ELSE @]
    /\ UNCHANGED <<cdf, ns, at, settings>>

FarEnds ==
    /\ climb.at = "far" /\ (InUse = 0 \/ ~Fits(Farther))
    /\ climb' = [climb EXCEPT !.at = "tell"]
    /\ UNCHANGED vars

TellClimbed ==
    /\ climb.at = "tell" /\ Tell
    /\ climb' = [NotClimbing EXCEPT !.told = TRUE]

ClimbStep == Measure \/ Up \/ UpEnds \/ Down \/ DownEnds \/ Far \/ FarEnds \/ TellClimbed

Search ==
    /\ ~Climbing
    /\ \/ \E ranking \in Rankings, latencies \in Latencies : Collect(ranking, latencies) /\ UNCHANGED climb
       \/ Try /\ UNCHANGED climb
       \/ Publish /\ climb' = NotClimbing

ClimbNext ==
    \/ Search
    \/ \E ranking \in Rankings, latencies \in Latencies : StartClimb(ranking, latencies)
    \/ ClimbStep

ClimbSpec == ClimbInit /\ [][ClimbNext]_climbVars

-----------------------------------------------------------------------------
\* The climb's place, local mark and outcome have their types, as has the search.
ClimbOK ==
    /\ TypeOK
    /\ climb.at \in {"off", "start", "up", "down", "far", "tell"}
    /\ climb.turn \in 0 .. 4 /\ climb.local \in 0 .. CacheSize \div 3 + CoarseStep
    /\ {climb.increased, climb.decreased, climb.improved, climb.told} \subseteq BOOLEAN

\* What the search over all splits told the policy is as good as any other.
SearchedIsBest == ~climb.told => ChosenIsBest

\* Where a climb stops by itself, none of the three greater shares is better,
\* nor the next smaller one, as far as floats tell.
StopsAtPeak == climb.at = "tell" /\ climb.improved =>
    \A local \in {best.local + FineSteps[i] : i \in 1 .. 3} \union {best.local - FineSteps[1]} :
        local > 0 /\ Fits(local) => ~Better(Performance(local, CacheSize - 3 * local))

=============================================================================
