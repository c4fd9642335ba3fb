----------------------------- MODULE RiskEngine -----------------------------
(***************************************************************************)
(* How a device's report is judged (risk.Evaluate): a function of the      *)
(* platform, the results the client sent and the baselines an              *)
(* administrator has set.  PostureGate has what comes of the verdict; it   *)
(* knows "block" and, for every other disposal, "allow".                   *)
(***************************************************************************)
EXTENDS PostureGate, Sequences

CONSTANTS
    Key,        \* what clients can check
    Platform,   \* the device's platform
    Baselines,  \* the baselines that may be set
    MaxResults  \* bound on the number of results in a report

Disposal == {"allow", "degrade", "gray", "block"}
Severity == {"high", "medium", "low"}
Check == [key : Key, platform : {"Windows", "macOS", "Linux", "All"}, severity : Severity]

\* What handleSaveBaseline accepts; no platforms at all means every platform.
Valid(b) ==
    /\ b.status \in {"enabled", "disabled"}
    /\ b.disposal \in Disposal
    /\ b.checks \subseteq Check
    /\ IsFiniteSet(b.checks) /\ Cardinality(b.checks) <= 64

\* The platforms handlePostureReport takes from a client.
ASSUME RiskAssumption ==
    /\ Platform \in {"Windows", "macOS", "Linux"}
    /\ \A b \in Baselines : Valid(b)
    /\ MaxResults \in Nat

\* What a client may send: results in some order, a key more than once perhaps.
Results == UNION {[1 .. n -> [key : Key, ok : BOOLEAN]] : n \in 0 .. MaxResults}

-----------------------------------------------------------------------------

\* What failed checks cost, each by its severity.
Score(failed) ==
    LET Of(severity) == Cardinality({c \in failed : c.severity = severity}) IN
    25 * Of("high") + 10 * Of("medium") + 5 * Of("low")

DisposalRank(d) ==
    CASE d = "block" -> 3 [] d = "gray" -> 2 [] d = "degrade" -> 1 [] OTHER -> 0

\* Slip: a key without a result is not held against the device.
PassedUnlessFailed(results) ==
    Key \ {results[i].key : i \in {j \in DOMAIN results : ~results[j].ok}}

\* The last result for a key counts; a key without one has failed.
Passed(results) ==
    {k \in Key : \E i \in DOMAIN results :
                    /\ results[i] = [key |-> k, ok |-> TRUE]
                    /\ \A j \in i + 1 .. Len(results) : results[j].key # k}

Applies(b) == b.status = "enabled" /\ (b.platforms = {} \/ Platform \in b.platforms)

Failed(b, passed) == {c \in b.checks : c.platform \in {"All", Platform} /\ c.key \notin passed}

\* One turn of the loop over the baselines.
Add(v, b, passed) ==
    LET failed == IF Applies(b) THEN Failed(b, passed) ELSE {} IN
    [score |-> v.score + Score(failed),
     disposal |-> IF failed # {} /\ DisposalRank(b.disposal) > DisposalRank(v.disposal)
                  THEN b.disposal ELSE v.disposal]

Level(disposal, score) ==
    IF disposal = "block" \/ score >= 60 THEN "high"
    ELSE IF score >= 30 THEN "medium" ELSE "low"

\* What the first n baselines come to.
Sums(baselines, passed) ==
    LET sum[n \in 0 .. Len(baselines)] ==
            IF n = 0 THEN [score |-> 0, disposal |-> "allow"]
                     ELSE Add(sum[n - 1], baselines[n], passed)
    IN  sum

Evaluate(results, baselines) ==
    LET sum == Sums(baselines, Passed(results))[Len(baselines)]
        score == IF sum.score > 100 THEN 100 ELSE sum.score
    IN  [score |-> score, disposal |-> sum.disposal, level |-> Level(sum.disposal, score)]

-----------------------------------------------------------------------------

LevelRank(l) == CASE l = "high" -> 2 [] l = "medium" -> 1 [] OTHER -> 0

AtLeast(v, w) ==
    /\ v.score >= w.score
    /\ DisposalRank(v.disposal) >= DisposalRank(w.disposal)
    /\ LevelRank(v.level) >= LevelRank(w.level)

\* The checks the results call in order and never failed.
Good(results) ==
    {k \in Key : /\ [key |-> k, ok |-> TRUE] \in {results[i] : i \in DOMAIN results}
                 /\ [key |-> k, ok |-> FALSE] \notin {results[i] : i \in DOMAIN results}}

Contradicts(results) ==
    \E k \in Key : {[key |-> k, ok |-> TRUE], [key |-> k, ok |-> FALSE]}
                        \subseteq {results[i] : i \in DOMAIN results}

\* Of two reports that do not contradict themselves the one with fewer checks in
\* order gets no better score, disposal or level, nor does a report that one more
\* baseline applies to; and the order of the baselines does not matter.
Strict ==
    \A r \in Results, a, b \in Baselines :
        LET v == Evaluate(r, <<a, b>>) IN
        /\ v = Evaluate(r, <<b, a>>)
        /\ AtLeast(v, Evaluate(r, <<a>>))
        /\ ~Contradicts(r) =>
            \A s \in Results : ~Contradicts(s) /\ Good(s) \subseteq Good(r)
                                    => AtLeast(Evaluate(s, <<a, b>>), v)

\* What the gate reads of a verdict.
Outcome ==
    {IF Evaluate(r, <<b>>).disposal = "block" THEN "block" ELSE "allow" :
        r \in Results, b \in Baselines}

\* The comment at risk.go:22, "what is missing has failed": a client gains
\* nothing by leaving results out, nor by the order of results or rules; and the
\* verdicts the gate reads are verdicts of this engine.
SilenceNeverHelps ==
    /\ Strict
    /\ \A d \in Known : reports[d].verdict \in Outcome

=============================================================================
