----------------------------- MODULE Benchmark -----------------------------
(***************************************************************************)
(* The benchmark runner (benchmark/main.go): a pool of workers measures a  *)
(* transport, then events are sent through the whole pipeline and their    *)
(* latencies taken from the aggregator's cumulative histogram, as the      *)
(* difference of two scrapes.                                              *)
(*                                                                         *)
(* Durations and bucket bounds are small integers, and a quantile is a     *)
(* whole percentage.  The pipeline between the sockets and the histogram   *)
(* is external: an event is sampled some time later, or lost.              *)
(***************************************************************************)
EXTENDS Integers, Sequences, FiniteSets, FiniteSetsExt

CONSTANTS
    WarmUps, Requests, Workers,  \* of the transport benchmark
    Durations,          \* latencies a request can have
    Loads,              \* events per pipeline load, rate times duration rounded; the
                        \* first is the warm-up
    Bounds,             \* upper bounds of the finite buckets, ascending
    Quantiles,          \* in percent
    MaxStrangers,       \* bound: samples of events that others sent
    MaxResets           \* bound: restarts of the aggregator

ASSUME BenchmarkAssumption ==
    /\ WarmUps \in Nat \ {0} /\ Requests \in Nat \ {0}
    /\ Durations \subseteq Nat
    /\ Loads \in Seq(Nat) /\ Loads # <<>>
    /\ Bounds \in Seq(Nat \ {0}) /\ Bounds # <<>>
    /\ \A b \in 2 .. Len(Bounds) : Bounds[b - 1] < Bounds[b]
    /\ Quantiles \subseteq 1 .. 100
    /\ MaxStrangers \in Nat /\ MaxResets \in Nat

VARIABLES
    pc,          \* main
    warmed,      \* warm-up requests sent
    index,       \* next request to dispatch
    job,         \* job[w]: the request worker w sends, or 0
    failing,     \* the workers that have an error to put into errs
    errs,        \* errors in the buffered channel
    latencies,   \* latencies[i]: measured duration of request i, or -1
    percentiles, \* reported for the transport: quantile -> duration
    load,        \* index of the current load
    sent,        \* its events written so far
    before,      \* scrape before the load
    after,       \* last scrape of the wait
    results,     \* reported per load: quantile -> fraction
    hist,        \* the aggregator's histogram: cumulative counts by bucket
    transit,     \* transit[l]: events of load l sent and neither sampled nor lost
    own,         \* history: cumulative samples of the events of the current load
    strangers, resets   \* history

transport == <<warmed, index, job, failing, errs, latencies, percentiles>>
pipeline == <<load, sent, before, after, results>>
world == <<hist, transit, own, strangers, resets>>
vars == <<pc, transport, pipeline, world>>

Inf == Len(Bounds) + 1
Buckets == 1 .. Inf
Empty == [b \in Buckets |-> 0]
Observe(h, b) == [x \in Buckets |-> IF x >= b THEN h[x] + 1 ELSE h[x]]

Init ==
    /\ pc = "warm"
    /\ warmed = 0 /\ index = 1
    /\ job = [w \in Workers |-> 0]
    /\ failing = {} /\ errs = 0
    /\ latencies = [i \in 1 .. Requests |-> -1]
    /\ percentiles = [q \in {} |-> 0]
    /\ load = 1 /\ sent = 0
    /\ before = Empty /\ after = Empty
    /\ results = <<>>
    /\ hist = Empty /\ transit = [l \in DOMAIN Loads |-> 0] /\ own = Empty
    /\ strangers = 0 /\ resets = 0

Fail(from) ==
    /\ pc = from
    /\ pc' = "failed"
    /\ UNCHANGED <<transport, pipeline, world>>

-----------------------------------------------------------------------------
\* percentile and histogramQuantile

Sorted(s) == CHOOSE t \in [DOMAIN s -> {s[i] : i \in DOMAIN s}] :
    /\ \A i, j \in DOMAIN s : i < j => t[i] <= t[j]
    /\ \E p \in Bijection(DOMAIN s, DOMAIN s) : \A i \in DOMAIN s : t[i] = s[p[i]]

\* Mutant: the rank is rounded down.
PercentileRoundedDown(s, q) ==
    LET rank == (q * Len(s)) \div 100 IN Sorted(s)[IF rank = 0 THEN 1 ELSE rank]

\* ceil(q * n) - 1 counts from zero.
Percentile(s, q) == Sorted(s)[(q * Len(s) + 99) \div 100]

BoundBelow(b) == IF b = 1 THEN 0 ELSE Bounds[b - 1]
CountBelow(h, b) == IF b = 1 THEN 0 ELSE h[b - 1]

\* Mutant: previousBound is not advanced.
QuantileFromZero(h, q) ==
    LET b == Min({x \in Buckets : 100 * h[x] >= q * h[Inf]})
        width == 100 * (h[b] - CountBelow(h, b)) IN
    IF b = Inf THEN [num |-> BoundBelow(b), den |-> 1]
    ELSE [num |-> Bounds[b] * (q * h[Inf] - 100 * CountBelow(h, b)), den |-> width]

\* The fraction num / den, interpolated inside the first bucket whose count
\* reaches the rank.
HistogramQuantile(h, q) ==
    LET b == Min({x \in Buckets : 100 * h[x] >= q * h[Inf]})
        width == 100 * (h[b] - CountBelow(h, b)) IN
    IF b = Inf THEN [num |-> BoundBelow(b), den |-> 1]
    ELSE [num |-> BoundBelow(b) * width
                     + (Bounds[b] - BoundBelow(b)) * (q * h[Inf] - 100 * CountBelow(h, b)),
          den |-> width]

-----------------------------------------------------------------------------
\* benchmarkTransport

\* The aggregator samples a request too, with a latency of at most the duration d.
SampledIn(d) == {b \in Buckets : b = 1 \/ BoundBelow(b) < d}

\* The warm-up requests, one after the other.
WarmUp(b) ==
    /\ pc = "warm"
    /\ warmed' = warmed + 1
    /\ pc' = IF warmed' = WarmUps THEN "dispatch" ELSE "warm"
    /\ hist' = Observe(hist, b)
    /\ UNCHANGED <<index, job, failing, errs, latencies, percentiles, pipeline, transit,
                   own, strangers, resets>>

\* Mutant: one request too many.
DispatchTooMany(w) ==
    /\ pc = "dispatch" /\ index <= Requests + 1
    /\ job[w] = 0 /\ w \notin failing
    /\ job' = [job EXCEPT ![w] = index]
    /\ index' = index + 1
    /\ UNCHANGED <<pc, warmed, failing, errs, latencies, percentiles, pipeline, world>>

\* The unbuffered channel hands the index to a worker that waits for one.
Dispatch(w) ==
    /\ pc = "dispatch" /\ index <= Requests
    /\ job[w] = 0 /\ w \notin failing
    /\ job' = [job EXCEPT ![w] = index]
    /\ index' = index + 1
    /\ UNCHANGED <<pc, warmed, failing, errs, latencies, percentiles, pipeline, world>>

\* A request that fails may have been applied all the same.
Send(w, d, b, ok) ==
    /\ job[w] # 0
    /\ latencies' = [latencies EXCEPT ![job[w]] = d]
    /\ job' = [job EXCEPT ![w] = 0]
    /\ \/ ok /\ failing' = failing /\ hist' = Observe(hist, b)
       \/ ~ok /\ failing' = failing \cup {w} /\ hist' \in {hist, Observe(hist, b)}
    /\ UNCHANGED <<pc, warmed, index, errs, percentiles, pipeline, transit, own, strangers,
                   resets>>

\* errs has room for an error of every request.
PushError(w) ==
    /\ w \in failing
    /\ errs < Requests
    /\ errs' = errs + 1
    /\ failing' = failing \ {w}
    /\ UNCHANGED <<pc, warmed, index, job, latencies, percentiles, pipeline, world>>

CloseJobs ==
    /\ pc = "dispatch" /\ index > Requests
    /\ pc' = "join"
    /\ UNCHANGED <<transport, pipeline, world>>

\* workers.Wait, and the errors are looked at.
Join ==
    /\ pc = "join"
    /\ failing = {} /\ \A w \in Workers : job[w] = 0
    /\ IF errs > 0
       THEN pc' = "failed" /\ UNCHANGED percentiles
       ELSE /\ pc' = "scrape"
            /\ percentiles' = [q \in Quantiles |-> Percentile(latencies, q)]
    /\ UNCHANGED <<warmed, index, job, failing, errs, latencies, pipeline, world>>

-----------------------------------------------------------------------------
\* benchmarkPipeline, sendPipelineLoad and waitForSamples

ScrapeBefore ==
    /\ pc = "scrape"
    /\ before' = hist
    /\ own' = Empty
    /\ sent' = 0
    /\ pc' = "send"
    /\ UNCHANGED <<transport, load, after, results, hist, transit, strangers, resets>>

SendEvent ==
    /\ pc = "send" /\ sent < Loads[load]
    /\ sent' = sent + 1
    /\ transit' = [transit EXCEPT ![load] = @ + 1]
    /\ UNCHANGED <<pc, transport, load, before, after, results, hist, own, strangers, resets>>

SendEnds ==
    /\ pc = "send" /\ sent = Loads[load]
    /\ pc' = "drain"
    /\ UNCHANGED <<transport, pipeline, world>>

\* Mutant: the wait ends one sample early.
ScrapeAfterTooFew ==
    /\ pc = "drain"
    /\ after' = hist
    /\ pc' = IF hist[Inf] + 1 >= before[Inf] + Loads[load] THEN "report" ELSE "drain"
    /\ UNCHANGED <<transport, load, sent, before, results, world>>

\* One scrape of waitForSamples.
ScrapeAfter ==
    /\ pc = "drain"
    /\ after' = hist
    /\ pc' = IF hist[Inf] >= before[Inf] + Loads[load] THEN "report" ELSE "drain"
    /\ UNCHANGED <<transport, load, sent, before, results, world>>

\* Mutant: the wait for samples has no deadline.
DrainForever == pc = "drain" /\ UNCHANGED vars

DrainTimesOut == Fail("drain")

\* subtractHistogram
HistogramReset == \E b \in Buckets : after[b] < before[b]
Delta == [b \in Buckets |-> after[b] - before[b]]

\* The warm-up, load 1, is not subtracted and not reported.
Report ==
    /\ pc = "report"
    /\ IF load > 1 /\ (HistogramReset \/ Delta[Inf] # Loads[load])
       THEN pc' = "failed" /\ UNCHANGED <<load, results>>
       ELSE /\ results' = IF load = 1 THEN results ELSE
                  Append(results, [q \in Quantiles |-> HistogramQuantile(Delta, q)])
            /\ load' = load + 1
            /\ pc' = IF load = Len(Loads) THEN "done" ELSE "scrape"
    /\ UNCHANGED <<transport, sent, before, after, world>>

-----------------------------------------------------------------------------
\* External: the pipeline and the aggregator's registry

\* An event of load l is sampled, perhaps when a later load is under way.
Sample(l, b) ==
    /\ transit[l] > 0
    /\ transit' = [transit EXCEPT ![l] = @ - 1]
    /\ hist' = Observe(hist, b)
    /\ own' = IF l = load THEN Observe(own, b) ELSE own
    /\ UNCHANGED <<pc, transport, pipeline, strangers, resets>>

LoseEvent(l) ==
    /\ transit[l] > 0
    /\ transit' = [transit EXCEPT ![l] = @ - 1]
    /\ UNCHANGED <<pc, transport, pipeline, hist, own, strangers, resets>>

StrangerSample(b) ==
    /\ strangers < MaxStrangers
    /\ strangers' = strangers + 1
    /\ hist' = Observe(hist, b)
    /\ UNCHANGED <<pc, transport, pipeline, transit, own, resets>>

AggregatorRestart ==
    /\ resets < MaxResets
    /\ resets' = resets + 1
    /\ hist' = Empty
    /\ UNCHANGED <<pc, transport, pipeline, transit, own, strangers>>

\* The runner has printed its report or an error and exited.
Exited == pc \in {"done", "failed"} /\ UNCHANGED vars
-----------------------------------------------------------------------------
Worker(w) ==
    \/ PushError(w)
    \/ \E d \in Durations, ok \in BOOLEAN : \E b \in SampledIn(d) : Send(w, d, b, ok)

Runner ==
    \/ \E d \in Durations : \E b \in SampledIn(d) : WarmUp(b)
    \/ CloseJobs \/ Join \/ \E w \in Workers : Dispatch(w)
    \/ ScrapeBefore \/ SendEvent \/ SendEnds \/ ScrapeAfter \/ DrainTimesOut \/ Report
    \/ \E from \in {"warm", "scrape", "send"} : Fail(from)

World ==
    \/ AggregatorRestart \/ \E b \in Buckets : StrangerSample(b)
    \/ \E l \in DOMAIN Loads : LoseEvent(l) \/ \E b \in Buckets : Sample(l, b)

Next == Runner \/ World \/ Exited \/ \E w \in Workers : Worker(w)

Spec == Init /\ [][Next]_vars

\* Requests, writes and scrapes have timeouts, and so has the wait for samples.
FairSpec ==
    /\ Spec
    /\ WF_vars(Runner) /\ WF_vars(DrainTimesOut)
    /\ \A w \in Workers : WF_vars(Worker(w))

-----------------------------------------------------------------------------
(***************************************************************************)
(* Workers only handle requests that exist, the error channel is never     *)
(* full when a worker writes to it, and counts are numbers.                *)
(***************************************************************************)
RunnerTypeOK ==
    /\ pc \in {"warm", "dispatch", "join", "scrape", "send", "drain", "report", "done", "failed"}
    /\ warmed \in 0 .. WarmUps /\ index \in 1 .. Requests + 1
    /\ job \in [Workers -> 0 .. Requests]
    /\ failing \subseteq Workers /\ errs + Cardinality(failing) \in 0 .. Requests
    /\ latencies \in [1 .. Requests -> Durations \cup {-1}]
    /\ load \in 1 .. Len(Loads) + 1
    /\ {sent, strangers, resets} \subseteq Nat /\ transit \in [DOMAIN Loads -> Nat]
    /\ {before, after, hist, own} \subseteq [Buckets -> Nat]

AtMost(v) == Cardinality({i \in 1 .. Requests : latencies[i] \in 0 .. v})

(***************************************************************************)
(* A transport is reported only if every request was measured, and each    *)
(* percentile is the nearest rank: the smallest measured duration that at  *)
(* least q percent of the requests did not exceed, in whatever order the   *)
(* workers finished (percentile, latencies).                               *)
(***************************************************************************)
TransportIsNearestRank ==
    \A q \in DOMAIN percentiles :
        LET v == percentiles[q] IN
        /\ \A i \in 1 .. Requests : latencies[i] \in Durations
        /\ \E i \in 1 .. Requests : latencies[i] = v
        /\ 100 * AtMost(v) >= q * Requests
        /\ 100 * AtMost(v - 1) < q * Requests

\* f lies in the bucket of h that holds the sample of rank q.
InBucketOfRank(f, h, q) ==
    \E b \in Buckets :
        /\ 100 * CountBelow(h, b) < q * h[Inf] /\ q * h[Inf] <= 100 * h[b]
        /\ f.den > 0 /\ BoundBelow(b) * f.den <= f.num
        /\ b # Inf => f.num <= Bounds[b] * f.den

(***************************************************************************)
(* A load is reported from exactly as many samples as events were sent,    *)
(* and, when nobody else feeds the pipeline, from the samples of these     *)
(* events alone: late samples of an earlier load, lost events and a        *)
(* histogram that was reset do not slip in.  Its quantiles lie in the      *)
(* right buckets, unless rate times duration rounded to no events at all,  *)
(* which histogramQuantile reports as 0 / 0.                               *)
(***************************************************************************)
LoadsReportedExactly ==
    [][Len(results') > Len(results) =>
          /\ Delta[Inf] = sent
          /\ strangers = 0 => Delta = own
          /\ sent > 0 => \A q \in Quantiles :
                InBucketOfRank(results'[Len(results')][q], Delta, q)]_vars

(***************************************************************************)
(* The benchmark ends, with a report or an error: failing requests do not  *)
(* block the pool, lost events do not keep the wait for samples alive.     *)
(***************************************************************************)
BenchmarkEnds == <>(pc \in {"done", "failed"})
=============================================================================
