----------------------------- MODULE ContextTtft -----------------------------
(***************************************************************************)
(* benchmarks/run_context_ttft.py: a matrix of streaming requests, one     *)
(* after the other.  While main reads the stream of an answer, a thread    *)
(* samples the server's own count of generated tokens; the steady rate is  *)
(* taken from the samples past --steady-from.                              *)
(*                                                                         *)
(* A stream is a sequence of pieces: events and line ends ("nl").  The     *)
(* network hands them over in portions of any length.  An answer that was  *)
(* accepted may still fail on the server: its stream then ends like any    *)
(* other, after an event with an error, and has no number of tokens.       *)
(* Durations are left out, and with them the rates: what they divide is    *)
(* not.  No one else uses the server, as the docstring of scrape_counters  *)
(* demands.                                                                *)
(***************************************************************************)
EXTENDS Integers, Sequences, FiniteSetsExt

CONSTANTS
    Runs,           \* requests of the matrix
    SteadyFrom,     \* --steady-from
    MaxTokens,      \* --max-tokens
    Steps,          \* how many tokens the engine may make at once
    Refusals,       \* statuses other than 200 the server may answer
    MaxSamples,     \* bounds: samples that are taken of one request,
    MaxCrashes,     \* crashes of the server
    None

\* What request_once returns
Result == [status : {200} \cup Refusals, completion : Nat \cup {None}, first : BOOLEAN,
           steady : Int \cup {None}]

ASSUME BoundsAssumption ==
    /\ Runs \in Nat \ {0} /\ SteadyFrom \in Nat /\ MaxTokens \in Nat
    /\ Steps \subseteq Nat \ {0} /\ Refusals \subseteq Nat \ {200}
    /\ MaxSamples \in Nat /\ MaxCrashes \in Nat
ASSUME NoneAssumption ==
    None \notin Int /\ None \notin Result /\ None \notin [1..Runs -> Result \cup {None}]

VARIABLES
    up,             \* the server answers
    made,           \* its vllm:generation_tokens_total
    reply,          \* its answer to the request: "none", "open", "ended", "broken"
    wire,           \* pieces that were sent and not yet read
    generated,      \* of each request, not in the program: the tokens that were made for it,
    shown, told,    \* whether text of it was sent, and whether the number of tokens was
    crashes,
    pc,             \* of main: "base", "open", "read", "join", "write", "end"
    run, base, status, first, usage, buffer,
    results,        \* [1..Runs -> result or None]: all_results
    output, exit,
    sampler,        \* [1..Runs -> "off", "look", "scrape", "append", "done"]
    counted,        \* [1..Runs -> what the thread has read, or None]
    samples,        \* [1..Runs -> tokens since base, in the order they were appended]
    stopped         \* [1..Runs -> stop_sampling is set]

answered == <<generated, shown, told>>
serverVars == <<up, made, reply, answered, crashes>>
mainVars == <<pc, run, base, status, first, usage, buffer, results, output, exit>>
samplerVars == <<sampler, counted, samples, stopped>>
vars == <<serverVars, wire, mainVars, samplerVars>>

NoTokens == 0
NL == [kind |-> "nl", n |-> NoTokens]
Line(kind, n) == <<[kind |-> kind, n |-> n], NL>>

-----------------------------------------------------------------------------
(* The server.                                                             *)

\* Tokens may come without text: the end of the turn, a part of a character.
Make(n) ==
    /\ reply = "open" /\ generated[run] + n <= MaxTokens
    /\ made' = made + n
    /\ generated' = [generated EXCEPT ![run] = @ + n]
    /\ \/ /\ wire' = wire \o Line("text", NoTokens)
          /\ shown' = [shown EXCEPT ![run] = TRUE]
       \/ UNCHANGED <<wire, shown>>
    /\ UNCHANGED <<up, reply, told, crashes, mainVars, samplerVars>>

\* stream_options.include_usage: the last event has the number of tokens.
Finish ==
    /\ reply = "open" /\ generated[run] > 0
    /\ reply' = "ended" /\ told' = [told EXCEPT ![run] = TRUE]
    /\ wire' = wire \o Line("usage", generated[run])
    /\ UNCHANGED <<up, made, generated, shown, crashes, mainVars, samplerVars>>

\* The server gives the answer up, at any point of it, and says so in an event of its own.
Fail ==
    /\ reply = "open" /\ reply' = "ended"
    /\ wire' = wire \o Line("error", NoTokens)
    /\ UNCHANGED <<up, made, answered, crashes, mainVars, samplerVars>>

\* What was sent may still be read; the counter begins at zero again.
Crash ==
    /\ up /\ pc # "end" /\ crashes < MaxCrashes
    /\ up' = FALSE /\ crashes' = crashes + 1 /\ made' = 0
    /\ reply' = IF reply = "open" THEN "broken" ELSE reply
    /\ UNCHANGED <<answered, wire, mainVars, samplerVars>>

Restart ==
    /\ ~up /\ pc # "end" /\ up' = TRUE
    /\ UNCHANGED <<made, reply, answered, crashes, wire, mainVars, samplerVars>>

Generate == Finish \/ Fail \/ \E n \in Steps : Make(n)

Server == Generate \/ Crash \/ Restart

-----------------------------------------------------------------------------
(* The sampling thread of request k; one that outlives the join is still   *)
(* there during the next request.                                          *)

\* scrape_counters
Scraped == {None} \cup (IF up THEN {made} ELSE {})

Look(k) ==
    /\ sampler[k] = "look" /\ pc # "end"
    /\ stopped[k] \/ Len(samples[k]) < MaxSamples
    /\ sampler' = [sampler EXCEPT ![k] = IF stopped[k] THEN "done" ELSE "scrape"]
    /\ UNCHANGED <<serverVars, wire, mainVars, counted, samples, stopped>>

Scrape(k) ==
    /\ sampler[k] = "scrape" /\ pc # "end"
    /\ \E c \in Scraped : counted' = [counted EXCEPT ![k] = IF c = None THEN None ELSE c - base[k]]
    /\ sampler' = [sampler EXCEPT ![k] = "append"]
    /\ UNCHANGED <<serverVars, wire, mainVars, samples, stopped>>

AppendSample(k) ==
    /\ sampler[k] = "append" /\ pc # "end"
    /\ samples' = [samples EXCEPT ![k] = IF counted[k] = None THEN @ ELSE Append(@, counted[k])]
    /\ counted' = [counted EXCEPT ![k] = None]
    /\ sampler' = [sampler EXCEPT ![k] = "look"]
    /\ UNCHANGED <<serverVars, wire, mainVars, stopped>>

Sampler(k) == Look(k) \/ Scrape(k) \/ AppendSample(k)

-----------------------------------------------------------------------------
(* request_once and main.                                                  *)

\* Mutant: the count before the first request serves all of them.
MutantBaseOf(c) == IF run > 1 /\ base[1] # None THEN base[1] ELSE c

\* base_counters
BaseOf(c) == c

\* Without a count to start from there is no thread.
Base ==
    /\ pc = "base" /\ pc' = "open"
    /\ \E c \in Scraped :
        /\ base' = [base EXCEPT ![run] = BaseOf(c)]
        /\ sampler' = [sampler EXCEPT ![run] = IF c = None THEN "off" ELSE "look"]
    /\ UNCHANGED <<serverVars, wire, run, status, first, usage, buffer, results, output, exit,
                   counted, samples, stopped>>

\* Nothing but an HTTPError is caught: the program ends, and its threads with it.
Raise ==
    /\ pc' = "end" /\ exit' = 1
    /\ UNCHANGED <<serverVars, wire, run, base, status, first, usage, buffer, results, output,
                   samplerVars>>

\* The first event, which has a role and no text yet, is left out.
Accepted ==
    /\ pc = "open" /\ up
    /\ reply' = "open" /\ wire' = <<>> /\ status' = 200 /\ pc' = "read"
    /\ UNCHANGED <<up, made, answered, crashes, run, base, first, usage, buffer, results, output,
                   exit, samplerVars>>

Refused ==
    /\ pc = "open" /\ up
    /\ status' \in Refusals /\ pc' = "join"
    /\ stopped' = [stopped EXCEPT ![run] = TRUE]
    /\ UNCHANGED <<serverVars, wire, run, base, first, usage, buffer, results, output, exit,
                   sampler, counted, samples>>

Unreachable == pc = "open" /\ ~up /\ Raise

\* Mutant: what follows the last line end of a portion is lost.
MutantRest(pieces) == <<>>

\* buffer.split(b"\n", 1), as long as there is a line end: the events of the lines, and what
\* is left
Ends(pieces) == {i \in 1..Len(pieces) : pieces[i] = NL}
LastEnd(pieces) == IF Ends(pieces) = {} THEN 0 ELSE Max(Ends(pieces))
Events(pieces, kind) == {i \in 1..LastEnd(pieces) : pieces[i].kind = kind}
Rest(pieces) == SubSeq(pieces, LastEnd(pieces) + 1, Len(pieces))

\* A portion, cut anywhere; the first text and the usage are taken from its lines, and any
\* other event is passed over.
Read(n) ==
    /\ pc = "read" /\ n \in 1..Len(wire)
    /\ LET pieces == buffer \o SubSeq(wire, 1, n)
           totals == Events(pieces, "usage")
       IN  /\ buffer' = Rest(pieces)
           /\ first' = (first \/ Events(pieces, "text") # {})
           /\ usage' = IF totals = {} THEN usage ELSE pieces[Max(totals)].n
    /\ wire' = SubSeq(wire, n + 1, Len(wire))
    /\ UNCHANGED <<serverVars, pc, run, base, status, results, output, exit, samplerVars>>

\* An empty portion: the stream has ended, with the number of tokens or without.
ReadEnd ==
    /\ pc = "read" /\ wire = <<>> /\ reply = "ended"
    /\ pc' = "join" /\ reply' = "none"
    /\ stopped' = [stopped EXCEPT ![run] = TRUE]
    /\ UNCHANGED <<up, made, answered, crashes, wire, run, base, status, first, usage, buffer,
                   results, output, exit, sampler, counted, samples>>

ReadBreaks == pc = "read" /\ reply = "broken" /\ Raise

\* steady_window; a tail of one sample has no gain
SteadyWindow(s) ==
    LET tail == {i \in 1..Len(s) : s[i] >= SteadyFrom}
    IN  IF tail = {} \/ s[Max(tail)] <= s[Min(tail)] THEN None
        ELSE s[Max(tail)] - s[Min(tail)]

\* Mutant: a request that was refused is tried again.
MutantAfter(s) == IF s # 200 THEN "base" ELSE IF run = Runs THEN "write" ELSE "base"

\* "raise SystemExit", or the next of the loops of main
After(s) == IF s # 200 THEN "end" ELSE IF run = Runs THEN "write" ELSE "base"

\* sampler.join(timeout=2): a scrape that takes longer is not waited for.  The locals of
\* request_once are gone; a thread that lingers may still append to a list no one will read.
Join ==
    /\ pc = "join"
    /\ results' = [results EXCEPT ![run] =
          [status |-> status, completion |-> usage, first |-> first,
           steady |-> IF status = 200 THEN SteadyWindow(samples[run]) ELSE None]]
    /\ pc' = After(status)
    /\ run' = IF status = 200 /\ run < Runs THEN run + 1 ELSE run
    /\ exit' = IF status = 200 THEN exit ELSE IF status \in {401, 403} THEN 2 ELSE 1
    /\ status' = None /\ first' = FALSE /\ usage' = None /\ buffer' = <<>>
    /\ samples' = [samples EXCEPT ![run] = <<>>]
    /\ UNCHANGED <<serverVars, wire, base, output, sampler, counted, stopped>>

Write ==
    /\ pc = "write" /\ pc' = "end"
    /\ output' = results /\ exit' = 0
    /\ UNCHANGED <<serverVars, wire, run, base, status, first, usage, buffer, results, samplerVars>>

Main ==
    \/ Base \/ Accepted \/ Refused \/ Unreachable \/ ReadEnd \/ ReadBreaks \/ Join \/ Write
    \/ \E n \in 1..Len(wire) : Read(n)

Init ==
    /\ up \in BOOLEAN /\ made = 0 /\ reply = "none" /\ wire = <<>>
    /\ generated = [k \in 1..Runs |-> 0] /\ crashes = 0
    /\ shown = [k \in 1..Runs |-> FALSE] /\ told = [k \in 1..Runs |-> FALSE]
    /\ pc = "base" /\ run = 1 /\ base = [k \in 1..Runs |-> None] /\ status = None
    /\ first = FALSE /\ usage = None /\ buffer = <<>>
    /\ results = [k \in 1..Runs |-> None] /\ output = None /\ exit = None
    /\ sampler = [k \in 1..Runs |-> "off"] /\ counted = [k \in 1..Runs |-> None]
    /\ samples = [k \in 1..Runs |-> <<>>] /\ stopped = [k \in 1..Runs |-> FALSE]

Next == Server \/ Main \/ \E k \in 1..Runs : Sampler(k)

\* main is scheduled, and the engine comes to the end of what it was asked for, if only
\* because of max_tokens.  Nobody starts a crashed server again for the benchmark's sake.
Spec == Init /\ [][Next]_vars /\ WF_vars(Main) /\ WF_vars(Generate)

-----------------------------------------------------------------------------
(* What a result means.                                                    *)

\* benchmarks/README.md:27-32: the steady window holds tokens of the request itself, from
\* --steady-from on, and there is none if fewer were generated, although the count is the
\* server's, goes back to zero when it crashes, and threads of earlier requests linger.
SteadyIsOwnTail ==
    \A k \in 1..Runs : results[k] # None /\ results[k].steady # None =>
        results[k].steady <= generated[k] - SteadyFrom

\* What the stream of request k says of its length
Told(k) == IF told[k] THEN generated[k] ELSE None

\* A file is only written for a whole matrix, and every result in it has what its stream said
\* and no other did: the number of its tokens unless the server gave the answer up, and a first
\* character if there was one, wherever the network cut the lines.  The file does not tell an
\* answer that was given up from one that was not: its status is 200 too.
OutputIsWhole ==
    /\ (output # None) = (exit = 0)
    /\ output # None => \A k \in 1..Runs :
        /\ output[k] # None /\ output[k].status = 200
        /\ output[k].completion = Told(k) /\ output[k].first = shown[k]

\* The benchmark ends, whatever the server answers or fails to.
BenchmarkEnds == <>(pc = "end")
=============================================================================
