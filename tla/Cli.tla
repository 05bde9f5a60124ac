-------------------------------- MODULE Cli --------------------------------
(***************************************************************************)
(* main.c, the program bytepair: a command opens a vocabulary, reads its   *)
(* input, works in one context, or in one for each thread of bench, and    *)
(* ends with an exit code.  What the library is asked for is taken from    *)
(* the other modules' results: bp_count and bp_encode stand for the bytes  *)
(* from..to - 1 of the input with a span, or fail for want of memory.      *)
(***************************************************************************)
EXTENDS Loader

CONSTANTS
  Args,        \* the command lines, with what their inputs hold
  BufCap,      \* 2^20, the first capacity of read_all
  IdsCap,      \* 1024, the first capacity of decode's ids
  DocSize,     \* 8192
  MaxThreads,  \* 256
  Rounds,      \* 3
  MaxId        \* 2^32

Commands == {"info", "encode", "count", "decode", "bench", "census", "witness"}
Digit == [c \in {"0", "1", "2", "9"} |-> CASE c = "0" -> 0 [] c = "1" -> 1 [] c = "2" -> 2 [] OTHER -> 9]
Space == {" ", "\n"}

\* A command that is none of these is misused; "api" is another program, which
\* opens a vocabulary and closes it.
ASSUME ArgsAssumption ==
  /\ BufCap \in Nat \ {0, 1} /\ IdsCap \in Nat \ {0} /\ DocSize \in Nat \ {0, 1}
  /\ {MaxThreads, Rounds} \subseteq Nat \ {0} /\ MaxId \in 0..(Word - 1)
  /\ \A a \in Args : a.cmd \in STRING /\ a.file \in BOOLEAN /\ a.threads \in Int
                     /\ a.text \in Seq(STRING)

VARIABLES
  args,
  at,      \* where main has come to
  rc, exit,  \* what main will return; the code the process has ended with
  ctx,     \* main has a context
  n, cap,  \* read_all: bytes read, and the buffer's capacity
  bad,     \* ferror
  ids, s,  \* decode: the numbers put in ids, its capacity, and where strtoull goes on
  off,     \* bench: doc_off
  round, t, worker, sum, tokens,
  result   \* what goes to stdout: spans of the input, or ids

input == <<n, cap, bad>>
bench == <<off, round, t, worker, sum, tokens>>
main == <<args, at, rc, exit, ctx, input, ids, s, bench, result>>
vars == <<lvars, main>>

\* No exit code yet; the code a shell gives a process killed by SIGSEGV.
Running == -1
Signal == 139

Idle == [st |-> "none", d |-> 0, tokens |-> <<>>]

MainInit ==
  /\ args \in Args /\ at = "start" /\ rc = 0 /\ exit = Running
  /\ ctx = FALSE /\ n = 0 /\ cap = BufCap /\ bad = FALSE /\ s = 0
  /\ ids = [cap |-> IdsCap, put |-> <<>>]
  /\ off = <<>> /\ round = 1 /\ t = 0 /\ sum = <<>> /\ tokens = <<>> /\ result = <<>>
  /\ worker = [w \in 0..(MaxThreads - 1) |-> Idle]

Init == LoaderInit /\ MainInit

----------------------------------------------------------------------------
(* Ways on and out; exit() gives nothing back.                             *)

Goto(x) == at' = x /\ UNCHANGED <<rc, exit, ctx>>
Exit(c) == at' = "exited" /\ exit' = c /\ UNCHANGED <<rc, ctx>>
\* A context and the buffers are freed before the vocabulary is closed.
Finish(c) == at' = "close" /\ rc' = c /\ ctx' = FALSE /\ UNCHANGED exit

Quiet == UNCHANGED <<lvars, args>>

Start ==
  /\ at = "start"
  /\ IF args.cmd \in Commands \cup {"api"} THEN Goto("open") ELSE Exit(1)
  /\ Quiet /\ UNCHANGED <<input, ids, s, bench, result>>

OpenVocab ==
  /\ at = "open" /\ UNCHANGED <<args, input, ids, s, bench, result>>
  /\ \/ OpenNext /\ UNCHANGED <<at, rc, exit, ctx>>
     \/ pc = "failed" /\ Exit(3) /\ UNCHANGED lvars
     \/ /\ pc = "ready" /\ UNCHANGED lvars
        /\ CASE args.cmd \in {"bench", "witness"} /\ ~args.file -> Finish(1)
             [] args.cmd \in {"info", "api"} -> Finish(0)
             [] args.cmd = "witness" /\ args.file -> Goto("context")
             [] args.cmd = "census" -> (args.file /\ Finish(2)) \/ Goto("context")
             [] OTHER -> Goto("input")

CloseVocab ==
  /\ at = "close" /\ Close /\ Goto("closed")
  /\ UNCHANGED <<args, input, ids, s, bench, result>>

Return ==
  /\ at = "closed" /\ Exit(rc) /\ Quiet /\ UNCHANGED <<input, ids, s, bench, result>>

\* load_input: stdin, or a file that may not open.
LoadInput ==
  /\ at = "input" /\ ((args.file /\ Exit(2)) \/ Exit(4) \/ Goto("read"))
  /\ Quiet /\ UNCHANGED <<input, ids, s, bench, result>>

Least(x, y) == IF x < y THEN x ELSE y
Loaded == CASE args.cmd = "decode" -> Goto("parse") \/ Exit(4)
            [] args.cmd \in {"encode", "count"} -> Goto("context")
            [] OTHER -> IF n' = 0 THEN Finish(2) ELSE Goto("split")

\* An iteration of read_all: fread is short only at the end or after an error.
ReadAll ==
  /\ at = "read" /\ Quiet /\ UNCHANGED <<ids, s, bench, result>>
  /\ LET full == n + 1 >= cap
         room == (IF full THEN 2 * cap ELSE cap) - n - 1
         rest == Len(args.text) - n
     IN \/ full /\ Exit(4) /\ UNCHANGED input
        \/ \E r \in 0..Least(room, rest), error \in BOOLEAN :
             /\ r < Least(room, rest) => error
             /\ n' = n + r /\ bad' = (bad \/ error)
             /\ cap' = room + n + 1
             /\ IF r > 0 THEN Goto("read") ELSE IF bad' THEN Exit(2) ELSE Loaded

----------------------------------------------------------------------------
(* encode, count, decode, census, witness.                                 *)

\* bp_ctx_new, whose cache of 2^cacheLog2 entries may not be had either.
CanOpen(cacheLog2) == IF cacheLog2 \in -1..24 THEN BOOLEAN ELSE {FALSE}

Context ==
  /\ at = "context" /\ Quiet /\ UNCHANGED <<input, ids, s, bench, result>>
  /\ \/ FALSE \in CanOpen(IF args.cmd = "decode" THEN 0 ELSE -1) /\ Finish(4)
     \/ /\ TRUE \in CanOpen(IF args.cmd = "decode" THEN 0 ELSE -1)
        /\ at' = args.cmd /\ ctx' = TRUE /\ UNCHANGED <<rc, exit>>

\* bp_count, and bp_encode into an array of that size.
Whole == <<[from |-> 0, to |-> n]>>

Count ==
  /\ at \in {"count", "encode"} /\ Quiet /\ UNCHANGED <<input, ids, s, bench>>
  /\ \/ Finish(4) /\ UNCHANGED result
     \/ at = "count" /\ result' = Whole /\ Finish(0)
     \/ at = "encode" /\ Goto("again") /\ UNCHANGED result

EncodeAgain ==
  /\ at = "again" /\ Quiet /\ UNCHANGED <<input, ids, s, bench>>
  /\ \/ (Exit(4) \/ Finish(4)) /\ UNCHANGED result
     \/ result' = Whole /\ Finish(0)

\* The text ends in a NUL.
Char(i) == IF i < n THEN args.text[i + 1] ELSE "NUL"
Past(S, i) == CHOOSE j \in i..n : Char(j) \notin S /\ \A h \in i..(j - 1) : Char(h) \in S
Number(x) ==
  LET v[h \in 0..Len(x)] == IF h = 0 THEN 0 ELSE 10 * v[h - 1] + Digit[x[h]] IN v[Len(x)]
Value(i, j) == Number([h \in 1..(j - i) |-> Char(i + h - 1)])

\* strtoull(s, &next, 10)
Strtoull(i) ==
  LET sign == Past(Space, i)
      from == IF Char(sign) \in {"-", "+"} THEN sign + 1 ELSE sign
      to == Past(DOMAIN Digit, from)
      v == Value(from, to)
  IN [next |-> IF to = from THEN i ELSE to,
      val |-> CASE v >= Word -> Word - 1
                [] v < Word /\ Char(sign) = "-" -> (Word - v) % Word
                [] OTHER -> v]

\* Mutant: what is no number is not skipped.
PastStuck(num) == num.next
PastNumber(num) == IF num.next = s THEN s + 1 ELSE num.next

Parse ==
  /\ at = "parse" /\ Quiet /\ UNCHANGED <<input, bench, result>>
  /\ LET num == Strtoull(s)
         full == Len(ids.put) = ids.cap
     IN IF s >= n THEN Goto("context") /\ UNCHANGED <<ids, s>>
        ELSE IF num.next = s THEN s' = PastNumber(num) /\ Goto("parse") /\ UNCHANGED ids
        ELSE IF num.val >= MaxId THEN Finish(4) /\ UNCHANGED <<ids, s>>
        ELSE \/ full /\ Exit(4) /\ UNCHANGED <<ids, s>>
             \/ /\ ids' = [cap |-> IF full THEN 2 * ids.cap ELSE ids.cap,
                           put |-> Append(ids.put, num.val)]
                /\ s' = PastNumber(num) /\ Goto("parse")

\* bp_decode refuses an id the vocabulary does not have, or does not use.
Refused(id) == id >= N \/ Spelled(id) = <<>>

DecodeIds ==
  /\ at = "decode" /\ Quiet /\ UNCHANGED <<input, ids, s, bench>>
  /\ IF \E i \in 1..Len(ids.put) : Refused(ids.put[i]) THEN Finish(4) /\ UNCHANGED result
     ELSE \/ Exit(4) /\ UNCHANGED result
          \/ Finish(0) /\ result' = ids.put

\* bp_census_run and bp_census_witness print as they go; 1 is a failure.
RunCensus ==
  /\ at \in {"census", "witness"} /\ \E r \in {0, 1} : Finish(IF r = 1 THEN 4 ELSE 0)
  /\ Quiet /\ UNCHANGED <<input, ids, s, bench, result>>

----------------------------------------------------------------------------
(* bench: cmd_bench and its threads.                                       *)

Threads == IF args.threads < 1 THEN 1 ELSE Least(args.threads, MaxThreads)

\* Where lines end that make a document of more than DocSize bytes.
Cuts ==
  LET cut[i \in 0..n] ==
        IF i = 0 THEN <<0>>
        ELSE IF Char(i - 1) = "\n" /\ (i - 1) - cut[i - 1][Len(cut[i - 1])] >= DocSize
        THEN Append(cut[i - 1], i) ELSE cut[i - 1]
  IN cut[n]

\* Mutant: a text that does not end in a newline loses its end.
DocsOfLines == Cuts
Docs == IF Cuts[Len(Cuts)] < n THEN Append(Cuts, n) ELSE Cuts

OffCap == (n \div (DocSize \div 2)) + 2

Split ==
  /\ at = "split" /\ Quiet /\ UNCHANGED <<input, ids, s, round, t, worker, sum, tokens, result>>
  /\ (Exit(4) /\ UNCHANGED off) \/ (off' = Docs /\ Goto("spawn"))

NDocs == Len(off) - 1
Live(w) == worker[w].st \in {"new", "count"}

Spawn ==
  /\ at = "spawn" /\ Quiet /\ UNCHANGED <<input, ids, s, off, round, sum, tokens, result>>
  /\ \/ Finish(4) /\ UNCHANGED <<t, worker>>
     \/ /\ worker' = [worker EXCEPT ![t] = [st |-> "new", d |-> t, tokens |-> <<>>]]
        /\ IF t + 1 < Threads THEN t' = t + 1 /\ Goto("spawn") ELSE t' = 0 /\ Goto("join")

\* Mutant: main gives up on the round at the first thread that has failed.
JoinGivesUp ==
  /\ at = "join" /\ ~Live(t) /\ Quiet /\ UNCHANGED <<input, ids, s, off, worker>>
  /\ LET all == sum \o worker[t].tokens
     IN IF worker[t].st = "failed"
        THEN t' = 0 /\ sum' = <<>> /\ Finish(4) /\ UNCHANGED <<round, tokens, result>>
        ELSE IF t + 1 < Threads
        THEN t' = t + 1 /\ sum' = all /\ Goto("join") /\ UNCHANGED <<round, tokens, result>>
        ELSE /\ t' = 0 /\ sum' = <<>>
             /\ tokens' = all \/ (round > 1 /\ UNCHANGED tokens)
             /\ round' = round + 1
             /\ IF round < Rounds THEN Goto("spawn") /\ UNCHANGED result
                ELSE result' = tokens' /\ Finish(0)

\* pthread_join; after the last one the round's rate is compared with the best.
Join ==
  /\ at = "join" /\ ~Live(t) /\ Quiet /\ UNCHANGED <<input, ids, s, off, worker>>
  /\ LET all == sum \o worker[t].tokens
         failed == \E w \in 0..t : worker[w].st = "failed"
     IN IF t + 1 < Threads
        THEN t' = t + 1 /\ sum' = all /\ Goto("join") /\ UNCHANGED <<round, tokens, result>>
        ELSE /\ t' = 0 /\ sum' = <<>>
             /\ IF failed THEN Finish(4) /\ UNCHANGED <<round, tokens, result>>
                ELSE /\ tokens' = all \/ (round > 1 /\ UNCHANGED tokens)
                     /\ round' = round + 1
                     /\ IF round < Rounds THEN Goto("spawn") /\ UNCHANGED result
                        ELSE result' = tokens' /\ Finish(0)

\* bench_worker counts every Threads-th document, from the first one on.
Worker(w) ==
  /\ exit = Running /\ Live(w) /\ Quiet
  /\ UNCHANGED <<at, rc, exit, ctx, input, ids, s, off, round, t, sum, tokens, result>>
  /\ LET j == worker[w]
         To(state) == worker' = [worker EXCEPT ![w].st = state]
     IN \/ j.st = "new" /\ (To("failed") \/ To("count"))
        \/ j.st = "count" /\ j.d >= NDocs /\ To("done")
        \/ j.st = "count" /\ j.d < NDocs /\ To("failed")
        \/ /\ j.st = "count" /\ j.d < NDocs
           /\ worker' = [worker EXCEPT ![w].d = j.d + Threads, ![w].tokens =
                Append(@, [from |-> off[j.d + 1], to |-> off[j.d + 2]])]

\* A thread that cmd_bench has left behind uses a job in a frame that is no more,
\* and then a mapping that is no more: it may go on, or the process is killed.
Killed ==
  /\ at \in {"close", "closed"} /\ \E w \in DOMAIN worker : Live(w)
  /\ Exit(Signal) /\ Quiet /\ UNCHANGED <<input, ids, s, bench, result>>

----------------------------------------------------------------------------

Main ==
  \/ Start \/ OpenVocab \/ CloseVocab \/ Return \/ LoadInput \/ ReadAll \/ Context
  \/ Count \/ EncodeAgain \/ Parse \/ DecodeIds \/ RunCensus \/ Split \/ Spawn \/ Join

Next == Main \/ Killed \/ \E w \in DOMAIN worker : Worker(w)

\* main runs, and so does every thread.
Fairness == WF_vars(Main) /\ \A w \in 0..(MaxThreads - 1) : WF_vars(Worker(w))
Spec == Init /\ [][Next]_vars /\ Fairness

----------------------------------------------------------------------------

\* What is filled is large enough: the input and its NUL, the ids and the offsets
\* of the documents, which follow one another; and no context outlives the
\* vocabulary it reads (bytepair.h 53-60).  A thread works only while cmd_bench is
\* there, with its jobs, and the vocabulary is open; but for those made before one
\* that could not be, which the program leaves behind to end with 4.
InBounds ==
  /\ at \in {"read", "parse"} => n < cap
  /\ Len(ids.put) <= ids.cap
  /\ off # <<>> =>
       Len(off) <= OffCap /\ \A i \in 1..NDocs : off[i] < off[i + 1] /\ off[i + 1] <= n
  /\ ctx => map
  /\ \A w \in DOMAIN worker :
       Live(w) => (map /\ at \in {"spawn", "join"}) \/ (rc = 4 /\ w < t)

\* The numbers of a text: maximal runs of digits.
Runs == {r \in (0..n) \X (0..n) :
           /\ r[1] < r[2] /\ \A i \in r[1]..(r[2] - 1) : Char(i) \in DOMAIN Digit
           /\ Char(r[2]) \notin DOMAIN Digit /\ (r[1] > 0 => Char(r[1] - 1) \notin DOMAIN Digit)}

\* A program that ends with 0 has answered: the tokens it counts or prints are
\* those of the whole input, every byte once, however bench cuts the input into
\* documents and shares them out to its threads; decode takes every number of the
\* text, in order (one with a minus sign is another number).  Another code comes
\* with no answer, and 3 is for vocabularies only (lines 3-8).
Answered ==
  /\ exit = 0 /\ args.cmd \in {"count", "encode", "bench"} =>
       \A i \in 0..(Len(args.text) - 1) :
         Cardinality({h \in 1..Len(result) : i \in result[h].from..(result[h].to - 1)}) = 1
  /\ exit = 0 /\ args.cmd = "decode" =>
       /\ n = Len(args.text)
       /\ (\A i \in 0..(n - 1) : Char(i) # "-") =>
            /\ Len(result) = Cardinality(Runs)
            /\ \A r \in Runs :
                 result[Cardinality({q \in Runs : q[1] <= r[1]})] = Value(r[1], r[2])
  /\ exit # Running /\ result # <<>> => exit = 0
  /\ exit = 3 <=> (exit # Running /\ pc = "failed")

\* Whatever fails, the program ends, with every thread that bench made.
Exits == <>(at = "exited")

\* Exit codes 0 to 4, "asserted by the test suite; keep stable" (main.c 3-8).
ExitsDocumented == exit \in {Running} \cup 0..4
=============================================================================
