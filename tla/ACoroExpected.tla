---------------------------- MODULE ACoroExpected ----------------------------
(***************************************************************************)
(* Coroutines and what they wait for (src/src/acoroexpected.h and          *)
(* src/src/asql_coro_delivery.h): the awaitables ACoroExpected ("single"), *)
(* ACoroMultiExpected ("multi") and AExpectedOpen ("open"), the delivery   *)
(* of results into them, the resume of the coroutine, which is put off to  *)
(* a timer while another resumed coroutine runs, the QObjects that cancel, *)
(* and ACoroTerminator's co_yield of such an object.                       *)
(*                                                                         *)
(* The driver and the pool are whoever delivers: from the event loop, or   *)
(* in the middle of a running coroutine that called them.                  *)
(***************************************************************************)
EXTENDS Integers, FiniteSets, SequencesExt

CONSTANTS
  Coroutines,
  Objects,           \* QObjects: receivers and co_yield guards
  Awaitables,        \* names of awaitables that exist at the same time
  MaxResults,        \* result sets of a request of several statements
  DestroyPutOff,     \* a coroutine may be destroyed while its resume is put off
  DestroyShared,     \* ... or while its result comes from another coroutine
  ReceiverGoneFirst  \* a receiver may go between a request and its co_await

None == "none"   \* no receiver was passed, no awaitable
Gone == "gone"   \* the receiver is destroyed

ASSUME ConstantsAssumption ==
  /\ None \notin Awaitables /\ None \notin Objects /\ Gone \notin Objects
  /\ MaxResults \in Nat \ {0}
  /\ {DestroyPutOff, DestroyShared, ReceiverGoneFirst} \subseteq BOOLEAN

VARIABLES
  frame,   \* coroutine -> "none", "running" or "suspended"
  stack,   \* the running coroutines, the inner one last; resumed: it runs in
           \* handle.resume() of resumeCoroHandle()
  waits,   \* coroutine -> the awaitable it is suspended on, or None
  guards,  \* coroutine -> the objects it was tied to
  data,    \* awaitable -> its ACoroData, or Free
  timers,  \* coroutines whose resume is put off, in the order of the timers
  alive    \* objects that were not destroyed

vars == <<frame, stack, waits, guards, data, timers, alive>>

Free == [kind |-> "free"]
Error == 0       \* stands for "QObject receiver* destroyed"

Kinds == {"single", "multi", "open"}
Data == [kind: Kinds, owner: Coroutines, held: BOOLEAN, shared: BOOLEAN,
         receiver: Objects \cup {None, Gone},
         connected: BOOLEAN,                        \* to destroyed()
         handle: BOOLEAN,                           \* to its owner
         status: {"Waiting", "Suspended", "Done"},
         results: Seq(0 .. MaxResults),             \* kept for the coroutine
         sent: 0 .. MaxResults, toSend: 0 .. MaxResults,
         taken: 0 .. MaxResults]                    \* the last one taken

Init ==
  /\ frame = [c \in Coroutines |-> "none"] /\ stack = <<>>
  /\ waits = [c \in Coroutines |-> None]
  /\ guards = [c \in Coroutines |-> {}]
  /\ data = [w \in Awaitables |-> Free]
  /\ timers = <<>> /\ alive = Objects

-----------------------------------------------------------------------------
\* Awaitables.

Used == {w \in Awaitables : data[w] # Free}

\* The object that the coroutine holds; the data may outlive it.
Held(c) == {w \in Used : data[w].owner = c /\ data[w].held}

Ready(d) == CASE d.kind = "multi" -> d.results # <<>> \/ d.status = "Done"
              [] OTHER -> d.status = "Done"

\* await_resume(): an open is finished with it and forgets the handle.
Taken(d) ==
  LET got == IF d.results = <<>> THEN d.taken ELSE Head(d.results)
      rest == IF d.results = <<>> THEN <<>> ELSE Tail(d.results)
  IN  IF d.kind = "open"
      THEN [d EXCEPT !.taken = got, !.results = rest, !.handle = FALSE]
      ELSE [d EXCEPT !.taken = got, !.results = rest]

\* The destructors: nothing is delivered any more, unless a coroutine that
\* produces the result shares the data, which then keeps its status and handle.
Dropped(d) ==
  IF d.shared /\ d.toSend > 0 THEN [d EXCEPT !.held = FALSE, !.connected = FALSE]
  ELSE Free

\* Mutated form: a multi-result awaitable stays Suspended for the next result.
StatusAfterKept(d, last) ==
  IF d.kind = "multi" /\ ~last THEN d.status ELSE "Done"

StatusAfter(d, last) ==
  IF d.kind = "multi" /\ ~last THEN "Waiting" ELSE "Done"

\* Mutated form: every awaitable keeps only the latest result.
KeptLatest(d, n) == <<n>>

\* A single result is overwritten by a later one, several are queued.
Kept(d, n) == IF d.kind = "multi" THEN Append(d.results, n) ELSE <<n>>

-----------------------------------------------------------------------------
\* Control.

Running(c) == stack # <<>> /\ Last(stack).co = c

\* g_resumingCoro
Resuming == \E i \in DOMAIN stack : stack[i].resumed

PutOff(c) == timers' = Append(timers, c)

\* handle.resume(): the coroutine goes on with await_resume().
GoOn(c, all) ==
  /\ stack' = Append(stack, [co |-> c, resumed |-> TRUE])
  /\ frame' = [frame EXCEPT ![c] = "running"]
  /\ waits' = [waits EXCEPT ![c] = None]
  /\ data' = [all EXCEPT ![waits[c]] = Taken(@)]

resumeCoroHandle(c, all) ==
  IF Resuming
  THEN PutOff(c) /\ data' = all /\ UNCHANGED <<frame, stack, waits>>
  ELSE GoOn(c, all) /\ UNCHANGED timers

\* The frame's awaitables go with it.
WithoutFrames(cs) ==
  [w \in Awaitables |->
    IF w \in UNION {Held(c) : c \in cs} THEN Dropped(data[w]) ELSE data[w]]

-----------------------------------------------------------------------------
\* What a coroutine does.

\* initial_suspend() never suspends: it runs at once, inside its caller.
Start(c) ==
  /\ frame[c] = "none"
  /\ frame' = [frame EXCEPT ![c] = "running"]
  /\ stack' = Append(stack, [co |-> c, resumed |-> FALSE])
  /\ UNCHANGED <<waits, guards, data, timers, alive>>

\* co_yield object, or an object as the coroutine's first argument.
yield_value(c, o) ==
  /\ Running(c) /\ o \in alive \ guards[c]
  /\ guards' = [guards EXCEPT ![c] = @ \cup {o}]
  /\ UNCHANGED <<frame, stack, waits, data, timers, alive>>

\* A call that returns an awaitable.  shared: a coroutine of the library waits
\* for the answer and holds the data (begin(), load(), migrate()).
Ask(c, w, kind, receiver, shared) ==
  /\ Running(c) /\ data[w] = Free
  /\ shared => kind = "single"
  /\ data' = [data EXCEPT ![w] =
       [kind |-> kind, owner |-> c, held |-> TRUE, shared |-> shared,
        receiver |-> receiver, connected |-> receiver # None /\ kind # "open",
        handle |-> FALSE, status |-> "Waiting", results |-> <<>>,
        sent |-> 0, toSend |-> IF kind = "multi" THEN MaxResults ELSE 1, taken |-> 0]]
  /\ UNCHANGED <<frame, stack, waits, guards, timers, alive>>

\* A single result is awaited once, and none after the error that says that the
\* receiver is gone.
MayAwait(c, w) ==
  /\ Running(c) /\ w \in Held(c)
  /\ data[w].kind # "multi" => data[w].taken = 0
  /\ data[w].receiver = Gone => ReceiverGoneFirst \/ data[w].results # <<>>

AwaitReady(c, w) ==
  /\ MayAwait(c, w) /\ Ready(data[w])
  /\ data' = [data EXCEPT ![w] = Taken(@)]
  /\ UNCHANGED <<frame, stack, waits, guards, timers, alive>>

await_suspend(c, w) ==
  /\ MayAwait(c, w) /\ ~Ready(data[w])
  /\ data' = [data EXCEPT ![w].handle = TRUE, ![w].status = "Suspended",
               ![w].connected = @ \/ data[w].receiver \in Objects]
  /\ frame' = [frame EXCEPT ![c] = "suspended"]
  /\ waits' = [waits EXCEPT ![c] = w]
  /\ stack' = Front(stack)
  /\ UNCHANGED <<guards, timers, alive>>

\* The end of the expression or scope of an awaitable.
DropAwaitable(c, w) ==
  /\ Running(c) /\ w \in Held(c)
  /\ data' = [data EXCEPT ![w] = Dropped(@)]
  /\ UNCHANGED <<frame, stack, waits, guards, timers, alive>>

Finish(c) ==
  /\ Running(c)
  /\ frame' = [frame EXCEPT ![c] = "none"]
  /\ stack' = Front(stack)
  /\ guards' = [guards EXCEPT ![c] = {}]
  /\ data' = WithoutFrames({c})
  /\ UNCHANGED <<waits, timers, alive>>

-----------------------------------------------------------------------------
\* What reaches it.

\* deliver(), deliverDirect(), deliverOpen(): not once the receiver is gone, which
\* whoever delivers looks at; a coroutine that shares the data has it as receiver of
\* its own request and goes with it.
Deliver(w) ==
  /\ data[w] # Free /\ data[w].toSend > 0 /\ data[w].receiver # Gone
  /\ LET d == data[w]
         last == d.toSend = 1
         d2 == [d EXCEPT !.sent = @ + 1, !.toSend = @ - 1,
                         !.results = Kept(d, d.sent + 1),
                         !.status = StatusAfter(d, last)]
         all == [data EXCEPT ![w] = IF d.held \/ ~last THEN d2 ELSE Free]
     IN  IF d.status = "Suspended" /\ d.handle
         THEN resumeCoroHandle(d.owner, all)
         ELSE data' = all /\ UNCHANGED <<frame, stack, waits, timers>>
  /\ UNCHANGED <<guards, alive>>

TimerFires ==
  /\ stack = <<>> /\ timers # <<>>
  /\ timers' = Tail(timers)
  /\ GoOn(Head(timers), data)
  /\ UNCHANGED <<guards, alive>>

\* Those that an object takes with it: tied to it, or the handle of an awaitable
\* that has it as receiver, whatever the coroutine waits for by then.
DestroyedWith(o) ==
  {c \in Coroutines : o \in guards[c]} \cup
  {data[w].owner : w \in {v \in Used : /\ data[v].receiver = o
                                       /\ data[v].connected /\ data[v].handle}}

\* What the constants leave out.
MayDestroy(o) ==
  LET cs == DestroyedWith(o)
  IN  /\ DestroyPutOff \/ cs \cap ToSet(timers) = {}
      /\ DestroyShared \/ \A w \in Used : ~ /\ data[w].owner \in cs
                                            /\ data[w].shared /\ data[w].toSend > 0
      /\ ReceiverGoneFirst \/ \A w \in Used : ~ /\ data[w].receiver = o
                                                /\ data[w].owner \notin cs
                                                /\ data[w].held
                                                /\ data[w].toSend > 0
                                                /\ data[w].kind # "multi"

\* An awaitable whose coroutine has not waited yet is left with an error; what only a
\* coroutine of the library still holds ends with that coroutine.
Cancelled(d, o) ==
  IF d = Free \/ d.receiver # o THEN d
  ELSE IF ~d.held THEN Free
  ELSE [d EXCEPT !.receiver = Gone,
                 !.results = IF d.connected THEN <<Error>> ELSE @]

\* deleteLater(): from the event loop, where no coroutine is on the stack.
DestroyObject(o) ==
  /\ stack = <<>> /\ o \in alive /\ MayDestroy(o)
  /\ alive' = alive \ {o}
  /\ LET cs == DestroyedWith(o)
         rest == WithoutFrames(cs)
     IN  /\ frame' = [c \in Coroutines |-> IF c \in cs THEN "none" ELSE frame[c]]
         /\ waits' = [c \in Coroutines |-> IF c \in cs THEN None ELSE waits[c]]
         /\ guards' = [c \in Coroutines |-> IF c \in cs THEN {} ELSE guards[c]]
         /\ data' = [w \in Awaitables |-> Cancelled(rest[w], o)]
  /\ UNCHANGED <<stack, timers>>

CreateObject(o) ==
  /\ o \notin alive
  /\ alive' = alive \cup {o}
  /\ UNCHANGED <<frame, stack, waits, guards, data, timers>>

Next ==
  \/ \E c \in Coroutines :
       \/ Start(c)
       \/ Finish(c)
       \/ \E o \in Objects : yield_value(c, o)
       \/ \E w \in Awaitables :
            \/ \E kind \in Kinds, r \in alive \cup {None}, shared \in BOOLEAN :
                 Ask(c, w, kind, r, shared)
            \/ AwaitReady(c, w)
            \/ await_suspend(c, w)
            \/ DropAwaitable(c, w)
  \/ \E w \in Awaitables : Deliver(w)
  \/ TimerFires
  \/ \E o \in Objects : DestroyObject(o) \/ CreateObject(o)

Spec == Init /\ [][Next]_vars

-----------------------------------------------------------------------------
\* Properties.

TypeOK ==
  /\ frame \in [Coroutines -> {"none", "running", "suspended"}]
  /\ {s.co : s \in ToSet(stack)} = {c \in Coroutines : frame[c] = "running"}
  /\ waits \in [Coroutines -> Awaitables \cup {None}]
  /\ guards \in [Coroutines -> SUBSET alive]
  /\ \A w \in Used : data[w] \in Data
  /\ ToSet(timers) \subseteq Coroutines
  /\ alive \subseteq Objects

\* A coroutine is resumed only where it is suspended, and once: every timer and
\* every handle that a delivery will resume belongs to a frame that is suspended
\* on it, however requests, results and destroyed objects interleave.
ResumesLive ==
  /\ TypeOK
  /\ IsInjective(timers)
  /\ \A c \in ToSet(timers) : /\ frame[c] = "suspended"
                              /\ data[waits[c]] # Free /\ Ready(data[waits[c]])
  /\ \A w \in Used : (data[w].status = "Suspended" /\ data[w].handle) =>
       LET c == data[w].owner
       IN  /\ frame[c] = "suspended" /\ waits[c] = w
           /\ c \notin ToSet(timers)

\* No coroutine is forgotten: what a suspended one waits for is still to come, by
\* somebody who will deliver it, or a timer will resume it.
SuspendedIsAwaited ==
  \A c \in Coroutines : frame[c] = "suspended" =>
    \/ c \in ToSet(timers)
    \/ LET d == data[waits[c]]
       IN  /\ d # Free /\ d.owner = c /\ d.status = "Suspended"
           /\ d.toSend > 0 /\ d.receiver # Gone

\* As long as its frame exists, a suspended coroutine will be resumed once and where it
\* waits, and after its end never.  What may end the frame is not said here: a receiver
\* does too, see CancelledResumes.
ResumedOnce == ResumesLive /\ SuspendedIsAwaited

\* What src/README.md:233 says of a receiver: when it is destroyed the coroutine "receives
\* an error", and only an object that it was tied to by co_yield, or as the coroutine's
\* first argument, ends it while it is suspended.  The handlers of destroyed() destroy it.
CancelledResumes ==
  [][\A c \in Coroutines :
       frame[c] = "suspended" /\ frame'[c] = "none" => \E o \in guards[c] : o \notin alive']_vars

\* The results of a request are taken in the order in which they were delivered,
\* none of them is lost or taken twice, also if several arrive while the resume
\* is put off; only a destroyed receiver cuts them short.
ResultsInOrder ==
  \A w \in Used : (data[w].kind = "multi" /\ data[w].receiver # Gone) =>
    data[w].results = [i \in 1 .. data[w].sent - data[w].taken |-> data[w].taken + i]

=============================================================================
