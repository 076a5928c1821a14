-------------------------- MODULE SupervisorProofs --------------------------
(***************************************************************************)
(* The safety of the supervisor for any number of threads that tick and    *)
(* command, of commands, failures and processes, and any limit of          *)
(* restarts.                                                               *)
(*                                                                         *)
(* The argument is about where each thread stands: the step it is at       *)
(* (now), and whether a start is to follow the stop it is in (starts).     *)
(***************************************************************************)
EXTENDS Supervisor, TLAPS, SequenceTheorems

(* The steps that can come right after a step in a thread.                 *)
Timing == {"timers", "peer"}
After(step) ==
  CASE step = "shutdown" -> {"join"}
    [] step = "join" -> {"tear"}
    [] step = "tear" -> {"ended"}
    [] step \in {"stop", "ended"} -> {"start"} \cup Timing
    [] OTHER -> Timing

(* A stop that has begun is carried to its end.                            *)
Shaped(s) ==
  /\ \A i \in 1 .. Len(s) - 1 : s[i + 1] \in After(s[i])
  /\ s # <<>> => s[Len(s)] \notin {"shutdown", "join", "tear"}

First(s) == IF s = <<>> THEN "none" ELSE s[1]
Has(s, step) == \E i \in 1 .. Len(s) : s[i] = step

now == [t \in Threads |-> First(todo[t])]
starts == {w \in Workers : Has(todo[w], "start")}

Stopping == {"shutdown", "join", "tear", "ended"}
Launching == {"launch", "announce"}
Starting == starts \cup {w \in Workers : now[w] \in Launching}

TodoTyped ==
  /\ todo \in [Threads -> Seq(Steps)]
  /\ \A w \in Workers : Shaped(todo[w])

Typed == TypeOK /\ TodoTyped

(* Who stands where the mutex is held holds it.                            *)
Locked ==
  \A w \in Workers : now[w] \in Launching \cup {"tear"} => mutex = w

(* One thread at a time is in the body of stop.                            *)
OneStops ==
  /\ \A w \in Workers : now[w] \in Stopping =>
       drv.stopping /\ \A v \in Workers : now[v] \in Stopping => v = w
  /\ drv.stopping => \E w \in Workers : now[w] \in Stopping

Busy == \A w \in Workers : now[w] \in Launching => drv.state # "Idle"

(* Who is going to start is alone with stops and starts.                   *)
Alone ==
  \A w, v \in Workers :
    w \in Starting /\ v # w => v \notin Starting /\ now[v] \notin StopSteps

(* What a stop has torn down stays down until the start it belongs to.     *)
Torn ==
  \A w \in Workers :
    /\ now[w] \in {"ended", "start"} => drv.state = "Idle"
    /\ now[w] = "launch" => drv.pid = 0

(* A process that has vanished is not there.                               *)
Vain == \A w \in Workers : gone[w] # 0 => proc[gone[w]] = "none"

Known == \A p \in Pid : Live(p) => p = drv.pid

(* An error, which makes a restart a matter of nobody, stops the driver.   *)
ErrorStops ==
  drv.error => drv.stop \/ (env.exiting /\ drv.state = "Idle")

Noticed ==
  sig.state = "Closing" \/ (drv.state \in Up /\ drv.pid = 0) =>
    \/ drv.stop \/ drv.stopping
    \/ \E t \in Threads : now[t] \in {"restart", "restartLock"}

Final ==
  env.exiting =>
    /\ Starting = {}
    /\ \/ \E w \in Workers : now[w] \in StopSteps
       \/ drv.state = "Idle" /\ ~drv.restart /\ drv.error

Sane == Alone /\ Torn /\ Known /\ ErrorStops /\ Noticed /\ Final

Orderly == Locked /\ OneStops /\ IdleOwnsNothing /\ Busy /\ Vain

SupervisorInv == Typed /\ Orderly /\ (~hist.raced => Sane)
-----------------------------------------------------------------------------
(* What a thread has to do                                                 *)

(* A call puts the steps of the callee where the head was.                 *)
LEMMA Called ==
  ASSUME NEW S, NEW s \in Seq(S), s # <<>>, NEW c \in Seq(S)
  PROVE  LET r == c \o Tail(s) IN
         /\ r \in Seq(S)
         /\ Len(r) = Len(c) + Len(s) - 1
         /\ \A i \in 1 .. Len(c) : r[i] = c[i]
         /\ \A i \in 1 .. Len(r) : i > Len(c) =>
              /\ i - Len(c) + 1 \in 2 .. Len(s)
              /\ r[i] = s[i - Len(c) + 1]
<1> DEFINE t == Tail(s)
<1>1. /\ t \in Seq(S) /\ Len(t) = Len(s) - 1 /\ Len(s) \in Nat /\ Len(s) > 0
      /\ \A i \in 1 .. Len(t) : t[i] = s[i + 1]
  OBVIOUS
<1> HIDE DEF t
<1> DEFINE r == c \o t
<1>2. Len(c) \in Nat /\ Len(t) \in Nat
  BY <1>1
<1>3. r \in Seq(S) /\ Len(r) = Len(c) + Len(t)
  BY <1>1, ConcatProperties, Zenon
<1>4. \A i \in 1 .. Len(c) + Len(t) :
        r[i] = IF i <= Len(c) THEN c[i] ELSE t[i - Len(c)]
  BY <1>1, ConcatProperties
<1> HIDE DEF r
<1>5. \A i \in 1 .. Len(c) : r[i] = c[i]
  BY <1>2, <1>4
<1>6. ASSUME NEW i \in 1 .. Len(r), i > Len(c)
      PROVE  i - Len(c) + 1 \in 2 .. Len(s) /\ r[i] = s[i - Len(c) + 1]
  <2>1. i - Len(c) \in 1 .. Len(t) /\ i \in 1 .. Len(c) + Len(t) /\ ~(i <= Len(c))
    BY <1>2, <1>3, <1>6
  <2>2. t[i - Len(c)] = s[i - Len(c) + 1]
    BY <1>1, <2>1
  <2>3. r[i] = t[i - Len(c)]
    BY <1>4, <2>1
  <2> QED
    BY <1>1, <1>2, <2>1, <2>2, <2>3
<1> QED
  BY <1>1, <1>3, <1>5, <1>6 DEF r, t

(* Where in a thread a step of stop, or the start, can stand.              *)
LEMMA Where ==
  ASSUME NEW s \in Seq(Steps), Shaped(s), NEW i \in 1 .. Len(s)
  PROVE  /\ i > 1 => s[i] \in {"join", "tear", "ended", "start"} \cup Timing
         /\ s[i] = "join" => s[1] \in {"shutdown", "join"}
         /\ s[i] = "tear" => s[1] \in {"shutdown", "join", "tear"}
         /\ s[i] = "ended" => s[1] \in Stopping
         /\ s[i] = "start" => s[1] \in {"stop", "start"} \cup Stopping
         /\ s[i] = "start" /\ s[1] \in {"stop", "ended"} => i = 2
<1> DEFINE Prev(j) == s[j] \in After(s[j - 1])
<1>1. Len(s) \in Nat
  OBVIOUS
<1>2. ASSUME NEW j \in 2 .. Len(s)
      PROVE  /\ s[j] \in {"join", "tear", "ended", "start"} \cup Timing
             /\ s[j] = "join" => s[j - 1] = "shutdown"
             /\ s[j] = "tear" => s[j - 1] = "join"
             /\ s[j] = "ended" => s[j - 1] = "tear"
             /\ s[j] = "start" => s[j - 1] \in {"stop", "ended"}
  <2>1. j - 1 \in 1 .. Len(s) - 1 /\ (j - 1) + 1 = j
    BY <1>1
  <2>2. s[j] \in After(s[j - 1])
    BY <2>1 DEF Shaped
  <2> QED
    BY <2>2 DEF After, Timing
<1>3. \A j \in 1 .. Len(s) : s[j] \in {"stop", "shutdown"} => j = 1
  BY <1>1, <1>2 DEF Timing
<1>4. \A j \in 1 .. Len(s) : s[j] = "join" =>
        j = 1 \/ (j = 2 /\ s[1] = "shutdown")
  <2> SUFFICES ASSUME NEW j \in 2 .. Len(s), s[j] = "join"
               PROVE  j = 2 /\ s[1] = "shutdown"
    BY <1>1
  <2>1. s[j - 1] = "shutdown" /\ j - 1 \in 1 .. Len(s)
    BY <1>1, <1>2
  <2> QED
    BY <1>1, <1>3, <2>1
<1>5. \A j \in 1 .. Len(s) : s[j] = "tear" =>
        j = 1 \/ (j \in {2, 3} /\ s[1] \in {"shutdown", "join"})
  <2> SUFFICES ASSUME NEW j \in 2 .. Len(s), s[j] = "tear"
               PROVE  j \in {2, 3} /\ s[1] \in {"shutdown", "join"}
    BY <1>1
  <2>1. s[j - 1] = "join" /\ j - 1 \in 1 .. Len(s)
    BY <1>1, <1>2
  <2> QED
    BY <1>1, <1>4, <2>1
<1>6. \A j \in 1 .. Len(s) : s[j] = "ended" =>
        j = 1 \/ s[1] \in {"shutdown", "join", "tear"}
  <2> SUFFICES ASSUME NEW j \in 2 .. Len(s), s[j] = "ended"
               PROVE  s[1] \in {"shutdown", "join", "tear"}
    BY <1>1
  <2>1. s[j - 1] = "tear" /\ j - 1 \in 1 .. Len(s)
    BY <1>1, <1>2
  <2> QED
    BY <1>1, <1>5, <2>1
<1>7. \A j \in 1 .. Len(s) : s[j] = "start" =>
        \/ j = 1
        \/ j = 2 /\ s[1] \in {"stop", "ended"}
        \/ s[1] \in {"shutdown", "join", "tear"}
  <2> SUFFICES ASSUME NEW j \in 2 .. Len(s), s[j] = "start"
               PROVE  \/ j = 2 /\ s[1] \in {"stop", "ended"}
                      \/ s[1] \in {"shutdown", "join", "tear"}
    BY <1>1
  <2>1. s[j - 1] \in {"stop", "ended"} /\ j - 1 \in 1 .. Len(s)
    BY <1>1, <1>2
  <2> QED
    BY <1>1, <1>3, <1>6, <2>1
<1>8. i > 1 => i \in 2 .. Len(s)
  BY <1>1
<1> QED
  BY <1>2, <1>4, <1>5, <1>6, <1>7, <1>8 DEF Stopping

(* The shape survives a return, and a call whose last step can come before *)
(* whatever could come after the caller's.                                 *)
LEMMA ShapedKept ==
  ASSUME NEW s \in Seq(Steps), Shaped(s), s # <<>>,
         NEW c \in Seq(Steps), Shaped(c),
         c # <<>> => After(s[1]) \subseteq After(c[Len(c)])
  PROVE  Shaped(c \o Tail(s))
<1> DEFINE r == c \o Tail(s)
           n == Len(c)
<1>1. /\ r \in Seq(Steps) /\ Len(r) = n + Len(s) - 1 /\ n \in Nat
      /\ Len(s) \in Nat /\ Len(s) > 0
      /\ \A i \in 1 .. n : r[i] = c[i]
      /\ \A i \in 1 .. Len(r) : i > n =>
           i - n + 1 \in 2 .. Len(s) /\ r[i] = s[i - n + 1]
  BY Called
<1> HIDE DEF r
<1>2. ASSUME NEW i \in 1 .. Len(r) - 1
      PROVE  r[i + 1] \in After(r[i])
  <2>1. CASE i < n
    <3>1. r[i] = c[i] /\ r[i + 1] = c[i + 1] /\ i \in 1 .. n - 1
      BY <1>1, <2>1
    <3> QED
      BY <3>1 DEF Shaped
  <2>2. CASE i = n
    <3>1. r[i] = c[n] /\ r[i + 1] = s[2] /\ 1 \in 1 .. Len(s) - 1 /\ c # <<>>
      BY <1>1, <2>2
    <3>2. s[1 + 1] \in After(s[1])
      BY <3>1 DEF Shaped
    <3> QED
      BY <3>1, <3>2
  <2>3. CASE i > n
    <3> DEFINE k == i - n + 1
    <3>1. r[i] = s[k] /\ r[i + 1] = s[k + 1] /\ k \in 1 .. Len(s) - 1
      BY <1>1, <2>3
    <3> QED
      BY <3>1 DEF Shaped
  <2> QED
    BY <1>1, <2>1, <2>2, <2>3
<1>3. r # <<>> => r[Len(r)] \notin {"shutdown", "join", "tear"}
  <2>1. CASE Len(s) = 1
    <3>1. r # <<>> => r[Len(r)] = c[n] /\ c # <<>>
      BY <1>1, <2>1
    <3> QED
      BY <3>1 DEF Shaped
  <2>2. CASE Len(s) > 1
    <3>1. r[Len(r)] = s[Len(s)]
      BY <1>1, <2>2
    <3> QED
      BY <3>1 DEF Shaped
  <2>3. Len(s) = 1 \/ Len(s) > 1
    <3> DEFINE k == Len(s)
    <3>1. k \in Nat /\ k > 0
      BY <1>1
    <3> HIDE DEF k
    <3>2. k = 1 \/ k > 1
      BY <3>1
    <3> QED
      BY <3>2 DEF k
  <2> QED
    BY <2>1, <2>2, <2>3
<1> QED
  BY <1>2, <1>3 DEF Shaped, r

(* Where a thread stands after a call or a return.                         *)
LEMMA FirstOfCalled ==
  ASSUME NEW s \in Seq(Steps), s # <<>>, NEW c \in Seq(Steps), c # <<>>
  PROVE  First(c \o Tail(s)) = c[1]
<1>1. 1 \in 1 .. Len(c) /\ (c \o Tail(s))[1] = c[1] /\ c \o Tail(s) # <<>>
  BY Called
<1> QED
  BY <1>1 DEF First

LEMMA FirstOfReturned ==
  ASSUME NEW s \in Seq(Steps), Shaped(s), s # <<>>
  PROVE  LET n == First(<<>> \o Tail(s)) IN
         /\ n = "none" \/ n \in After(s[1])
         /\ s[1] \in {"shutdown", "join", "tear"} => n # "none"
         /\ s[1] \in {"stop", "ended"} => (n = "start" <=> Has(s, "start"))
<1> DEFINE r == <<>> \o Tail(s)
<1>1. /\ <<>> \in Seq(Steps) /\ Len(<<>>) = 0
      /\ Len(s) \in Nat /\ Len(s) > 0
  OBVIOUS
<1>2. /\ r \in Seq(Steps) /\ Len(r) = Len(s) - 1
      /\ \A i \in 1 .. Len(r) : i + 1 \in 2 .. Len(s) /\ r[i] = s[i + 1]
  BY <1>1, Called
<1> HIDE DEF r
<1>3. CASE Len(s) = 1
  <2>1. First(r) = "none"
    BY <1>2, <1>3 DEF First
  <2>2. s[1] \notin {"shutdown", "join", "tear"}
    BY <1>3 DEF Shaped
  <2>3. s[1] # "start" => ~Has(s, "start")
    BY <1>3 DEF Has
  <2> QED
    BY <2>1, <2>2, <2>3 DEF r
<1>4. CASE Len(s) # 1
  <2>1. 1 \in 1 .. Len(s) - 1 /\ 1 \in 1 .. Len(r) /\ 2 \in 1 .. Len(s)
    BY <1>1, <1>2, <1>4
  <2>2. First(r) = s[2]
    BY <1>2, <2>1 DEF First
  <2>3. s[1 + 1] \in After(s[1])
    BY <2>1 DEF Shaped
  <2>4. s[1] \in {"stop", "ended"} => (s[2] = "start" <=> Has(s, "start"))
    BY <2>1, Where DEF Has
  <2>5. s[2] # "none"
    BY <2>3 DEF After, Timing
  <2> QED
    BY <2>2, <2>3, <2>4, <2>5 DEF r
<1> QED
  BY <1>3, <1>4

(* Whether a start is to come.                                             *)
LEMMA StartAhead ==
  ASSUME NEW s \in Seq(Steps), Shaped(s), s # <<>>, NEW c \in Seq(Steps)
  PROVE  Has(c \o Tail(s), "start") <=>
           Has(c, "start") \/ (s[1] \in StopSteps /\ Has(s, "start"))
<1> DEFINE r == c \o Tail(s)
           n == Len(c)
<1>1. /\ Len(r) = n + Len(s) - 1 /\ n \in Nat
      /\ \A i \in 1 .. n : r[i] = c[i]
      /\ \A i \in 1 .. Len(r) : i > n =>
           i - n + 1 \in 2 .. Len(s) /\ r[i] = s[i - n + 1]
  BY Called
<1>2. Len(s) \in Nat /\ Len(s) > 0
  OBVIOUS
<1> HIDE DEF r
<1>3. ASSUME NEW i \in 1 .. Len(r), r[i] = "start", ~Has(c, "start")
      PROVE  s[1] \in StopSteps /\ Has(s, "start")
  <2>1. i > n
    BY <1>1, <1>2, <1>3 DEF Has
  <2> DEFINE k == i - n + 1
  <2>2. k \in 2 .. Len(s) /\ s[k] = "start"
    BY <1>1, <1>3, <2>1
  <2> HIDE DEF k
  <2>3. k \in 1 .. Len(s) /\ k > 1
    BY <1>2, <2>2
  <2>4. s[1] # "start"
    <3>1. s[k - 1] \in {"stop", "ended"} /\ k - 1 \in 1 .. Len(s)
      <4>1. k - 1 \in 1 .. Len(s) - 1 /\ (k - 1) + 1 = k
        BY <1>2, <2>3
      <4>2. s[k] \in After(s[k - 1])
        BY <4>1 DEF Shaped
      <4> QED
        BY <1>2, <2>2, <4>1, <4>2 DEF After, Timing
    <3>2. s[k - 1] = "stop" => k - 1 = 1
      <4> DEFINE j == k - 1
      <4>1. j \in 1 .. Len(s)
        BY <3>1
      <4> HIDE DEF j
      <4>2. j > 1 => s[j] \in {"join", "tear", "ended", "start"} \cup Timing
        BY <4>1, Where
      <4>3. j > 1 => s[j] # "stop"
        BY <4>2 DEF Timing
      <4>4. j = 1 \/ j > 1
        BY <1>2, <4>1
      <4> QED
        BY <4>3, <4>4 DEF j
    <3>3. s[k - 1] = "ended" => s[1] \in Stopping
      BY <3>1, Where
    <3> QED
      BY <3>1, <3>2, <3>3 DEF Stopping
  <2>5. s[1] \in {"stop", "start"} \cup Stopping
    BY <2>2, <2>3, Where
  <2> QED
    BY <2>2, <2>3, <2>4, <2>5 DEF Has, StopSteps, Stopping
<1>4. ASSUME NEW i \in 1 .. n, c[i] = "start"
      PROVE  Has(r, "start")
  <2>1. i \in 1 .. Len(r)
    BY <1>1, <1>2
  <2> QED
    BY <1>1, <1>4, <2>1 DEF Has
<1>5. ASSUME NEW i \in 1 .. Len(s), s[i] = "start", s[1] \in StopSteps
      PROVE  Has(r, "start")
  <2>1. i - 1 + n \in 1 .. Len(r) /\ i - 1 + n > n
    BY <1>1, <1>2, <1>5 DEF StopSteps
  <2>2. (i - 1 + n) - n + 1 = i
    BY <1>1
  <2>3. r[i - 1 + n] = s[i]
    BY <1>1, <2>1, <2>2
  <2> QED
    BY <1>5, <2>1, <2>3 DEF Has
<1>6. Has(r, "start") => Has(c, "start") \/ (s[1] \in StopSteps /\ Has(s, "start"))
  BY <1>3 DEF Has
<1>7. Has(c, "start") => Has(r, "start")
  BY <1>4 DEF Has
<1>8. s[1] \in StopSteps /\ Has(s, "start") => Has(r, "start")
  BY <1>5 DEF Has
<1> QED
  BY <1>6, <1>7, <1>8 DEF r

-----------------------------------------------------------------------------
(* Threads that go on: the state functions now and starts after a step     *)

LEMMA Projections ==
  ASSUME TodoTyped
  PROVE  /\ \A t \in Threads : now[t] = First(todo[t])
         /\ \A w \in Workers :
              /\ w \in Threads
              /\ w \in starts <=> Has(todo[w], "start")
         /\ starts \subseteq Workers
BY DEF now, starts, Threads

(* What a thread at a given step does is what it is at and what is ahead.  *)
LEMMA AtNow ==
  ASSUME TodoTyped, NEW t \in Threads
  PROVE  /\ todo[t] = <<>> <=> now[t] = "none"
         /\ todo[t] # <<>> => now[t] = todo[t][1]
         /\ \A step \in Steps : At(t, step) <=> now[t] = step
<1>1. now[t] = First(todo[t])
  BY Projections
<1>2. todo[t] \in Seq(Steps)
  BY DEF TodoTyped
<1>3. todo[t] # <<>> => Head(todo[t]) = todo[t][1] /\ todo[t][1] \in Steps
  BY <1>2
<1>4. "none" \notin Steps
  BY DEF Steps
<1> QED
  BY <1>1, <1>3, <1>4 DEF First, At

LEMMA DoesNow ==
  ASSUME TodoTyped, NEW w \in Workers
  PROVE  /\ Does(w, StopSteps) <=> now[w] \in StopSteps
         /\ Does(w, StartSteps) <=> w \in Starting
         /\ Does(w, StopSteps \cup StartSteps) <=>
              now[w] \in StopSteps \/ w \in Starting
<1> DEFINE s == todo[w]
<1>1. /\ s \in Seq(Steps) /\ Shaped(s) /\ now[w] = First(s)
      /\ w \in starts <=> Has(s, "start")
  BY Projections DEF TodoTyped, Threads
<1> HIDE DEF s
<1>2. /\ s = <<>> => Len(s) = 0 /\ First(s) = "none"
      /\ s # <<>> => 1 \in 1 .. Len(s) /\ First(s) = s[1]
  BY <1>1 DEF First
<1>3. "none" \notin StopSteps \cup Launching
  BY DEF StopSteps, Launching
<1>4. \A i \in 1 .. Len(s) : s[i] \in StopSteps => s[1] \in StopSteps /\ s # <<>>
  <2> SUFFICES ASSUME NEW i \in 1 .. Len(s), s[i] \in StopSteps
               PROVE  s[1] \in StopSteps /\ s # <<>>
    OBVIOUS
  <2>1. i = 1 \/ i > 1
    BY <1>1
  <2> QED
    BY <1>1, <1>2, <2>1, Where DEF StopSteps, Stopping, Timing
<1>5. \A i \in 1 .. Len(s) : s[i] \in Launching => s[1] \in Launching /\ s # <<>>
  <2> SUFFICES ASSUME NEW i \in 1 .. Len(s), s[i] \in Launching
               PROVE  s[1] \in Launching /\ s # <<>>
    OBVIOUS
  <2>1. i = 1 \/ i > 1
    BY <1>1
  <2> QED
    BY <1>1, <1>2, <2>1, Where DEF Launching, Timing
<1>6. Does(w, StopSteps) <=> now[w] \in StopSteps
  BY <1>1, <1>2, <1>3, <1>4 DEF Does, s
<1>7. Does(w, StartSteps) <=> w \in starts \/ now[w] \in Launching
  BY <1>1, <1>2, <1>3, <1>5 DEF Does, Has, StartSteps, Launching, s
<1>8. Does(w, StopSteps \cup StartSteps) <=> Does(w, StopSteps) \/ Does(w, StartSteps)
  BY DEF Does
<1> QED
  BY <1>6, <1>7, <1>8 DEF Starting

(* A step of one thread that replaces what it has to do.                   *)
LEMMA Replaced ==
  ASSUME TodoTyped, NEW t \in Threads, NEW r \in Seq(Steps),
         t \in Workers => Shaped(r),
         todo' = [todo EXCEPT ![t] = r]
  PROVE  /\ TodoTyped'
         /\ now' = [now EXCEPT ![t] = First(r)]
         /\ starts' = IF t \in Workers /\ Has(r, "start")
                      THEN starts \cup {t} ELSE starts \ {t}
<1>1. todo \in [Threads -> Seq(Steps)] /\ todo' \in [Threads -> Seq(Steps)]
  BY DEF TodoTyped
<1>2. todo'[t] = r /\ \A u \in Threads : u # t => todo'[u] = todo[u]
  BY <1>1
<1>3. TodoTyped'
  BY <1>1, <1>2 DEF TodoTyped, Threads
<1>4. now' = [now EXCEPT ![t] = First(r)]
  <2>1. now' = [u \in Threads |-> First(todo'[u])]
    BY DEF now
  <2>2. \A u \in Threads :
          First(todo'[u]) = IF u = t THEN First(r) ELSE First(todo[u])
    BY <1>2
  <2>3. now' = [u \in Threads |-> IF u = t THEN First(r) ELSE First(todo[u])]
    BY <2>1, <2>2
  <2> QED
    BY <2>3 DEF now
<1>5. starts' = {w \in Workers : Has(todo'[w], "start")}
  BY DEF starts
<1>6. \A w \in Workers : w # t => (Has(todo'[w], "start") <=> Has(todo[w], "start"))
  BY <1>2 DEF Threads
<1>7. starts' = IF t \in Workers /\ Has(r, "start")
                THEN starts \cup {t} ELSE starts \ {t}
  BY <1>2, <1>5, <1>6 DEF starts
<1> QED
  BY <1>3, <1>4, <1>7

(* A start is ahead only in a stop that is to be followed by it.           *)
LEMMA StartsAt ==
  ASSUME TodoTyped, NEW w \in starts
  PROVE  w \in Workers /\ now[w] \in StopSteps \cup {"start"}
<1>1. w \in Workers /\ Has(todo[w], "start")
  BY DEF starts
<1>2. todo[w] \in Seq(Steps) /\ Shaped(todo[w]) /\ w \in Threads
  BY <1>1 DEF TodoTyped, Threads
<1>3. PICK i \in 1 .. Len(todo[w]) : todo[w][i] = "start"
  BY <1>1 DEF Has
<1>4. todo[w] # <<>>
  BY <1>3
<1>5. now[w] = todo[w][1]
  BY <1>2, <1>4, AtNow
<1> QED
  BY <1>1, <1>2, <1>3, <1>5, Where DEF StopSteps, Stopping

LEMMA Calls ==
  ASSUME TodoTyped, NEW w \in Workers, now[w] # "none",
         NEW c \in Seq(Steps), c # <<>>, Shaped(c),
         After(now[w]) \subseteq After(c[Len(c)]),
         Goes(w, c)
  PROVE  /\ TodoTyped'
         /\ now' = [now EXCEPT ![w] = c[1]]
         /\ starts' = IF Has(c, "start") \/ (now[w] \in StopSteps /\ w \in starts)
                      THEN starts \cup {w} ELSE starts \ {w}
<1> DEFINE s == todo[w]
           r == c \o Tail(s)
<1>1. w \in Threads /\ s \in Seq(Steps) /\ Shaped(s)
  BY DEF TodoTyped, Threads
<1>2. s # <<>> /\ now[w] = s[1]
  BY <1>1, AtNow
<1>3. todo' = [todo EXCEPT ![w] = r]
  BY DEF Goes
<1>4. w \in starts <=> Has(s, "start")
  BY DEF starts
<1> HIDE DEF s
<1>5. r \in Seq(Steps) /\ Shaped(r)
  BY <1>1, <1>2, Called, ShapedKept
<1>6. First(r) = c[1]
  BY <1>1, <1>2, FirstOfCalled
<1>7. Has(r, "start") <=> Has(c, "start") \/ (s[1] \in StopSteps /\ Has(s, "start"))
  BY <1>1, <1>2, StartAhead
<1> HIDE DEF r
<1>8. /\ TodoTyped' /\ now' = [now EXCEPT ![w] = First(r)]
      /\ starts' = IF w \in Workers /\ Has(r, "start")
                   THEN starts \cup {w} ELSE starts \ {w}
  BY <1>1, <1>3, <1>5, Replaced
<1> QED
  BY <1>2, <1>4, <1>6, <1>7, <1>8

LEMMA Returning ==
  ASSUME TodoTyped, NEW w \in Workers, now[w] # "none", Returns(w)
  PROVE  LET n == now'[w] IN
         /\ TodoTyped'
         /\ now' = [now EXCEPT ![w] = n]
         /\ n = "none" \/ n \in After(now[w])
         /\ now[w] \in {"shutdown", "join", "tear"} => n # "none"
         /\ now[w] \in {"stop", "ended"} => (n = "start" <=> w \in starts)
         /\ starts' = IF now[w] \in StopSteps THEN starts ELSE starts \ {w}
<1> DEFINE s == todo[w]
           r == <<>> \o Tail(s)
<1>1. w \in Threads /\ s \in Seq(Steps) /\ Shaped(s) /\ <<>> \in Seq(Steps)
  BY DEF TodoTyped, Threads
<1>2. s # <<>> /\ now[w] = s[1]
  BY <1>1, AtNow
<1>3. todo' = [todo EXCEPT ![w] = r]
  BY DEF Returns, Goes
<1>4. w \in starts <=> Has(s, "start")
  BY DEF starts
<1> HIDE DEF s
<1>5. Shaped(<<>>) /\ ~Has(<<>>, "start")
  BY DEF Shaped, Has
<1>6. r \in Seq(Steps) /\ Shaped(r)
  BY <1>1, <1>2, <1>5, Called, ShapedKept
<1>7. /\ First(r) = "none" \/ First(r) \in After(s[1])
      /\ s[1] \in {"shutdown", "join", "tear"} => First(r) # "none"
      /\ s[1] \in {"stop", "ended"} => (First(r) = "start" <=> Has(s, "start"))
  BY <1>1, <1>2, FirstOfReturned
<1>8. Has(r, "start") <=> s[1] \in StopSteps /\ Has(s, "start")
  BY <1>1, <1>2, <1>5, StartAhead
<1> HIDE DEF r
<1>9. /\ TodoTyped' /\ now' = [now EXCEPT ![w] = First(r)]
      /\ starts' = IF w \in Workers /\ Has(r, "start")
                   THEN starts \cup {w} ELSE starts \ {w}
  BY <1>1, <1>3, <1>6, Replaced
<1>10. now'[w] = First(r)
  BY <1>1, <1>9 DEF now
<1> QED
  BY <1>2, <1>4, <1>7, <1>8, <1>9, <1>10

Plain == Steps \ {"shutdown", "join", "tear", "start"}

LEMMA CallsOne ==
  ASSUME TodoTyped, NEW w \in Workers, now[w] \notin StopSteps \cup {"none"},
         NEW step \in Plain, Goes(w, <<step>>)
  PROVE  /\ TodoTyped'
         /\ now' = [now EXCEPT ![w] = step]
         /\ starts' = starts \ {w}
<1> DEFINE c == <<step>>
<1>1. /\ c \in Seq(Steps) /\ c # <<>> /\ Len(c) = 1 /\ c[1] = step
      /\ step \notin {"shutdown", "join", "tear", "start"}
  BY DEF Plain
<1>2. Goes(w, c)
  OBVIOUS
<1> HIDE DEF c
<1>3. Shaped(c) /\ ~Has(c, "start")
  BY <1>1 DEF Shaped, Has
<1>4. After(now[w]) \subseteq After(c[Len(c)])
  BY <1>1 DEF After, StopSteps, Timing
<1> QED
  BY <1>1, <1>2, <1>3, <1>4, Calls

LEMMA CallsStart ==
  ASSUME TodoTyped, NEW w \in Workers, now[w] \notin StopSteps \cup {"none"},
         Goes(w, <<"stop", "start">>)
  PROVE  /\ TodoTyped'
         /\ now' = [now EXCEPT ![w] = "stop"]
         /\ starts' = starts \cup {w}
<1> DEFINE c == <<"stop", "start">>
<1>1. /\ c \in Seq(Steps) /\ c # <<>> /\ Len(c) = 2
      /\ c[1] = "stop" /\ c[2] = "start"
  BY DEF Steps
<1>2. Goes(w, c)
  OBVIOUS
<1> HIDE DEF c
<1>3. Shaped(c) /\ Has(c, "start")
  BY <1>1 DEF Shaped, Has, After
<1>4. After(now[w]) \subseteq After(c[Len(c)])
  BY <1>1 DEF After, StopSteps, Timing
<1> QED
  BY <1>1, <1>2, <1>3, <1>4, Calls

LEMMA CallsStop ==
  ASSUME TodoTyped, NEW w \in Workers, now[w] = "stop",
         Goes(w, <<"shutdown", "join", "tear", "ended">>)
  PROVE  /\ TodoTyped'
         /\ now' = [now EXCEPT ![w] = "shutdown"]
         /\ starts' = starts
<1> DEFINE c == <<"shutdown", "join", "tear", "ended">>
<1>1. /\ c \in Seq(Steps) /\ c # <<>> /\ Len(c) = 4
      /\ c[1] = "shutdown" /\ c[2] = "join" /\ c[3] = "tear" /\ c[4] = "ended"
  BY DEF Steps
<1>2. Goes(w, c)
  OBVIOUS
<1> HIDE DEF c
<1>3. \A i \in 1 .. 4 : i = 1 \/ i = 2 \/ i = 3 \/ i = 4
  OBVIOUS
<1>4. \A i \in 1 .. Len(c) - 1 : c[i + 1] \in After(c[i])
  BY <1>1 DEF After
<1>5. Shaped(c) /\ ~Has(c, "start")
  BY <1>1, <1>3, <1>4 DEF Shaped, Has
<1>6. After(now[w]) \subseteq After(c[Len(c)])
  BY <1>1 DEF After
<1>7. now[w] # "none" /\ now[w] \in StopSteps
  BY DEF StopSteps
<1>8. /\ TodoTyped'
      /\ now' = [now EXCEPT ![w] = c[1]]
      /\ starts' = IF Has(c, "start") \/ (now[w] \in StopSteps /\ w \in starts)
                   THEN starts \cup {w} ELSE starts \ {w}
  BY <1>1, <1>2, <1>5, <1>6, <1>7, Calls
<1>9. starts' = starts
  <2> DEFINE in == w \in starts
  <2>1. CASE in
    BY <1>5, <1>7, <1>8, <2>1
  <2>2. CASE ~in
    BY <1>5, <1>8, <2>2
  <2> QED
    BY <2>1, <2>2
<1> QED
  BY <1>1, <1>8, <1>9

(* A thread that was waiting begins.                                       *)
LEMMA Begins ==
  ASSUME TodoTyped, NEW w \in Workers,
         NEW r \in Seq(Steps), Shaped(r), ~Has(r, "start"),
         now[w] = "none", todo' = [todo EXCEPT ![w] = r]
  PROVE  /\ TodoTyped'
         /\ now' = [now EXCEPT ![w] = First(r)]
         /\ starts' = starts
<1>1. w \in Threads
  BY DEF Threads
<1>2. /\ TodoTyped' /\ now' = [now EXCEPT ![w] = First(r)]
      /\ starts' = starts \ {w}
  BY <1>1, Replaced
<1>3. w \notin starts
  BY StartsAt DEF StopSteps
<1> QED
  BY <1>2, <1>3

(* The signalling thread has no part in stops and starts.                  *)
LEMMA SigGoes ==
  ASSUME TodoTyped, NEW r \in Seq(Steps), todo' = [todo EXCEPT ![Sig] = r]
  PROVE  /\ TodoTyped'
         /\ now' = [now EXCEPT ![Sig] = First(r)]
         /\ starts' = starts
<1>1. Sig \in Threads /\ Sig \notin Workers
  BY SupervisorAssumption DEF Threads
<1>2. /\ TodoTyped' /\ now' = [now EXCEPT ![Sig] = First(r)]
      /\ starts' = starts \ {Sig}
  BY <1>1, Replaced
<1>3. Sig \notin starts
  BY <1>1 DEF starts
<1> QED
  BY <1>2, <1>3

LEMMA SigCalls ==
  ASSUME TodoTyped, now[Sig] # "none", NEW c \in Seq(Steps), Goes(Sig, c)
  PROVE  /\ TodoTyped'
         /\ now' = [now EXCEPT ![Sig] = now'[Sig]]
         /\ c # <<>> => now'[Sig] = c[1]
         /\ starts' = starts
<1> DEFINE s == todo[Sig]
           r == c \o Tail(s)
<1>1. Sig \in Threads /\ s \in Seq(Steps)
  BY DEF TodoTyped, Threads
<1>2. s # <<>>
  BY <1>1, AtNow
<1>3. todo' = [todo EXCEPT ![Sig] = r]
  BY DEF Goes
<1> HIDE DEF s
<1>4. r \in Seq(Steps)
  BY <1>1, <1>2, Called
<1>5. c # <<>> => First(r) = c[1]
  BY <1>1, <1>2, FirstOfCalled
<1> HIDE DEF r
<1>6. TodoTyped' /\ now' = [now EXCEPT ![Sig] = First(r)] /\ starts' = starts
  BY <1>3, <1>4, SigGoes
<1>7. now'[Sig] = First(r)
  BY <1>1, <1>6 DEF now
<1> QED
  BY <1>5, <1>6, <1>7

-----------------------------------------------------------------------------
(* Steps that have no part in a stop or a start                            *)

LEMMA NowType ==
  ASSUME TodoTyped
  PROVE  now \in [Threads -> Steps \cup {"none"}]
<1>1. \A t \in Threads : now[t] \in Steps \cup {"none"}
  BY AtNow DEF TodoTyped
<1> QED
  BY <1>1 DEF now

Critical == StopSteps \cup Launching \cup {"start"}

(* A step that moves nobody into, out of or within a stop or a start, but  *)
(* for the words with mbts before the stop proper; forgets a process at    *)
(* most, and makes nobody live; raises an error only with a stop.          *)
Quiet ==
  /\ starts' = starts
  /\ \A w \in Workers :
       \/ now'[w] = now[w]
       \/ now[w] \notin Critical /\ now'[w] \notin Critical
       \/ now[w] = "shutdown" /\ now'[w] = "join"
  /\ mutex' = mutex /\ sock' = sock
  /\ drv'.stopping = drv.stopping
  /\ drv'.state = "Idle" <=> drv.state = "Idle"
  /\ drv'.pid = drv.pid \/ drv'.pid = 0
  /\ sig'.state = "Idle" <=> sig.state = "Idle"
  /\ sig'.thread => sig.thread
  /\ env'.exiting = env.exiting
  /\ hist'.raced = hist.raced
  /\ drv.stop => drv'.stop
  /\ drv'.error => drv.error \/ drv'.stop
  /\ drv.error => drv'.error /\ (drv'.restart => drv.restart)
  /\ \A p \in Pid : Live(p)' => Live(p) /\ (p = drv.pid => drv'.pid = drv.pid)

LEMMA QuietInv ==
  ASSUME SupervisorInv, Quiet, TypeOK', TodoTyped', Vain',
         ~hist.raced => Noticed'
  PROVE  SupervisorInv'
<1>1. Typed'
  BY DEF Typed
<1>2. Starting' = Starting
  BY DEF Quiet, Starting, Critical, Launching, StopSteps
<1>3. \A w \in Workers :
        /\ now'[w] \in Stopping <=> now[w] \in Stopping
        /\ now'[w] \in StopSteps <=> now[w] \in StopSteps
        /\ \A step \in Launching \cup {"tear", "ended", "start"} :
             now'[w] = step <=> now[w] = step
  BY DEF Quiet, Critical, Launching, StopSteps, Stopping
<1>4. Locked'
  BY <1>3 DEF SupervisorInv, Orderly, Locked, Quiet
<1>5. OneStops'
  BY <1>3 DEF SupervisorInv, Orderly, OneStops, Quiet
<1>6. IdleOwnsNothing'
  BY DEF SupervisorInv, Orderly, IdleOwnsNothing, Quiet
<1>7. Busy'
  BY <1>3 DEF SupervisorInv, Orderly, Busy, Quiet
<1>8. ASSUME ~hist.raced
      PROVE  Sane'
  <2>1. Sane
    BY <1>8 DEF SupervisorInv
  <2>2. Alone'
    BY <1>2, <1>3, <2>1 DEF Sane, Alone
  <2>3. Torn'
    BY <1>3, <2>1 DEF Sane, Torn, Quiet, Launching
  <2>4. Known'
    BY <2>1 DEF Sane, Known, Quiet
  <2>5. ErrorStops'
    BY <2>1 DEF Sane, ErrorStops, Quiet
  <2>6. Final'
    BY <1>2, <1>3, <2>1 DEF Sane, Final, Quiet
  <2> QED
    BY <1>8, <2>2, <2>3, <2>4, <2>5, <2>6 DEF Sane
<1> QED
  BY <1>1, <1>4, <1>5, <1>6, <1>7, <1>8 DEF SupervisorInv, Orderly, Quiet

(* A process that has gone is noticed as long as nobody who asks for a     *)
(* restart goes away.                                                      *)
LEMMA StillNoticed ==
  ASSUME Noticed, NEW t \in Threads,
         now' = [now EXCEPT ![t] = now'[t]], now \in [Threads -> Steps \cup {"none"}],
         now[t] \in {"restart", "restartLock"} =>
           \/ drv'.stop \/ drv'.stopping
           \/ now'[t] \in {"restart", "restartLock"},
         drv.stop => drv'.stop, drv'.stopping = drv.stopping,
         sig'.state = "Closing" => sig.state = "Closing",
         drv'.state \in Up /\ drv'.pid = 0 => drv.state \in Up /\ drv.pid = 0
  PROVE  Noticed'
<1>1. \A u \in Threads : u # t => now'[u] = now[u]
  OBVIOUS
<1> QED
  BY <1>1 DEF Noticed

LEMMA Bounds ==
  /\ MaxRestart \in Nat /\ MaxPid \in Nat /\ MaxCmd \in Nat /\ MaxFail \in Nat
  /\ 0 \in 0 .. MaxRestart /\ 0 \in 0 .. MaxPid
  /\ Pid \subseteq 0 .. MaxPid
BY SupervisorAssumption DEF Pid

LEMMA EnvCounts ==
  ASSUME TypeOK
  PROVE  /\ env.cmds < MaxCmd =>
              [env EXCEPT !.cmds = @ + 1] \in
                [exiting: {env.exiting}, cmds: 0 .. MaxCmd, fails: 0 .. MaxFail]
         /\ env.cmds < MaxCmd =>
              [env EXCEPT !.exiting = TRUE, !.cmds = @ + 1] \in
                [exiting: {TRUE}, cmds: 0 .. MaxCmd, fails: 0 .. MaxFail]
         /\ Failing =>
              [env EXCEPT !.fails = @ + 1] \in
                [exiting: {env.exiting}, cmds: 0 .. MaxCmd, fails: 0 .. MaxFail]
<1>1. env \in [exiting: BOOLEAN, cmds: 0 .. MaxCmd, fails: 0 .. MaxFail]
  BY DEF TypeOK
<1>2. MaxCmd \in Nat /\ MaxFail \in Nat
  BY Bounds
<1>3. env.cmds < MaxCmd => env.cmds + 1 \in 0 .. MaxCmd
  BY <1>1, <1>2
<1>4. Failing => env.fails + 1 \in 0 .. MaxFail
  BY <1>1, <1>2 DEF Failing
<1> QED
  BY <1>1, <1>3, <1>4

LEMMA TickInv ==
  ASSUME SupervisorInv, NEW w \in Workers, Tick(w)
  PROVE  SupervisorInv'
<1> DEFINE a == IF drv.stop THEN <<"checkStop">>
                ELSE IF drv.restart THEN <<"checkRestart">> ELSE <<>>
           b == <<"timers", "peer">>
           r == a \o b
<1>1. TodoTyped /\ w \in Threads /\ now[w] = "none"
  BY AtNow DEF SupervisorInv, Typed, Tick, Threads
<1>2. /\ r \in Seq(Steps) /\ Len(r) \in {2, 3}
      /\ r[1] \in {"checkStop", "checkRestart", "timers"}
      /\ \A i \in 2 .. Len(r) : r[i] \in Timing
      /\ r[Len(r)] = "peer"
  BY DEF Steps, Timing
<1>3. todo' = [todo EXCEPT ![w] = r]
  BY DEF Tick
<1> HIDE DEF r
<1>4. Shaped(r)
  <2>1. ASSUME NEW i \in 1 .. Len(r) - 1 PROVE r[i + 1] \in Timing
    <3>1. i + 1 \in 2 .. Len(r)
      BY <1>2
    <3> QED
      BY <1>2, <3>1
  <2>2. ASSUME NEW i \in 1 .. Len(r) - 1
        PROVE  r[i] \in {"checkStop", "checkRestart"} \cup Timing
    <3>1. i = 1 \/ i \in 2 .. Len(r)
      BY <1>2
    <3> QED
      BY <1>2, <3>1 DEF Timing
  <2> QED
    BY <1>2, <2>1, <2>2 DEF Shaped, After, Timing
<1>5. ~Has(r, "start")
  BY <1>2 DEF Has, Timing
<1>6. TodoTyped' /\ now' = [now EXCEPT ![w] = First(r)] /\ starts' = starts
  BY <1>1, <1>2, <1>3, <1>4, <1>5, Begins
<1>7. First(r) \in {"checkStop", "checkRestart", "timers"}
  BY <1>2 DEF First
<1>8. now \in [Threads -> Steps \cup {"none"}] /\ Workers \subseteq Threads
  BY <1>1, NowType DEF Threads
<1>9. UNCHANGED <<drv, sig, mutex, sock, inbox, proc, gone, env, hist>>
  BY DEF Tick
<1>10. Quiet
  BY <1>1, <1>6, <1>7, <1>8, <1>9 DEF Quiet, Critical, Launching, StopSteps, Live
<1>11. TypeOK' /\ Vain'
  BY <1>6, <1>9 DEF SupervisorInv, Typed, TypeOK, TodoTyped, Orderly, Vain
<1>12. ~hist.raced => Noticed'
  BY <1>1, <1>6, <1>7, <1>8, <1>9, StillNoticed DEF SupervisorInv, Sane
<1> QED
  BY <1>6, <1>10, <1>11, <1>12, QuietInv

LEMMA CommandInv ==
  ASSUME SupervisorInv, NEW w \in Workers, Command(w)
  PROVE  SupervisorInv'
<1>1. TodoTyped /\ w \in Threads /\ now[w] = "none"
  BY AtNow DEF SupervisorInv, Typed, Command, Threads
<1>2. PICK c \in {"cmdStart", "cmdStop", "cmdRestart"} :
        todo' = [todo EXCEPT ![w] = <<c>>]
  BY DEF Command
<1> DEFINE r == <<c>>
<1>3. r \in Seq(Steps) /\ Len(r) = 1 /\ r[1] = c /\ r # <<>>
  BY DEF Steps
<1>4. todo' = [todo EXCEPT ![w] = r]
  BY <1>2
<1> HIDE DEF r
<1>5. Shaped(r) /\ ~Has(r, "start") /\ First(r) = c
  BY <1>3 DEF Shaped, Has, First
<1>6. TodoTyped' /\ now' = [now EXCEPT ![w] = c] /\ starts' = starts
  BY <1>1, <1>3, <1>4, <1>5, Begins
<1>7. now \in [Threads -> Steps \cup {"none"}] /\ Workers \subseteq Threads
  BY <1>1, NowType DEF Threads
<1>8. UNCHANGED <<drv, sig, mutex, sock, inbox, proc, gone, hist>>
  BY DEF Command
<1>9. env' \in [exiting: {env.exiting}, cmds: 0 .. MaxCmd, fails: 0 .. MaxFail]
  BY EnvCounts DEF Command, SupervisorInv, Typed
<1>10. Quiet
  BY <1>1, <1>6, <1>7, <1>8, <1>9 DEF Quiet, Critical, Launching, StopSteps, Live
<1>11. TypeOK' /\ Vain'
  BY <1>6, <1>8, <1>9 DEF SupervisorInv, Typed, TypeOK, TodoTyped, Orderly, Vain
<1>12. ~hist.raced => Noticed'
  BY <1>1, <1>6, <1>7, <1>8, StillNoticed DEF SupervisorInv, Sane
<1> QED
  BY <1>6, <1>10, <1>11, <1>12, QuietInv

(* What every step of a thread starts from.                                *)
LEMMA Standing ==
  ASSUME SupervisorInv, NEW w \in Workers
  PROVE  /\ TodoTyped /\ TypeOK /\ w \in Threads
         /\ now \in [Threads -> Steps \cup {"none"}] /\ Workers \subseteq Threads
         /\ \A step \in Steps : At(w, step) <=> now[w] = step
         /\ todo[w] = <<>> <=> now[w] = "none"
BY AtNow, NowType DEF SupervisorInv, Typed, Threads

LEMMA CmdStartStopInv ==
  ASSUME SupervisorInv, NEW w \in Workers, CmdStartStop(w)
  PROVE  SupervisorInv'
<1>1. PICK command \in {"cmdStart", "cmdStop", "cmdRestart"},
           stopped \in BOOLEAN,
           call \in {"startIdle", "fatal", "restart"} :
        Commanded(w, command, stopped, call)
  BY DEF CmdStartStop
<1>2. /\ At(w, command)
      /\ drv' = [drv EXCEPT !.stopped = stopped, !.index = 0]
      /\ Goes(w, <<call>>)
  BY <1>1 DEF Commanded
<1>3. /\ now[w] = command /\ TodoTyped /\ w \in Threads
      /\ now \in [Threads -> Steps \cup {"none"}] /\ Workers \subseteq Threads
  BY <1>2, Standing DEF Steps
<1>4. call \in Plain /\ now[w] \notin StopSteps \cup {"none", "start"}
  BY <1>3 DEF Plain, Steps, StopSteps
<1>5. w \notin starts
  BY <1>3, <1>4, StartsAt
<1>6. TodoTyped' /\ now' = [now EXCEPT ![w] = call] /\ starts' = starts
  BY <1>2, <1>3, <1>4, <1>5, CallsOne
<1>7. UNCHANGED <<sig, mutex, sock, inbox, proc, gone, env, hist>>
  BY DEF CmdStartStop
<1>8. /\ TypeOK'
      /\ drv'.state = drv.state /\ drv'.pid = drv.pid /\ drv'.stop = drv.stop
      /\ drv'.stopping = drv.stopping /\ drv'.error = drv.error
      /\ drv'.restart = drv.restart
  BY <1>2, <1>6, <1>7, Bounds DEF SupervisorInv, Typed, TypeOK, TodoTyped
<1>9. Quiet
  BY <1>3, <1>6, <1>7, <1>8 DEF Quiet, Critical, Launching, StopSteps, Live
<1>10. Vain'
  BY <1>7 DEF SupervisorInv, Orderly, Vain
<1>11. ~hist.raced => Noticed'
  BY <1>3, <1>6, <1>7, <1>8, StillNoticed DEF SupervisorInv, Sane
<1> QED
  BY <1>6, <1>8, <1>9, <1>10, <1>11, QuietInv

LEMMA ReturningAside ==
  ASSUME SupervisorInv, NEW w \in Workers, now[w] \notin Critical \cup {"none"},
         Returns(w)
  PROVE  /\ TodoTyped' /\ starts' = starts
         /\ now' = [now EXCEPT ![w] = now'[w]]
         /\ now'[w] \in Timing \cup {"none"}
<1>1. TodoTyped /\ now[w] \notin StopSteps \cup {"none", "start"}
  BY Standing DEF Critical
<1>2. w \notin starts
  BY <1>1, StartsAt
<1>3. After(now[w]) = Timing
  BY <1>1 DEF After, StopSteps
<1> QED
  BY <1>1, <1>2, <1>3, Returning

LEMMA CallingAside ==
  ASSUME SupervisorInv, NEW w \in Workers, now[w] \notin Critical \cup {"none"},
         NEW step \in Plain, Goes(w, <<step>>)
  PROVE  /\ TodoTyped' /\ starts' = starts
         /\ now' = [now EXCEPT ![w] = step]
<1>1. TodoTyped /\ now[w] \notin StopSteps \cup {"none", "start"}
  BY Standing DEF Critical
<1>2. w \notin starts
  BY <1>1, StartsAt
<1> QED
  BY <1>1, <1>2, CallsOne

(* Nothing is due, found or to be done.                                    *)
LEMMA AsideInv ==
  ASSUME SupervisorInv, NEW w \in Workers,
         now[w] \notin Critical \cup {"none", "restart", "restartLock"}, Returns(w),
         UNCHANGED <<sig, mutex, sock, inbox, proc, env, hist>>,
         drv' = drv \/ drv' = [drv EXCEPT !.restart = @ /\ drv.timed],
         gone' = gone \/ gone' = [gone EXCEPT ![w] = 0]
  PROVE  SupervisorInv'
<1>1. /\ TodoTyped /\ w \in Threads
      /\ now \in [Threads -> Steps \cup {"none"}] /\ Workers \subseteq Threads
  BY Standing
<1>2. /\ TodoTyped' /\ starts' = starts
      /\ now' = [now EXCEPT ![w] = now'[w]]
      /\ now'[w] \in Timing \cup {"none"}
  BY ReturningAside
<1>3. drv \in [state: DriverStates, stopped: BOOLEAN, error: BOOLEAN, stop: BOOLEAN,
               restart: BOOLEAN, timed: BOOLEAN, index: 0..MaxRestart,
               stopping: BOOLEAN, pid: 0..MaxPid]
  BY Standing DEF TypeOK
<1>4. /\ drv' \in [state: DriverStates, stopped: BOOLEAN, error: BOOLEAN, stop: BOOLEAN,
                   restart: BOOLEAN, timed: BOOLEAN, index: 0..MaxRestart,
                   stopping: BOOLEAN, pid: 0..MaxPid]
      /\ drv'.state = drv.state /\ drv'.pid = drv.pid /\ drv'.stop = drv.stop
      /\ drv'.stopping = drv.stopping /\ drv'.error = drv.error
      /\ drv'.restart => drv.restart
  BY <1>3
<1>5. gone' \in [Workers -> 0 .. MaxPid] /\ Vain'
  <2>1. gone \in [Workers -> 0 .. MaxPid] /\ 0 \in 0 .. MaxPid
    BY Standing, Bounds DEF TypeOK
  <2>2. gone' \in [Workers -> 0 .. MaxPid] /\ \A v \in Workers : gone'[v] \in {0, gone[v]}
    BY <2>1
  <2> QED
    BY <2>2 DEF SupervisorInv, Orderly, Vain
<1>6. TypeOK'
  <2>1. TypeOK
    BY Standing
  <2> QED
    BY <1>2, <1>4, <1>5, <2>1 DEF TypeOK, TodoTyped
<1>7. Quiet
  BY <1>1, <1>2, <1>4 DEF Quiet, Critical, Launching, StopSteps, Timing, Live
<1>8. ~hist.raced => Noticed'
  BY <1>1, <1>2, <1>4, StillNoticed DEF SupervisorInv, Sane
<1> QED
  BY <1>2, <1>5, <1>6, <1>7, <1>8, QuietInv

LEMMA NotDueInv ==
  ASSUME SupervisorInv, NEW w \in Workers, NotDue(w) \/ NothingFound(w)
  PROVE  SupervisorInv'
<1>1. now[w] \in {"checkStop", "checkRestart", "timers", "peer"}
  BY Standing DEF NotDue, NothingFound, Steps
<1>2. now[w] \notin Critical \cup {"none", "restart", "restartLock"}
  BY <1>1 DEF Critical, StopSteps, Launching
<1> QED
  BY <1>2, AsideInv DEF NotDue, NothingFound

(* waitpid has found the peer ended: the pid is kept in mind, and restart  *)
(* is called if the driver still has it.                                   *)
LEMMA PeerFoundDeadInv ==
  ASSUME SupervisorInv, NEW w \in Workers, PeerFoundDead(w)
  PROVE  SupervisorInv'
<1>1. /\ TodoTyped /\ TypeOK /\ w \in Threads /\ now[w] = "peer"
      /\ now \in [Threads -> Steps \cup {"none"}] /\ Workers \subseteq Threads
  BY Standing DEF PeerFoundDead, Steps
<1>2. "vanished" \in Plain /\ now[w] \notin Critical \cup {"none"}
  BY <1>1 DEF Plain, Steps, Critical, StopSteps, Launching
<1>3. /\ TodoTyped' /\ starts' = starts /\ now' = [now EXCEPT ![w] = "vanished"]
  BY <1>2, CallingAside DEF PeerFoundDead
<1>4. drv.pid \in Pid /\ drv.pid # 0 /\ drv.pid \in 0 .. MaxPid
  BY <1>1 DEF PeerFoundDead, TypeOK, Pid
<1>5. /\ proc' = [proc EXCEPT ![drv.pid] = "none"]
      /\ gone' = [gone EXCEPT ![w] = drv.pid]
      /\ UNCHANGED <<drv, sig, mutex, sock, inbox, env, hist>>
  BY DEF PeerFoundDead
<1>6. proc' \in [Pid -> ProcStates] /\ gone' \in [Workers -> 0 .. MaxPid]
  BY <1>1, <1>4, <1>5 DEF TypeOK, ProcStates
<1>7. TypeOK'
  BY <1>1, <1>3, <1>5, <1>6 DEF TypeOK, TodoTyped
<1>8. Vain'
  BY <1>1, <1>4, <1>5 DEF SupervisorInv, Orderly, Vain, TypeOK
<1>9. \A p \in Pid : Live(p)' => Live(p)
  BY <1>1, <1>4, <1>5 DEF TypeOK, Live, LiveStates
<1>10. Quiet
  BY <1>1, <1>3, <1>5, <1>9 DEF Quiet, Critical, Launching, StopSteps
<1>11. ~hist.raced => Noticed'
  BY <1>1, <1>3, <1>5, StillNoticed DEF SupervisorInv, Sane
<1> QED
  BY <1>3, <1>7, <1>8, <1>10, <1>11, QuietInv

LEMMA VanishedInv ==
  ASSUME SupervisorInv, NEW w \in Workers, Vanished(w)
  PROVE  SupervisorInv'
<1>1. /\ TodoTyped /\ TypeOK /\ w \in Threads /\ now[w] = "vanished"
      /\ now \in [Threads -> Steps \cup {"none"}] /\ Workers \subseteq Threads
  BY Standing DEF Vanished, Steps
<1>2. "restart" \in Plain /\ now[w] \notin Critical \cup {"none", "restart", "restartLock"}
  BY <1>1 DEF Plain, Steps, Critical, StopSteps, Launching
<1>3. CASE gone[w] # drv.pid
  BY <1>2, <1>3, AsideInv DEF Vanished
<1>4. CASE gone[w] = drv.pid
  <2>1. /\ drv' = [drv EXCEPT !.pid = 0, !.timed = FALSE]
        /\ Goes(w, <<"restart">>)
        /\ gone' = [gone EXCEPT ![w] = 0]
        /\ UNCHANGED <<sig, mutex, sock, inbox, proc, env, hist>>
    BY <1>4 DEF Vanished
  <2>2. /\ TodoTyped' /\ starts' = starts /\ now' = [now EXCEPT ![w] = "restart"]
    BY <1>2, <2>1, CallingAside
  <2>3. /\ TypeOK'
        /\ drv'.state = drv.state /\ drv'.pid = 0 /\ drv'.stop = drv.stop
        /\ drv'.stopping = drv.stopping /\ drv'.error = drv.error
        /\ drv'.restart = drv.restart
    BY <1>1, <2>1, <2>2, Bounds DEF TypeOK, TodoTyped
  <2>4. Vain'
    BY <1>1, <2>1 DEF SupervisorInv, Orderly, Vain, TypeOK
  <2>5. \A p \in Pid : Live(p)' => Live(p) /\ p # drv.pid
    <3>1. drv.pid # 0 => proc[drv.pid] = "none"
      BY <1>4 DEF SupervisorInv, Orderly, Vain
    <3>2. \A p \in Pid : p # 0
      BY DEF Pid
    <3> QED
      BY <2>1, <3>1, <3>2 DEF Live, LiveStates
  <2>6. Quiet
    BY <1>1, <2>1, <2>2, <2>3, <2>5 DEF Quiet, Critical, Launching, StopSteps
  <2>7. Noticed'
    BY <1>1, <2>2 DEF Noticed
  <2> QED
    BY <2>2, <2>3, <2>4, <2>6, <2>7, QuietInv
<1> QED
  BY <1>3, <1>4

(* A timer of the signalling runs out: the peer is ended and a restart asked. *)
LEMMA PeerTimesOutInv ==
  ASSUME SupervisorInv, NEW w \in Workers, PeerTimesOut(w)
  PROVE  SupervisorInv'
<1>1. /\ TodoTyped /\ TypeOK /\ w \in Threads /\ now[w] = "timers"
      /\ now \in [Threads -> Steps \cup {"none"}] /\ Workers \subseteq Threads
  BY Standing DEF PeerTimesOut, Steps
<1>2. "restart" \in Plain /\ now[w] \notin Critical \cup {"none"}
  BY <1>1 DEF Plain, Steps, Critical, StopSteps, Launching
<1>3. /\ TodoTyped' /\ starts' = starts /\ now' = [now EXCEPT ![w] = "restart"]
  BY <1>2, CallingAside DEF PeerTimesOut
<1>4. /\ sig.state \in {"WaitHandshake", "Running"}
      /\ sig' = [sig EXCEPT !.state = "Closing"]
      /\ proc' = PeerStopped
      /\ drv' = [drv EXCEPT !.pid = 0]
      /\ UNCHANGED <<mutex, sock, inbox, gone, hist>>
  BY DEF PeerTimesOut
<1>5. env' \in [exiting: {env.exiting}, cmds: 0 .. MaxCmd, fails: 0 .. MaxFail]
  <2>1. CASE Talks
    BY <1>1, <2>1, EnvCounts DEF PeerTimesOut, Counted
  <2>2. CASE ~Talks
    BY <1>1, <2>2 DEF PeerTimesOut, TypeOK
  <2> QED
    BY <2>1, <2>2
<1>6. /\ proc' \in [Pid -> ProcStates]
      /\ \A p \in Pid : proc'[p] = IF p = drv.pid THEN "none" ELSE proc[p]
  BY <1>1, <1>4 DEF TypeOK, PeerStopped, ProcStates
<1>7. /\ drv'.state = drv.state /\ drv'.pid = 0 /\ drv'.stop = drv.stop
      /\ drv'.stopping = drv.stopping /\ drv'.error = drv.error
      /\ drv'.restart = drv.restart
      /\ sig'.state = "Closing" /\ sig'.thread = sig.thread
      /\ env'.exiting = env.exiting
  BY <1>1, <1>4, <1>5 DEF TypeOK
<1>8. TypeOK'
  BY <1>1, <1>3, <1>4, <1>5, <1>6, Bounds DEF TypeOK, TodoTyped, SigStates
<1>9. Vain'
  <2>1. \A v \in Workers : gone'[v] = gone[v] /\ gone[v] \in 0 .. MaxPid
    BY <1>1, <1>4 DEF TypeOK
  <2>2. \A v \in Workers : gone[v] # 0 => gone[v] \in Pid
    BY <2>1, Bounds DEF Pid
  <2> QED
    BY <1>6, <2>1, <2>2 DEF SupervisorInv, Orderly, Vain
<1>10. \A p \in Pid : Live(p)' => Live(p) /\ p # drv.pid
  BY <1>6 DEF Live, LiveStates
<1>11. Quiet
  BY <1>1, <1>3, <1>4, <1>7, <1>10 DEF Quiet, Critical, Launching, StopSteps
<1>12. Noticed'
  BY <1>1, <1>3 DEF Noticed
<1> QED
  BY <1>3, <1>8, <1>9, <1>11, <1>12, QuietInv

-----------------------------------------------------------------------------
(* Calls for a restart, or for a stop without one, by any thread           *)

LEMMA Moves ==
  ASSUME SupervisorInv, NEW t \in Threads, now[t] \notin Critical \cup {"none"},
         NEW step \in Plain \ {"stop", "ended", "launch", "announce"},
         Returns(t) \/ Goes(t, <<step>>)
  PROVE  /\ TodoTyped' /\ starts' = starts
         /\ now' = [now EXCEPT ![t] = now'[t]]
         /\ t \in Workers => now'[t] \notin Critical
         /\ Goes(t, <<step>>) => now'[t] = step
<1>1. step \notin Critical
  BY DEF Plain, Critical, StopSteps, Launching
<1>2. CASE t \in Workers
  <2>1. CASE Returns(t)
    <3>1. Goes(t, <<step>>) => now'[t] = step
      <4>1. now \in [Threads -> Steps \cup {"none"}]
        BY <1>2, Standing
      <4> QED
        BY <1>2, <4>1, CallingAside
    <3> QED
      BY <1>2, <2>1, <3>1, ReturningAside DEF Critical, StopSteps, Launching, Timing
  <2>2. CASE Goes(t, <<step>>)
    <3>1. now \in [Threads -> Steps \cup {"none"}]
      BY <1>2, Standing
    <3> QED
      BY <1>1, <1>2, <2>2, <3>1, CallingAside
  <2> QED
    BY <2>1, <2>2
<1>3. CASE t \notin Workers
  <2>1. t = Sig /\ TodoTyped
    BY <1>3 DEF Threads, SupervisorInv, Typed
  <2>2. <<>> \in Seq(Steps) /\ <<step>> \in Seq(Steps) /\ <<step>> # <<>>
        /\ <<step>>[1] = step
    BY DEF Plain
  <2>3. Goes(t, <<step>>) => now'[t] = step
    BY <2>1, <2>2, SigCalls
  <2> QED
    BY <1>3, <2>1, <2>2, <2>3, SigCalls DEF Returns
<1> QED
  BY <1>2, <1>3

LEMMA AnyStanding ==
  ASSUME SupervisorInv, NEW t \in Threads
  PROVE  /\ TodoTyped /\ TypeOK
         /\ now \in [Threads -> Steps \cup {"none"}] /\ Workers \subseteq Threads
         /\ \A step \in Steps : At(t, step) <=> now[t] = step
         /\ todo[t] = <<>> <=> now[t] = "none"
BY AtNow, NowType DEF SupervisorInv, Typed, Threads

(* Dropped while somebody is stopping, and otherwise carried on.           *)
LEMMA AskInv ==
  ASSUME SupervisorInv, NEW t \in Threads, Ask(t)
  PROVE  SupervisorInv'
<1>1. /\ TodoTyped /\ TypeOK /\ now[t] \in {"restart", "fatal"}
      /\ now \in [Threads -> Steps \cup {"none"}] /\ Workers \subseteq Threads
  BY AnyStanding DEF Ask, Steps
<1>2. PICK step \in {"restartLock", "fatalLock"} :
        /\ step = "restartLock" <=> now[t] = "restart"
        /\ Goes(t, IF drv.stopping THEN <<>> ELSE <<step>>)
  BY AnyStanding DEF Ask, Steps
<1>3. /\ step \in Plain \ {"stop", "ended", "launch", "announce"}
      /\ now[t] \notin Critical \cup {"none"}
  BY <1>1 DEF Plain, Steps, Critical, StopSteps, Launching
<1>4. /\ Returns(t) \/ Goes(t, <<step>>)
      /\ ~drv.stopping => Goes(t, <<step>>)
  BY <1>2 DEF Returns
<1>5. /\ TodoTyped' /\ starts' = starts
      /\ now' = [now EXCEPT ![t] = now'[t]]
      /\ t \in Workers => now'[t] \notin Critical
      /\ ~drv.stopping => now'[t] = step
  BY <1>3, <1>4, Moves
<1>6. UNCHANGED <<drv, sig, mutex, sock, inbox, proc, gone, env, hist>>
  BY DEF Ask
<1>7. TypeOK' /\ Vain'
  BY <1>1, <1>5, <1>6 DEF TypeOK, TodoTyped, SupervisorInv, Orderly, Vain
<1>8. Quiet
  BY <1>1, <1>3, <1>5, <1>6 DEF Quiet, Live
<1>9. ~hist.raced => Noticed'
  BY <1>1, <1>2, <1>5, <1>6, StillNoticed DEF SupervisorInv, Sane
<1> QED
  BY <1>5, <1>7, <1>8, <1>9, QuietInv

(* What the calls under the mutex do to the driver.                        *)
LEMMA AskedType ==
  ASSUME TypeOK
  PROVE  LET d == Asked(drv) IN
         /\ d \in [state: DriverStates, stopped: BOOLEAN, error: BOOLEAN,
                   stop: BOOLEAN, restart: BOOLEAN, timed: BOOLEAN,
                   index: 0..MaxRestart, stopping: BOOLEAN, pid: 0..MaxPid]
         /\ d.state = drv.state /\ d.pid = drv.pid /\ d.stopping = drv.stopping
         /\ d.error = drv.error
         /\ drv.stop => d.stop
         /\ drv.error => d = drv
         /\ ~drv.error /\ drv.state # "Idle" => d.stop
<1>1. drv \in [state: DriverStates, stopped: BOOLEAN, error: BOOLEAN,
               stop: BOOLEAN, restart: BOOLEAN, timed: BOOLEAN,
               index: 0..MaxRestart, stopping: BOOLEAN, pid: 0..MaxPid]
  BY DEF TypeOK
<1>2. CASE drv.error
  BY <1>1, <1>2 DEF Asked
<1>3. CASE ~drv.error
  <2>1. Asked(drv) = [drv EXCEPT !.restart = TRUE, !.timed = TRUE,
                                 !.stop = drv.stop \/ drv.state # "Idle"]
    BY <1>1, <1>3 DEF Asked, Scheduled
  <2> QED
    BY <1>1, <1>3, <2>1
<1> QED
  BY <1>2, <1>3

LEMMA RestartInv ==
  ASSUME SupervisorInv, NEW t \in Threads, Restart(t)
  PROVE  SupervisorInv'
<1>1. /\ TodoTyped /\ TypeOK /\ now[t] = "restartLock"
      /\ now \in [Threads -> Steps \cup {"none"}] /\ Workers \subseteq Threads
  BY AnyStanding DEF Restart, Steps
<1>2. /\ drv' = Asked(drv) /\ Returns(t)
      /\ UNCHANGED <<sig, mutex, sock, inbox, proc, gone, env, hist>>
  BY DEF Restart
<1>3. now[t] \notin Critical \cup {"none"}
      /\ "peer" \in Plain \ {"stop", "ended", "launch", "announce"}
  BY <1>1 DEF Plain, Steps, Critical, StopSteps, Launching
<1>4. /\ TodoTyped' /\ starts' = starts
      /\ now' = [now EXCEPT ![t] = now'[t]]
      /\ t \in Workers => now'[t] \notin Critical
  BY <1>2, <1>3, Moves
<1>5. /\ TypeOK'
      /\ drv'.state = drv.state /\ drv'.pid = drv.pid
      /\ drv'.stopping = drv.stopping /\ drv'.error = drv.error
      /\ drv.stop => drv'.stop
      /\ drv.error => drv' = drv
      /\ ~drv.error /\ drv.state # "Idle" => drv'.stop
  <2> DEFINE d == Asked(drv)
  <2>1. /\ d \in [state: DriverStates, stopped: BOOLEAN, error: BOOLEAN,
                   stop: BOOLEAN, restart: BOOLEAN, timed: BOOLEAN,
                   index: 0..MaxRestart, stopping: BOOLEAN, pid: 0..MaxPid]
        /\ d.state = drv.state /\ d.pid = drv.pid /\ d.stopping = drv.stopping
        /\ d.error = drv.error
        /\ drv.stop => d.stop
        /\ drv.error => d = drv
        /\ ~drv.error /\ drv.state # "Idle" => d.stop
    BY <1>1, AskedType
  <2>2. drv' = d
    BY <1>2
  <2> HIDE DEF d
  <2> QED
    BY <1>1, <1>2, <1>4, <2>1, <2>2 DEF TypeOK, TodoTyped
<1>6. Vain'
  BY <1>2 DEF SupervisorInv, Orderly, Vain
<1>7. Quiet
  BY <1>1, <1>2, <1>3, <1>4, <1>5 DEF Quiet, Live
<1>8. ASSUME ~hist.raced PROVE Noticed'
  <2>1. ErrorStops /\ IdleOwnsNothing
    BY <1>8 DEF SupervisorInv, Sane, Orderly
  <2>2. CASE drv.state = "Idle"
    BY <1>2, <1>5, <2>1, <2>2 DEF IdleOwnsNothing, Noticed, Up
  <2>3. CASE drv.state # "Idle"
    BY <1>2, <1>5, <2>1, <2>3 DEF ErrorStops, Noticed
  <2> QED
    BY <2>2, <2>3
<1> QED
  BY <1>4, <1>5, <1>6, <1>7, <1>8, QuietInv

LEMMA StopNoRestartInv ==
  ASSUME SupervisorInv, NEW t \in Threads, StopNoRestart(t)
  PROVE  SupervisorInv'
<1>1. /\ TodoTyped /\ TypeOK /\ now[t] = "fatalLock"
      /\ now \in [Threads -> Steps \cup {"none"}] /\ Workers \subseteq Threads
  BY AnyStanding DEF StopNoRestart, Steps
<1>2. /\ drv' = [drv EXCEPT !.stop = TRUE, !.restart = FALSE, !.timed = FALSE,
                            !.error = TRUE]
      /\ hist' = [hist EXCEPT !.gaveUp = TRUE] /\ Returns(t)
      /\ UNCHANGED <<sig, mutex, sock, inbox, proc, gone, env>>
  BY DEF StopNoRestart
<1>3. now[t] \notin Critical \cup {"none"}
      /\ "peer" \in Plain \ {"stop", "ended", "launch", "announce"}
  BY <1>1 DEF Plain, Steps, Critical, StopSteps, Launching
<1>4. /\ TodoTyped' /\ starts' = starts
      /\ now' = [now EXCEPT ![t] = now'[t]]
      /\ t \in Workers => now'[t] \notin Critical
  BY <1>2, <1>3, Moves
<1>5. /\ TypeOK'
      /\ drv'.state = drv.state /\ drv'.pid = drv.pid
      /\ drv'.stopping = drv.stopping /\ drv'.error /\ drv'.stop /\ ~drv'.restart
      /\ hist'.raced = hist.raced
  BY <1>1, <1>2, <1>4 DEF TypeOK, TodoTyped
<1>6. Vain'
  BY <1>2 DEF SupervisorInv, Orderly, Vain
<1>7. Quiet
  BY <1>1, <1>2, <1>3, <1>4, <1>5 DEF Quiet, Live
<1>8. Noticed'
  BY <1>5 DEF Noticed
<1> QED
  BY <1>4, <1>5, <1>6, <1>7, <1>8, QuietInv

-----------------------------------------------------------------------------
(* The signalling thread                                                   *)

LEMMA SigStanding ==
  ASSUME SupervisorInv
  PROVE  /\ TodoTyped /\ TypeOK /\ Sig \in Threads /\ Sig \notin Workers
         /\ now \in [Threads -> Steps \cup {"none"}] /\ Workers \subseteq Threads
         /\ \A step \in Steps : At(Sig, step) <=> now[Sig] = step
         /\ todo[Sig] = <<>> <=> now[Sig] = "none"
<1>1. Sig \in Threads /\ Sig \notin Workers
  BY SupervisorAssumption DEF Threads
<1> QED
  BY <1>1, AnyStanding

(* Whatever the thread turns to, nothing else has changed that matters to  *)
(* stops and starts.                                                       *)
LEMMA SigAsideInv ==
  ASSUME SupervisorInv, TypeOK', TodoTyped', starts' = starts,
         now' = [now EXCEPT ![Sig] = now'[Sig]],
         now[Sig] \notin {"restart", "restartLock"},
         UNCHANGED <<mutex, sock, proc, gone, hist>>,
         env'.exiting = env.exiting,
         drv'.pid = drv.pid, drv'.stop = drv.stop, drv'.stopping = drv.stopping,
         drv'.error = drv.error, drv'.restart = drv.restart,
         drv'.state = drv.state \/ {drv.state, drv'.state} \subseteq Up,
         sig'.state = sig.state
           \/ (sig.state = "WaitHandshake" /\ sig'.state = "Running"),
         sig'.thread => sig.thread
  PROVE  SupervisorInv'
<1>1. /\ Sig \in Threads /\ Sig \notin Workers
      /\ now \in [Threads -> Steps \cup {"none"}] /\ Workers \subseteq Threads
  BY SigStanding
<1>2. \A w \in Workers : now'[w] = now[w]
  BY <1>1
<1>3. Vain'
  BY DEF SupervisorInv, Orderly, Vain
<1>4. Quiet
  BY <1>2 DEF Quiet, Live, Up
<1>5. ~hist.raced => Noticed'
  BY <1>1, StillNoticed DEF SupervisorInv, Sane
<1> QED
  BY <1>3, <1>4, <1>5, QuietInv

LEMMA ReceiveInv ==
  ASSUME SupervisorInv, Receive \/ ReadFails
  PROVE  SupervisorInv'
<1>1. /\ TodoTyped /\ TypeOK /\ now[Sig] = "none"
  BY SigStanding DEF Receive, ReadFails
<1>2. PICK r \in Seq(Steps) : todo' = [todo EXCEPT ![Sig] = r]
  <2>1. Handling(Head(inbox)) \in Seq(Steps)
    <3> DEFINE m == Head(inbox)
    <3>1. /\ <<"handshake">> \in Seq(Steps) /\ <<"fatal", "end">> \in Seq(Steps)
          /\ <<"ready">> \in Seq(Steps) /\ <<"restart", "end">> \in Seq(Steps)
          /\ <<>> \in Seq(Steps)
      BY DEF Steps
    <3> HIDE DEF m
    <3>2. Handling(m) \in {<<"handshake">>, <<"fatal", "end">>, <<"ready">>,
                           <<"restart", "end">>, <<>>}
      BY DEF Handling
    <3> QED
      BY <3>1, <3>2 DEF m
  <2>2. <<"restart", "end">> \in Seq(Steps)
    BY DEF Steps
  <2> QED
    BY <2>1, <2>2 DEF Receive, ReadFails
<1>3. TodoTyped' /\ now' = [now EXCEPT ![Sig] = First(r)] /\ starts' = starts
  BY <1>1, <1>2, SigGoes
<1>4. now' = [now EXCEPT ![Sig] = now'[Sig]]
  BY <1>3, SigStanding
<1>5. /\ inbox' \in Seq(Messages)
      /\ UNCHANGED <<drv, sig, mutex, sock, proc, gone, hist>>
  <2>1. inbox \in Seq(Messages)
    BY <1>1 DEF TypeOK
  <2>2. inbox # <<>> => Tail(inbox) \in Seq(Messages)
    BY <2>1
  <2>3. CASE Receive
    BY <2>2, <2>3 DEF Receive
  <2>4. CASE ReadFails
    BY <2>1, <2>4 DEF ReadFails
  <2> QED
    BY <2>3, <2>4
<1>6. env' \in [exiting: {env.exiting}, cmds: 0 .. MaxCmd, fails: 0 .. MaxFail]
  <2>1. env \in [exiting: {env.exiting}, cmds: 0 .. MaxCmd, fails: 0 .. MaxFail]
    BY <1>1 DEF TypeOK
  <2> QED
    BY <1>1, <2>1, EnvCounts DEF Receive, ReadFails, Counted
<1>7. TypeOK'
  BY <1>1, <1>3, <1>5, <1>6 DEF TypeOK, TodoTyped
<1> QED
  BY <1>1, <1>3, <1>4, <1>5, <1>6, <1>7, SigAsideInv

LEMMA HandshakeDoneInv ==
  ASSUME SupervisorInv, HandshakeDone
  PROVE  SupervisorInv'
<1>1. TodoTyped /\ TypeOK /\ now[Sig] = "handshake"
  BY SigStanding DEF HandshakeDone, Steps
<1>2. PICK c \in Seq(Steps) : Goes(Sig, c)
  <2> DEFINE c == (IF drv.state # "Idle" THEN <<"restart">> ELSE <<>>)
                     \o <<"restart", "end">>
  <2>1. <<"run">> \in Seq(Steps) /\ c \in Seq(Steps)
    BY DEF Steps
  <2> HIDE DEF c
  <2>2. Goes(Sig, <<"run">>) \/ Goes(Sig, c)
    BY DEF HandshakeDone, c
  <2> QED
    BY <2>1, <2>2
<1>3. /\ TodoTyped' /\ starts' = starts
      /\ now' = [now EXCEPT ![Sig] = now'[Sig]]
  BY <1>1, <1>2, SigCalls
<1>4. /\ UNCHANGED <<sig, mutex, sock, inbox, proc, gone, env, hist>>
      /\ \/ drv' = drv
         \/ drv' = [drv EXCEPT !.state = "Running"] /\ drv.state = "WaitHandshake"
  BY DEF HandshakeDone
<1>5. /\ TypeOK'
      /\ drv'.pid = drv.pid /\ drv'.stop = drv.stop /\ drv'.stopping = drv.stopping
      /\ drv'.error = drv.error /\ drv'.restart = drv.restart
      /\ drv'.state = drv.state \/ {drv.state, drv'.state} \subseteq Up
  BY <1>1, <1>3, <1>4 DEF TypeOK, TodoTyped, DriverStates, Up
<1> QED
  BY <1>1, <1>3, <1>4, <1>5, SigAsideInv

LEMMA HandshakeAnsweredInv ==
  ASSUME SupervisorInv, HandshakeAnswered
  PROVE  SupervisorInv'
<1>1. TodoTyped /\ TypeOK /\ now[Sig] = "run"
  BY SigStanding DEF HandshakeAnswered, Steps
<1>2. PICK c \in Seq(Steps) : Goes(Sig, c)
  <2>1. <<>> \in Seq(Steps) /\ <<"restart", "end">> \in Seq(Steps)
    BY DEF Steps
  <2>2. Goes(Sig, <<>>) \/ Goes(Sig, <<"restart", "end">>)
    BY DEF HandshakeAnswered, Returns
  <2> QED
    BY <2>1, <2>2
<1>3. /\ TodoTyped' /\ starts' = starts
      /\ now' = [now EXCEPT ![Sig] = now'[Sig]]
  BY <1>1, <1>2, SigCalls
<1>4. /\ UNCHANGED <<drv, mutex, sock, inbox, proc, gone, env, hist>>
      /\ \/ sig' = sig
         \/ sig' = [sig EXCEPT !.state = "Running"] /\ sig.state = "WaitHandshake"
  BY DEF HandshakeAnswered
<1>5. /\ TypeOK'
      /\ sig'.state = sig.state
           \/ (sig.state = "WaitHandshake" /\ sig'.state = "Running")
      /\ sig'.thread = sig.thread
  BY <1>1, <1>3, <1>4 DEF TypeOK, TodoTyped, SigStates
<1> QED
  BY <1>1, <1>3, <1>4, <1>5, SigAsideInv

LEMMA RadioReadyInv ==
  ASSUME SupervisorInv, RadioReady
  PROVE  SupervisorInv'
<1>1. TodoTyped /\ TypeOK /\ now[Sig] = "ready"
  BY SigStanding DEF RadioReady, Steps
<1>2. PICK c \in Seq(Steps) : Goes(Sig, c)
  <2>1. <<>> \in Seq(Steps) /\ <<"restart">> \in Seq(Steps)
    BY DEF Steps
  <2>2. Goes(Sig, <<>>) \/ Goes(Sig, <<"restart">>)
    BY DEF RadioReady, Returns
  <2> QED
    BY <2>1, <2>2
<1>3. /\ TodoTyped' /\ starts' = starts
      /\ now' = [now EXCEPT ![Sig] = now'[Sig]]
  BY <1>1, <1>2, SigCalls
<1>4. /\ UNCHANGED <<sig, mutex, sock, inbox, proc, gone, env, hist>>
      /\ \/ drv' = drv
         \/ /\ drv' = [drv EXCEPT !.index = 0, !.state = "RadioUp"]
            /\ drv.state = "Running"
  BY DEF RadioReady
<1>5. /\ TypeOK'
      /\ drv'.pid = drv.pid /\ drv'.stop = drv.stop /\ drv'.stopping = drv.stopping
      /\ drv'.error = drv.error /\ drv'.restart = drv.restart
      /\ drv'.state = drv.state \/ {drv.state, drv'.state} \subseteq Up
  BY <1>1, <1>3, <1>4, Bounds DEF TypeOK, TodoTyped, DriverStates, Up
<1> QED
  BY <1>1, <1>3, <1>4, <1>5, SigAsideInv

LEMMA ThreadEndsInv ==
  ASSUME SupervisorInv, ThreadEnds
  PROVE  SupervisorInv'
<1>1. TodoTyped /\ TypeOK /\ now[Sig] \in {"end", "none"}
  BY SigStanding DEF ThreadEnds, Steps
<1>2. <<>> \in Seq(Steps) /\ todo' = [todo EXCEPT ![Sig] = <<>>]
  BY DEF ThreadEnds
<1>3. TodoTyped' /\ now' = [now EXCEPT ![Sig] = First(<<>>)] /\ starts' = starts
  BY <1>1, <1>2, SigGoes
<1>4. now' = [now EXCEPT ![Sig] = now'[Sig]]
  BY <1>3, SigStanding
<1>5. /\ UNCHANGED <<drv, mutex, sock, inbox, proc, gone, env, hist>>
      /\ sig' = [sig EXCEPT !.thread = FALSE, !.cancel = FALSE]
  BY DEF ThreadEnds
<1>6. /\ TypeOK' /\ sig'.state = sig.state /\ ~sig'.thread
  BY <1>1, <1>3, <1>5 DEF TypeOK, TodoTyped
<1> QED
  BY <1>1, <1>3, <1>4, <1>5, <1>6, SigAsideInv

-----------------------------------------------------------------------------
(* mbts                                                                    *)

LEMMA PeerInv ==
  ASSUME SupervisorInv, NEW p \in Pid,
         PeerStep(p) \/ PeerGivesUp(p) \/ PeerFails(p)
  PROVE  SupervisorInv'
<1>1. /\ UNCHANGED <<drv, sig, todo, mutex, sock, gone, hist>>
      /\ \E s \in ProcStates \ {"none"} :
           /\ proc' = [proc EXCEPT ![p] = s]
           /\ s \in LiveStates => Live(p)
      /\ proc[p] # "none"
  BY DEF PeerStep, PeerGreets, PeerUp, PeerLeaves, PeerGivesUp, PeerFails,
         ProcStates, LiveStates, Live
<1>2. TypeOK /\ TodoTyped
  BY SigStanding
<1>3. inbox' \in Seq(Messages)
  <2>1. inbox \in Seq(Messages) /\
        \A m \in Messages : Append(inbox, m) \in Seq(Messages)
    BY <1>2 DEF TypeOK
  <2>2. inbox' = inbox \/ \E m \in Messages : inbox' = Append(inbox, m)
    BY DEF PeerStep, PeerGreets, PeerUp, PeerLeaves, PeerGivesUp, PeerFails,
           Says, Messages
  <2> QED
    BY <2>1, <2>2
<1>4. env' \in [exiting: {env.exiting}, cmds: 0 .. MaxCmd, fails: 0 .. MaxFail]
  <2>1. env \in [exiting: {env.exiting}, cmds: 0 .. MaxCmd, fails: 0 .. MaxFail]
    BY <1>2 DEF TypeOK
  <2>2. env' = env \/ (Failing /\ Counted)
    BY DEF PeerStep, PeerGreets, PeerUp, PeerLeaves, PeerGivesUp, PeerFails
  <2> QED
    BY <1>2, <2>1, <2>2, EnvCounts DEF Counted
<1>5. /\ now' = now /\ starts' = starts /\ TodoTyped'
  BY <1>1, <1>2 DEF now, starts, TodoTyped, Has
<1>6. /\ proc' \in [Pid -> ProcStates]
      /\ \A q \in Pid : proc[q] = "none" => proc'[q] = "none"
      /\ \A q \in Pid : Live(q)' => Live(q)
  BY <1>1, <1>2 DEF TypeOK, Live
<1>7. TypeOK'
  BY <1>1, <1>2, <1>3, <1>4, <1>6 DEF TypeOK
<1>8. Vain'
  <2>1. \A w \in Workers : gone[w] # 0 => gone[w] \in Pid
    BY <1>2, Bounds DEF TypeOK, Pid
  <2> QED
    BY <1>1, <1>6, <2>1 DEF SupervisorInv, Orderly, Vain
<1>9. Quiet
  BY <1>1, <1>4, <1>5, <1>6 DEF Quiet
<1>10. ~hist.raced => Noticed'
  BY <1>1, <1>5 DEF Noticed, SupervisorInv, Sane
<1> QED
  BY <1>5, <1>7, <1>8, <1>9, <1>10, QuietInv

-----------------------------------------------------------------------------
(* Into a stop or a start: who enters marks the race with whoever is in    *)
(* the other.                                                              *)

LEMMA EnteringType ==
  ASSUME SupervisorInv, NEW w \in Workers, NEW S, Enters(w, S)
  PROVE  /\ hist' \in [raced: BOOLEAN, gaveUp: BOOLEAN]
         /\ hist.raced => hist'.raced
         /\ ~hist'.raced => \A v \in Workers \ {w} : ~Does(v, S)
<1>1. hist \in [raced: BOOLEAN, gaveUp: BOOLEAN]
  BY Standing DEF TypeOK
<1>2. hist' = [hist EXCEPT !.raced = hist.raced \/ \E v \in Workers \ {w} : Does(v, S)]
  BY DEF Enters
<1> QED
  BY <1>1, <1>2

LEMMA EnterStartInv ==
  ASSUME SupervisorInv, NEW w \in Workers,
         now[w] \in {"startIdle", "checkRestart"},
         ~env.exiting \/ drv.restart,
         Goes(w, <<"stop", "start">>), Enters(w, StopSteps \cup StartSteps),
         UNCHANGED <<drv, sig, mutex, sock, inbox, proc, gone, env>>
  PROVE  SupervisorInv'
<1>1. /\ TodoTyped /\ TypeOK /\ w \in Threads
      /\ now \in [Threads -> Steps \cup {"none"}] /\ Workers \subseteq Threads
      /\ now[w] \notin StopSteps \cup {"none"}
  BY Standing DEF StopSteps
<1>2. /\ TodoTyped' /\ starts' = starts \cup {w}
      /\ now' = [now EXCEPT ![w] = "stop"]
  BY <1>1, CallsStart
<1>3. now'[w] = "stop" /\ \A t \in Threads : t # w => now'[t] = now[t]
  BY <1>1, <1>2
<1>4. /\ hist' \in [raced: BOOLEAN, gaveUp: BOOLEAN]
      /\ hist.raced => hist'.raced
      /\ ~hist'.raced => \A v \in Workers \ {w} : ~Does(v, StopSteps \cup StartSteps)
  BY EnteringType
<1>5. Typed'
  BY <1>1, <1>2, <1>4 DEF Typed, TypeOK, TodoTyped
<1>6. Orderly'
  BY <1>1, <1>3 DEF SupervisorInv, Orderly, Locked, OneStops, IdleOwnsNothing,
                    Busy, Vain, Stopping, Launching
<1>7. ASSUME ~hist'.raced
      PROVE  Sane'
  <2>1. Sane
    BY <1>4, <1>7 DEF SupervisorInv
  <2>2. \A v \in Workers \ {w} : v \notin Starting /\ now[v] \notin StopSteps
    BY <1>1, <1>4, <1>7, DoesNow
  <2>3. Starting' \subseteq Starting \cup {w}
    BY <1>2, <1>3 DEF Starting, Launching
  <2>4. \A v \in Workers \ {w} : v \notin Starting' /\ now'[v] \notin StopSteps
    BY <1>1, <1>3, <2>2, <2>3
  <2>5. Alone'
    BY <2>4 DEF Alone
  <2>6. Torn'
    BY <1>1, <1>3, <2>1 DEF Sane, Torn
  <2>7. Known' /\ ErrorStops'
    BY <2>1 DEF Sane, Known, Live, ErrorStops
  <2>8. Noticed'
    BY <1>1, <1>2, <1>3, <2>1, StillNoticed DEF Sane
  <2>9. ~env.exiting
    <3>1. env.exiting => drv.restart
      OBVIOUS
    <3> QED
      BY <1>1, <2>1, <2>2, <3>1 DEF Sane, Final
  <2>10. Final'
    BY <2>9 DEF Final
  <2> QED
    BY <2>5, <2>6, <2>7, <2>8, <2>10 DEF Sane
<1> QED
  BY <1>5, <1>6, <1>7 DEF SupervisorInv

LEMMA StartIdleInv ==
  ASSUME SupervisorInv, NEW w \in Workers, StartIdle(w) \/ RestartDue(w)
  PROVE  SupervisorInv'
<1>1. now[w] \in {"startIdle", "checkRestart"}
  BY Standing DEF StartIdle, RestartDue, Steps
<1>2. now[w] \notin Critical \cup {"none", "restart", "restartLock"}
  BY <1>1 DEF Critical, StopSteps, Launching
<1>3. CASE RestartDue(w)
  BY <1>1, <1>3, EnterStartInv DEF RestartDue
<1>4. CASE StartIdle(w) /\ ~(drv.stopped \/ drv.state # "Idle" \/ env.exiting)
  BY <1>1, <1>4, EnterStartInv DEF StartIdle
<1>5. CASE StartIdle(w) /\ (drv.stopped \/ drv.state # "Idle" \/ env.exiting)
  BY <1>2, <1>5, AsideInv DEF StartIdle
<1> QED
  BY <1>3, <1>4, <1>5

LEMMA EnterStopInv ==
  ASSUME SupervisorInv, NEW w \in Workers,
         now[w] \notin Critical \cup {"restart", "restartLock"},
         TodoTyped', starts' = starts, now' = [now EXCEPT ![w] = "stop"],
         Enters(w, StartSteps),
         env' \in [exiting: BOOLEAN, cmds: 0 .. MaxCmd, fails: 0 .. MaxFail],
         env.exiting => env'.exiting,
         UNCHANGED <<drv, sig, mutex, sock, inbox, proc, gone>>
  PROVE  SupervisorInv'
<1>1. /\ TodoTyped /\ TypeOK /\ w \in Threads
      /\ now \in [Threads -> Steps \cup {"none"}] /\ Workers \subseteq Threads
  BY Standing
<1>2. now'[w] = "stop" /\ \A t \in Threads : t # w => now'[t] = now[t]
  BY <1>1
<1>3. /\ hist' \in [raced: BOOLEAN, gaveUp: BOOLEAN]
      /\ hist.raced => hist'.raced
      /\ ~hist'.raced => \A v \in Workers \ {w} : ~Does(v, StartSteps)
  BY EnteringType
<1>4. Typed'
  BY <1>1, <1>3 DEF Typed, TypeOK, TodoTyped
<1>5. Orderly'
  BY <1>1, <1>2 DEF SupervisorInv, Orderly, Locked, OneStops, IdleOwnsNothing,
                    Busy, Vain, Stopping, Launching, Critical, StopSteps
<1>6. ASSUME ~hist'.raced
      PROVE  Sane'
  <2>1. Sane
    BY <1>3, <1>6 DEF SupervisorInv
  <2>2. \A v \in Workers \ {w} : v \notin Starting
    BY <1>1, <1>3, <1>6, DoesNow
  <2>3. w \notin Starting
    BY <1>1, StartsAt DEF Starting, Critical
  <2>4. Starting' = {}
    <3>1. starts \subseteq Workers
      BY <1>1, Projections
    <3>2. \A v \in Workers : v \notin starts /\ now'[v] \notin Launching
      BY <1>1, <1>2, <2>2, <2>3 DEF Starting, Launching
    <3> QED
      BY <3>1, <3>2 DEF Starting
  <2>5. Alone'
    BY <2>4 DEF Alone
  <2>6. Torn'
    BY <1>1, <1>2, <2>1 DEF Sane, Torn
  <2>7. Known' /\ ErrorStops'
    BY <2>1 DEF Sane, Known, Live, ErrorStops
  <2>8. Noticed'
    BY <1>1, <1>2, <2>1, StillNoticed DEF Sane
  <2>9. Final'
    BY <1>2, <2>4 DEF Final, StopSteps
  <2> QED
    BY <2>5, <2>6, <2>7, <2>8, <2>9 DEF Sane
<1> QED
  BY <1>4, <1>5, <1>6 DEF SupervisorInv

LEMMA StopDueInv ==
  ASSUME SupervisorInv, NEW w \in Workers, StopDue(w)
  PROVE  SupervisorInv'
<1>1. TypeOK /\ now[w] = "checkStop"
  BY Standing DEF StopDue, Steps
<1>2. now[w] \notin Critical \cup {"none", "restart", "restartLock"} /\ "stop" \in Plain
  BY <1>1 DEF Critical, StopSteps, Launching, Plain, Steps
<1>3. TodoTyped' /\ starts' = starts /\ now' = [now EXCEPT ![w] = "stop"]
  BY <1>2, CallingAside DEF StopDue
<1>4. env' \in [exiting: BOOLEAN, cmds: 0 .. MaxCmd, fails: 0 .. MaxFail]
      /\ env' = env
  BY <1>1 DEF TypeOK, StopDue
<1> QED
  BY <1>2, <1>3, <1>4, EnterStopInv DEF StopDue

LEMMA HaltInv ==
  ASSUME SupervisorInv, NEW w \in Workers, Halt(w)
  PROVE  SupervisorInv'
<1>1. TypeOK /\ TodoTyped /\ now[w] = "none"
  BY Standing DEF Halt
<1>2. now[w] \notin Critical \cup {"restart", "restartLock"}
  BY <1>1 DEF Critical, StopSteps, Launching
<1> DEFINE r == <<"stop">>
<1>3. r \in Seq(Steps) /\ Len(r) = 1 /\ r[1] = "stop" /\ r # <<>>
  BY DEF Steps
<1>4. todo' = [todo EXCEPT ![w] = r]
  BY DEF Halt
<1> HIDE DEF r
<1>5. Shaped(r) /\ ~Has(r, "start") /\ First(r) = "stop"
  BY <1>3 DEF Shaped, Has, First
<1>6. TodoTyped' /\ now' = [now EXCEPT ![w] = "stop"] /\ starts' = starts
  BY <1>1, <1>3, <1>4, <1>5, Begins
<1>7. env' \in [exiting: {TRUE}, cmds: 0 .. MaxCmd, fails: 0 .. MaxFail]
  BY <1>1, EnvCounts DEF Halt
<1>8. env' \in [exiting: BOOLEAN, cmds: 0 .. MaxCmd, fails: 0 .. MaxFail]
      /\ env'.exiting
  BY <1>7
<1> QED
  BY <1>2, <1>6, <1>8, EnterStopInv DEF Halt

-----------------------------------------------------------------------------
(* stop                                                                    *)

LEMMA StopEnterInv ==
  ASSUME SupervisorInv, NEW w \in Workers, StopEnter(w)
  PROVE  SupervisorInv'
<1>1. /\ TodoTyped /\ TypeOK /\ w \in Threads /\ now[w] = "stop"
      /\ now \in [Threads -> Steps \cup {"none"}] /\ Workers \subseteq Threads
  BY Standing DEF StopEnter, Steps
<1>2. UNCHANGED <<sig, mutex, sock, inbox, proc, gone, env, hist>>
  BY DEF StopEnter
<1>3. CASE drv.stopping
  <2>1. Returns(w) /\ drv' = drv
    BY <1>3 DEF StopEnter
  <2>2. /\ TodoTyped' /\ starts' = starts
        /\ now' = [now EXCEPT ![w] = now'[w]]
        /\ now'[w] \in {"start", "none"} \cup Timing
        /\ now'[w] = "start" <=> w \in starts
    BY <1>1, <2>1, Returning DEF After, StopSteps
  <2>3. \A t \in Threads : t # w => now'[t] = now[t]
    BY <1>1, <2>2
  <2>4. Typed'
    BY <1>1, <1>2, <2>1, <2>2 DEF Typed, TypeOK, TodoTyped
  <2>5. PICK v \in Workers : now[v] \in Stopping
    BY <1>3 DEF SupervisorInv, Orderly, OneStops
  <2>6. v # w /\ now[v] \in StopSteps /\ now'[v] = now[v]
    BY <1>1, <2>3, <2>5 DEF Stopping, StopSteps
  <2>7. Orderly'
    BY <1>1, <1>2, <2>1, <2>2, <2>3, <2>5, <2>6
       DEF SupervisorInv, Orderly, Locked, OneStops, IdleOwnsNothing, Busy, Vain,
           Stopping, Launching, Timing
  <2>8. ASSUME ~hist.raced
        PROVE  Sane'
    <3>1. Sane
      BY <2>8 DEF SupervisorInv
    <3>2. Starting' = Starting
      BY <1>1, <2>2, <2>3 DEF Starting, Launching, Timing
    <3>3. Alone'
      BY <1>1, <2>2, <2>3, <3>1, <3>2 DEF Sane, Alone, StopSteps, Timing
    <3>4. w \notin starts
      BY <2>6, <3>1 DEF Sane, Alone, Starting
    <3>5. Torn'
      BY <1>1, <2>1, <2>2, <2>3, <3>1, <3>4 DEF Sane, Torn, Timing
    <3>6. Known' /\ ErrorStops'
      BY <1>2, <2>1, <3>1 DEF Sane, Known, Live, ErrorStops
    <3>7. Noticed'
      BY <1>3, <2>1 DEF Noticed
    <3>8. Final'
      BY <1>2, <2>1, <2>6, <3>1, <3>2 DEF Sane, Final
    <3> QED
      BY <3>3, <3>5, <3>6, <3>7, <3>8 DEF Sane
  <2> QED
    BY <1>2, <2>4, <2>7, <2>8 DEF SupervisorInv
<1>4. CASE ~drv.stopping
  <2>1. /\ drv' = [drv EXCEPT !.stopping = TRUE]
        /\ Goes(w, <<"shutdown", "join", "tear", "ended">>)
    BY <1>4 DEF StopEnter
  <2>2. TodoTyped' /\ starts' = starts /\ now' = [now EXCEPT ![w] = "shutdown"]
    BY <1>1, <2>1, CallsStop
  <2>3. now'[w] = "shutdown" /\ \A t \in Threads : t # w => now'[t] = now[t]
    BY <1>1, <2>2
  <2>4. /\ TypeOK' /\ drv'.stopping
        /\ drv'.state = drv.state /\ drv'.pid = drv.pid /\ drv'.stop = drv.stop
        /\ drv'.error = drv.error /\ drv'.restart = drv.restart
    BY <1>1, <1>2, <2>1, <2>2 DEF TypeOK, TodoTyped
  <2>5. \A v \in Workers : now[v] \notin Stopping
    BY <1>4 DEF SupervisorInv, Orderly, OneStops
  <2>6. Orderly'
    BY <1>1, <1>2, <2>3, <2>4, <2>5
       DEF SupervisorInv, Orderly, Locked, OneStops, IdleOwnsNothing, Busy, Vain,
           Stopping, Launching
  <2>7. ASSUME ~hist.raced
        PROVE  Sane'
    <3>1. Sane
      BY <2>7 DEF SupervisorInv
    <3>2. Starting' = Starting
      BY <1>1, <2>2, <2>3 DEF Starting, Launching
    <3>3. Alone'
      BY <1>1, <2>3, <3>1, <3>2 DEF Sane, Alone, StopSteps
    <3>4. Torn'
      BY <1>1, <2>3, <2>4, <3>1 DEF Sane, Torn
    <3>5. Known' /\ ErrorStops' /\ Noticed'
      BY <1>2, <2>4, <3>1 DEF Sane, Known, Live, ErrorStops, Noticed
    <3>6. Final'
      BY <1>2, <2>3, <2>4, <3>1, <3>2 DEF Sane, Final, StopSteps
    <3> QED
      BY <3>3, <3>4, <3>5, <3>6 DEF Sane
  <2> QED
    BY <1>2, <2>2, <2>4, <2>6, <2>7 DEF SupervisorInv, Typed
<1> QED
  BY <1>3, <1>4

LEMMA StopShutdownInv ==
  ASSUME SupervisorInv, NEW w \in Workers, StopShutdown(w)
  PROVE  SupervisorInv'
<1>1. /\ TodoTyped /\ TypeOK /\ w \in Threads /\ now[w] = "shutdown"
      /\ now \in [Threads -> Steps \cup {"none"}] /\ Workers \subseteq Threads
  BY Standing DEF StopShutdown, Steps
<1>2. /\ Returns(w)
      /\ UNCHANGED <<drv, sig, mutex, sock, inbox, gone, env, hist>>
      /\ \/ proc' = proc
         \/ /\ sock # 0 /\ proc[sock] = "up"
            /\ proc' = [proc EXCEPT ![sock] = "leaving"]
  BY DEF StopShutdown
<1>3. TodoTyped' /\ starts' = starts /\ now' = [now EXCEPT ![w] = "join"]
  BY <1>1, <1>2, Returning DEF After, StopSteps
<1>4. /\ proc' \in [Pid -> ProcStates]
      /\ \A q \in Pid : proc[q] = "none" => proc'[q] = "none"
      /\ \A q \in Pid : Live(q)' => Live(q)
  BY <1>1, <1>2 DEF TypeOK, Live, LiveStates, ProcStates
<1>5. TypeOK'
  BY <1>1, <1>2, <1>3, <1>4 DEF TypeOK, TodoTyped
<1>6. Vain'
  <2>1. \A v \in Workers : gone[v] # 0 => gone[v] \in Pid
    BY <1>1, Bounds DEF TypeOK, Pid
  <2> QED
    BY <1>2, <1>4, <2>1 DEF SupervisorInv, Orderly, Vain
<1>7. Quiet
  BY <1>1, <1>2, <1>3, <1>4 DEF Quiet
<1>8. ~hist.raced => Noticed'
  BY <1>1, <1>2, <1>3, StillNoticed DEF SupervisorInv, Sane
<1> QED
  BY <1>3, <1>5, <1>6, <1>7, <1>8, QuietInv

LEMMA StopJoinInv ==
  ASSUME SupervisorInv, NEW w \in Workers, StopJoin(w)
  PROVE  SupervisorInv'
<1>1. /\ TodoTyped /\ TypeOK /\ w \in Threads /\ now[w] = "join"
      /\ now \in [Threads -> Steps \cup {"none"}] /\ Workers \subseteq Threads
  BY Standing DEF StopJoin, Steps
<1>2. /\ Returns(w) /\ mutex = None /\ mutex' = w
      /\ drv' = [drv EXCEPT !.stop = FALSE, !.error = FALSE]
      /\ sig' = [sig EXCEPT !.cancel = sig.thread]
      /\ UNCHANGED <<sock, inbox, proc, gone, env, hist>>
  BY DEF StopJoin, Free
<1>3. TodoTyped' /\ starts' = starts /\ now' = [now EXCEPT ![w] = "tear"]
  BY <1>1, <1>2, Returning DEF After, StopSteps
<1>4. now'[w] = "tear" /\ \A t \in Threads : t # w => now'[t] = now[t]
  BY <1>1, <1>3
<1>5. /\ TypeOK' /\ ~drv'.stop /\ ~drv'.error
      /\ drv'.state = drv.state /\ drv'.pid = drv.pid
      /\ drv'.stopping = drv.stopping /\ drv'.restart = drv.restart
      /\ sig'.state = sig.state /\ sig'.thread = sig.thread
  BY <1>1, <1>2, <1>3 DEF TypeOK, TodoTyped
<1>6. \A v \in Workers : now[v] \notin Launching \cup {"tear"}
  BY <1>2, SupervisorAssumption DEF SupervisorInv, Orderly, Locked
<1>7. Orderly'
  BY <1>1, <1>2, <1>4, <1>5, <1>6
     DEF SupervisorInv, Orderly, Locked, OneStops, IdleOwnsNothing, Busy, Vain,
         Stopping, Launching
<1>8. ASSUME ~hist.raced
      PROVE  Sane'
  <2>1. Sane
    BY <1>8 DEF SupervisorInv
  <2>2. Starting' = Starting
    BY <1>1, <1>3, <1>4 DEF Starting, Launching
  <2>3. Alone'
    BY <1>1, <1>4, <2>1, <2>2 DEF Sane, Alone, StopSteps
  <2>4. Torn'
    BY <1>1, <1>4, <1>5, <2>1 DEF Sane, Torn
  <2>5. Known' /\ ErrorStops'
    BY <1>2, <1>5, <2>1 DEF Sane, Known, Live, ErrorStops
  <2>6. Noticed'
    BY <1>1, <1>5 DEF Noticed, SupervisorInv, Orderly, OneStops, Stopping
  <2>7. Final'
    BY <1>2, <1>4, <2>1, <2>2 DEF Sane, Final, StopSteps
  <2> QED
    BY <2>3, <2>4, <2>5, <2>6, <2>7 DEF Sane
<1> QED
  BY <1>2, <1>3, <1>5, <1>7, <1>8 DEF SupervisorInv, Typed

LEMMA StopTearInv ==
  ASSUME SupervisorInv, NEW w \in Workers, StopTear(w)
  PROVE  SupervisorInv'
<1>1. /\ TodoTyped /\ TypeOK /\ w \in Threads /\ now[w] = "tear"
      /\ now \in [Threads -> Steps \cup {"none"}] /\ Workers \subseteq Threads
  BY Standing DEF StopTear, Steps
<1>2. /\ Returns(w) /\ mutex' = None /\ ~sig.thread
      /\ sig' = [sig EXCEPT !.state = "Idle"]
      /\ sock' = 0 /\ inbox' = <<>> /\ proc' = PeerStopped
      /\ drv' = [drv EXCEPT !.pid = 0, !.state = "Idle"]
      /\ UNCHANGED <<gone, env, hist>>
  BY DEF StopTear, Joined
<1>3. TodoTyped' /\ starts' = starts /\ now' = [now EXCEPT ![w] = "ended"]
  BY <1>1, <1>2, Returning DEF After, StopSteps
<1>4. now'[w] = "ended" /\ \A t \in Threads : t # w => now'[t] = now[t]
  BY <1>1, <1>3
<1>5. /\ proc' \in [Pid -> ProcStates]
      /\ \A p \in Pid : proc'[p] = IF p = drv.pid THEN "none" ELSE proc[p]
  BY <1>1, <1>2 DEF TypeOK, PeerStopped, ProcStates
<1>6. /\ drv'.state = "Idle" /\ drv'.pid = 0
      /\ drv'.stop = drv.stop /\ drv'.error = drv.error
      /\ drv'.stopping = drv.stopping /\ drv'.restart = drv.restart
      /\ sig'.state = "Idle" /\ ~sig'.thread
  BY <1>1, <1>2 DEF TypeOK
<1>7. TypeOK'
  <2>1. <<>> \in Seq(Messages)
    OBVIOUS
  <2> QED
    BY <1>1, <1>2, <1>3, <1>5, <2>1, Bounds
       DEF TypeOK, TodoTyped, SigStates, DriverStates
<1>8. \A v \in Workers : v # w => now[v] \notin Launching \cup {"tear"}
  BY <1>1 DEF SupervisorInv, Orderly, Locked
<1>9. Vain'
  <2>1. \A v \in Workers : gone[v] # 0 => gone[v] \in Pid
    BY <1>1, Bounds DEF TypeOK, Pid
  <2> QED
    BY <1>2, <1>5, <2>1 DEF SupervisorInv, Orderly, Vain
<1>10. Orderly'
  BY <1>1, <1>2, <1>4, <1>6, <1>8, <1>9
     DEF SupervisorInv, Orderly, Locked, OneStops, IdleOwnsNothing, Busy,
         Stopping, Launching
<1>11. ASSUME ~hist.raced
       PROVE  Sane'
  <2>1. Sane
    BY <1>11 DEF SupervisorInv
  <2>2. Starting' = Starting
    BY <1>1, <1>3, <1>4 DEF Starting, Launching
  <2>3. Alone'
    BY <1>1, <1>4, <2>1, <2>2 DEF Sane, Alone, StopSteps
  <2>4. Torn'
    BY <1>1, <1>4, <1>6, <2>1 DEF Sane, Torn
  <2>5. Known'
    BY <1>5, <1>6, <2>1 DEF Sane, Known, Live, LiveStates
  <2>6. ErrorStops'
    BY <1>2, <1>6, <2>1 DEF Sane, ErrorStops
  <2>7. Noticed'
    BY <1>6 DEF Noticed, Up
  <2>8. Final'
    BY <1>2, <1>4, <1>6, <2>1, <2>2 DEF Sane, Final, StopSteps
  <2> QED
    BY <2>3, <2>4, <2>5, <2>6, <2>7, <2>8 DEF Sane
<1> QED
  BY <1>2, <1>3, <1>7, <1>10, <1>11 DEF SupervisorInv, Typed

LEMMA StopEndedInv ==
  ASSUME SupervisorInv, NEW w \in Workers, StopEnded(w)
  PROVE  SupervisorInv'
<1>1. /\ TodoTyped /\ TypeOK /\ w \in Threads /\ now[w] = "ended"
      /\ now \in [Threads -> Steps \cup {"none"}] /\ Workers \subseteq Threads
  BY Standing DEF StopEnded, Steps
<1>2. /\ Returns(w) /\ drv' = Ended
      /\ UNCHANGED <<sig, mutex, sock, inbox, proc, gone, env, hist>>
  BY DEF StopEnded
<1>3. /\ TodoTyped' /\ starts' = starts
      /\ now' = [now EXCEPT ![w] = now'[w]]
      /\ now'[w] \in {"start", "none"} \cup Timing
  BY <1>1, <1>2, Returning DEF After, StopSteps
<1>4. \A t \in Threads : t # w => now'[t] = now[t]
  BY <1>1, <1>3
<1>5. /\ TypeOK' /\ ~drv'.stopping
      /\ drv'.state = drv.state /\ drv'.pid = drv.pid /\ drv'.stop = drv.stop
      /\ env.exiting => ~drv'.restart /\ drv'.error
      /\ ~env.exiting => drv'.error = drv.error
  BY <1>1, <1>2, <1>3 DEF TypeOK, TodoTyped, Ended
<1>6. \A v \in Workers : now'[v] \notin Stopping
  <2>1. \A v \in Workers : v # w => now[v] \notin Stopping
    BY <1>1 DEF SupervisorInv, Orderly, OneStops, Stopping
  <2> QED
    BY <1>1, <1>3, <1>4, <2>1 DEF Stopping, Timing
<1>7. Orderly'
  BY <1>1, <1>2, <1>3, <1>4, <1>5, <1>6
     DEF SupervisorInv, Orderly, Locked, OneStops, IdleOwnsNothing, Busy, Vain,
         Launching, Timing
<1>8. ASSUME ~hist.raced
      PROVE  Sane'
  <2>1. Sane
    BY <1>8 DEF SupervisorInv
  <2>2. Starting' = Starting
    BY <1>1, <1>3, <1>4 DEF Starting, Launching, Timing
  <2>3. drv.state = "Idle"
    BY <1>1, <2>1 DEF Sane, Torn
  <2>4. Alone'
    BY <1>1, <1>3, <1>4, <2>1, <2>2 DEF Sane, Alone, StopSteps, Timing
  <2>5. Torn'
    BY <1>1, <1>3, <1>4, <1>5, <2>1, <2>3 DEF Sane, Torn, Timing
  <2>6. Known' /\ ErrorStops'
    BY <1>2, <1>5, <2>1, <2>3 DEF Sane, Known, Live, ErrorStops
  <2>7. Noticed'
    BY <1>2, <1>5, <2>3
       DEF Noticed, SupervisorInv, Orderly, IdleOwnsNothing, Up
  <2>8. Final'
    BY <1>2, <1>5, <2>1, <2>2, <2>3 DEF Sane, Final
  <2> QED
    BY <2>4, <2>5, <2>6, <2>7, <2>8 DEF Sane
<1> QED
  BY <1>2, <1>3, <1>5, <1>7, <1>8 DEF SupervisorInv, Typed

-----------------------------------------------------------------------------
(* start                                                                   *)

LEMMA AtStart ==
  ASSUME TodoTyped, NEW w \in Workers, now[w] = "start"
  PROVE  w \in starts
<1>1. todo[w] \in Seq(Steps) /\ w \in Threads
  BY DEF TodoTyped, Threads
<1>2. todo[w] # <<>> /\ todo[w][1] = "start"
  BY <1>1, AtNow
<1>3. 1 \in 1 .. Len(todo[w])
  BY <1>1, <1>2
<1> QED
  BY <1>2, <1>3 DEF starts, Has

(* Who is about to start, or starts, is alone, and the engine runs.        *)
LEMMA AloneWith ==
  ASSUME Sane, NEW w \in Starting
  PROVE  /\ ~env.exiting
         /\ \A v \in Workers : v # w =>
              /\ v \notin Starting /\ v \notin starts
              /\ now[v] \notin StopSteps \cup Launching
BY DEF Sane, Alone, Final, Starting, starts

LEMMA StartEnterInv ==
  ASSUME SupervisorInv, NEW w \in Workers, StartEnter(w)
  PROVE  SupervisorInv'
<1>1. /\ TodoTyped /\ TypeOK /\ w \in Threads /\ now[w] = "start"
      /\ now \in [Threads -> Steps \cup {"none"}] /\ Workers \subseteq Threads
  BY Standing DEF StartEnter, Steps
<1>2. /\ mutex = None
      /\ UNCHANGED <<sock, inbox, proc, gone, env, hist>>
  BY DEF StartEnter, Free
<1>3. w \in starts /\ w \in Starting
  BY <1>1, AtStart DEF Starting
<1>4. CASE drv.stopped \/ AtLimit
  <2>1. Returns(w) /\ drv' = [drv EXCEPT !.stopped = TRUE]
        /\ UNCHANGED <<sig, mutex>>
    BY <1>4 DEF StartEnter
  <2>2. /\ TodoTyped' /\ starts' = starts \ {w}
        /\ now' = [now EXCEPT ![w] = now'[w]]
        /\ now'[w] \in {"none"} \cup Timing
    BY <1>1, <2>1, Returning DEF After, StopSteps
  <2>3. \A t \in Threads : t # w => now'[t] = now[t]
    BY <1>1, <2>2
  <2>4. /\ TypeOK' /\ drv'.stopping = drv.stopping
        /\ drv'.state = drv.state /\ drv'.pid = drv.pid /\ drv'.stop = drv.stop
        /\ drv'.error = drv.error /\ drv'.restart = drv.restart
    BY <1>1, <1>2, <2>1, <2>2 DEF TypeOK, TodoTyped
  <2>5. Orderly'
    BY <1>1, <1>2, <2>1, <2>2, <2>3, <2>4
       DEF SupervisorInv, Orderly, Locked, OneStops, IdleOwnsNothing, Busy, Vain,
           Stopping, Launching, Timing
  <2>6. ASSUME ~hist.raced
        PROVE  Sane'
    <3>1. Sane
      BY <2>6 DEF SupervisorInv
    <3>2. Starting' \subseteq Starting
      BY <1>1, <2>2, <2>3 DEF Starting, Launching, Timing
    <3>3. Alone'
      BY <1>1, <2>2, <2>3, <3>1, <3>2 DEF Sane, Alone, StopSteps, Timing
    <3>4. Torn'
      BY <1>1, <2>2, <2>3, <2>4, <3>1 DEF Sane, Torn, Timing
    <3>5. Known' /\ ErrorStops'
      BY <1>2, <2>4, <3>1 DEF Sane, Known, Live, ErrorStops
    <3>6. Noticed'
      BY <1>1, <1>2, <2>1, <2>2, <2>4, <3>1, StillNoticed DEF Sane
    <3>7. Final'
      BY <1>2, <1>3, <3>1, AloneWith DEF Final
    <3> QED
      BY <3>3, <3>4, <3>5, <3>6, <3>7 DEF Sane
  <2> QED
    BY <1>2, <2>2, <2>4, <2>5, <2>6 DEF SupervisorInv, Typed
<1>5. CASE ~(drv.stopped \/ AtLimit)
  <2>1. /\ drv' = [drv EXCEPT !.index = @ + 1, !.state = "Starting"]
        /\ mutex' = w
        /\ sig' = [sig EXCEPT !.cancel = sig.thread]
        /\ Goes(w, <<"launch">>)
    BY <1>5 DEF StartEnter
  <2>2. /\ TodoTyped' /\ starts' = starts \ {w}
        /\ now' = [now EXCEPT ![w] = "launch"]
    BY <1>1, <2>1, CallsOne DEF Plain, Steps, StopSteps
  <2>3. now'[w] = "launch" /\ \A t \in Threads : t # w => now'[t] = now[t]
    BY <1>1, <2>2
  <2>4. drv.index + 1 \in 0 .. MaxRestart
    BY <1>1, <1>5, Bounds DEF AtLimit, TypeOK
  <2>5. /\ TypeOK' /\ drv'.stopping = drv.stopping
        /\ drv'.state = "Starting" /\ drv'.pid = drv.pid /\ drv'.stop = drv.stop
        /\ drv'.error = drv.error /\ drv'.restart = drv.restart
        /\ sig'.state = sig.state /\ sig'.thread = sig.thread
    BY <1>1, <1>2, <2>1, <2>2, <2>4 DEF TypeOK, TodoTyped, DriverStates
  <2>6. \A v \in Workers : now[v] \notin Launching \cup {"tear"}
    BY <1>2, SupervisorAssumption DEF SupervisorInv, Orderly, Locked
  <2>7. Orderly'
    BY <1>1, <1>2, <2>1, <2>3, <2>5, <2>6
       DEF SupervisorInv, Orderly, Locked, OneStops, IdleOwnsNothing, Busy, Vain,
           Stopping, Launching
  <2>8. ASSUME ~hist.raced
        PROVE  Sane'
    <3>1. Sane
      BY <2>8 DEF SupervisorInv
    <3>2. /\ ~env.exiting
          /\ \A v \in Workers : v # w =>
               /\ v \notin Starting /\ v \notin starts
               /\ now[v] \notin StopSteps \cup Launching
      BY <1>3, <3>1, AloneWith
    <3>3. Starting' \subseteq Starting
      BY <1>1, <1>3, <2>2, <2>3 DEF Starting, Launching
    <3>4. drv.state = "Idle" /\ drv.pid = 0 /\ sig.state = "Idle"
      BY <1>1, <3>1 DEF Sane, Torn, SupervisorInv, Orderly, IdleOwnsNothing
    <3>5. Alone'
      BY <1>1, <2>3, <3>1, <3>3 DEF Sane, Alone, StopSteps
    <3>6. Torn'
      <4>1. \A v \in Workers : v # w => now[v] \notin {"ended", "start", "launch"}
        BY <1>1, <3>2, AtStart DEF StopSteps, Launching
      <4> QED
        BY <1>1, <2>3, <2>5, <3>4, <4>1 DEF Torn
    <3>7. Known' /\ ErrorStops'
      BY <1>2, <2>5, <3>1, <3>2 DEF Sane, Known, Live, ErrorStops
    <3>8. Noticed'
      BY <2>5, <3>4 DEF Noticed, Up
    <3>9. Final'
      BY <1>2, <3>2 DEF Final
    <3> QED
      BY <3>5, <3>6, <3>7, <3>8, <3>9 DEF Sane
  <2> QED
    BY <1>2, <2>2, <2>5, <2>7, <2>8 DEF SupervisorInv, Typed
<1> QED
  BY <1>4, <1>5

LEMMA LaunchFailsInv ==
  ASSUME SupervisorInv, NEW w \in Workers, LaunchFails(w)
  PROVE  SupervisorInv'
<1>1. /\ TodoTyped /\ TypeOK /\ w \in Threads /\ now[w] = "launch"
      /\ now \in [Threads -> Steps \cup {"none"}] /\ Workers \subseteq Threads
  BY Standing DEF LaunchFails, Steps
<1>2. /\ Goes(w, <<"stop">>) /\ mutex' = None
      /\ UNCHANGED <<proc, gone>>
      /\ drv' = [drv EXCEPT !.restart = FALSE, !.timed = TRUE]
      /\ hist' = [hist EXCEPT !.gaveUp = TRUE]
      /\ \/ UNCHANGED <<sig, sock, inbox>>
         \/ /\ sig' = [state |-> "Started", thread |-> TRUE, cancel |-> FALSE]
            /\ sock' = 0 /\ inbox' = <<>>
  BY DEF LaunchFails, Scheduled
<1>3. /\ TodoTyped' /\ starts' = starts \ {w}
      /\ now' = [now EXCEPT ![w] = "stop"]
  BY <1>1, <1>2, CallsOne DEF Plain, Steps, StopSteps
<1>4. now'[w] = "stop" /\ \A t \in Threads : t # w => now'[t] = now[t]
  BY <1>1, <1>3
<1>5. env' \in [exiting: {env.exiting}, cmds: 0 .. MaxCmd, fails: 0 .. MaxFail]
  BY <1>1, EnvCounts DEF LaunchFails, Counted
<1>6. /\ hist'.raced = hist.raced /\ env'.exiting = env.exiting
      /\ drv'.stopping = drv.stopping /\ ~drv'.restart
      /\ drv'.state = drv.state /\ drv'.pid = drv.pid /\ drv'.stop = drv.stop
      /\ drv'.error = drv.error
      /\ sig'.state = "Closing" => sig.state = "Closing"
  BY <1>1, <1>2, <1>5 DEF TypeOK
<1>7. TypeOK'
  <2>1. /\ drv' \in [state: DriverStates, stopped: BOOLEAN, error: BOOLEAN,
                     stop: BOOLEAN, restart: BOOLEAN, timed: BOOLEAN,
                     index: 0..MaxRestart, stopping: BOOLEAN, pid: 0..MaxPid]
        /\ hist' \in [raced: BOOLEAN, gaveUp: BOOLEAN]
    BY <1>1, <1>2 DEF TypeOK
  <2>2. /\ sig' \in [state: SigStates, thread: BOOLEAN, cancel: BOOLEAN]
        /\ sock' \in 0..MaxPid /\ inbox' \in Seq(Messages)
    <3>1. <<>> \in Seq(Messages)
      OBVIOUS
    <3>2. CASE UNCHANGED <<sig, sock, inbox>>
      BY <1>1, <3>2 DEF TypeOK
    <3>3. CASE /\ sig' = [state |-> "Started", thread |-> TRUE, cancel |-> FALSE]
               /\ sock' = 0 /\ inbox' = <<>>
      BY <3>1, <3>3, Bounds DEF SigStates
    <3> QED
      BY <1>2, <3>2, <3>3
  <2>3. env' \in [exiting: BOOLEAN, cmds: 0..MaxCmd, fails: 0..MaxFail]
    BY <1>1, <1>5 DEF TypeOK
  <2> QED
    BY <1>1, <1>2, <1>3, <2>1, <2>2, <2>3 DEF TypeOK, TodoTyped
<1>8. mutex = w /\ drv.state # "Idle" /\ w # None
  BY <1>1, SupervisorAssumption DEF SupervisorInv, Orderly, Locked, Busy, Launching
<1>9. \A v \in Workers : v # w => now[v] \notin Launching \cup {"tear"}
  BY <1>8 DEF SupervisorInv, Orderly, Locked
<1>10. Orderly'
  BY <1>1, <1>2, <1>4, <1>6, <1>8, <1>9
     DEF SupervisorInv, Orderly, Locked, OneStops, IdleOwnsNothing, Busy, Vain,
         Stopping, Launching
<1>11. ASSUME ~hist.raced
       PROVE  Sane'
  <2>1. Sane
    BY <1>11 DEF SupervisorInv
  <2>2. w \in Starting
    BY <1>1 DEF Starting, Launching
  <2>3. /\ ~env.exiting
        /\ \A v \in Workers : v # w => v \notin Starting
    BY <2>1, <2>2, AloneWith
  <2>4. Starting' = {}
    BY <1>1, <1>3, <1>4, <2>3, Projections DEF Starting, Launching
  <2>5. Alone' /\ Final'
    BY <1>6, <2>3, <2>4 DEF Alone, Final
  <2>6. Torn'
    BY <1>1, <1>4, <1>6, <2>1 DEF Sane, Torn
  <2>7. Known' /\ ErrorStops'
    BY <1>2, <1>6, <2>1 DEF Sane, Known, Live, ErrorStops
  <2>8. Noticed'
    BY <1>1, <1>3, <1>4, <1>6, <2>1, StillNoticed DEF Sane
  <2> QED
    BY <2>5, <2>6, <2>7, <2>8 DEF Sane
<1> QED
  BY <1>3, <1>6, <1>7, <1>10, <1>11 DEF SupervisorInv, Typed

LEMMA LaunchInv ==
  ASSUME SupervisorInv, NEW w \in Workers, Launch(w)
  PROVE  SupervisorInv'
<1>1. /\ TodoTyped /\ TypeOK /\ w \in Threads /\ now[w] = "launch"
      /\ now \in [Threads -> Steps \cup {"none"}] /\ Workers \subseteq Threads
  BY Standing DEF Launch, Steps
<1>2. /\ Goes(w, <<"announce">>)
      /\ UNCHANGED <<mutex, gone, env>>
      /\ sig' = [state |-> "Started", thread |-> TRUE, cancel |-> FALSE]
      /\ inbox' = <<>> /\ hist' = [hist EXCEPT !.gaveUp = FALSE]
  BY DEF Launch
<1>3. PICK p \in Pid :
        /\ Fresh(p)
        /\ proc' = [proc EXCEPT ![p] = "boot"] /\ sock' = p
        /\ drv' = [drv EXCEPT !.pid = p, !.state = "WaitHandshake"]
  BY DEF Launch
<1>4. /\ TodoTyped' /\ starts' = starts \ {w}
      /\ now' = [now EXCEPT ![w] = "announce"]
  BY <1>1, <1>2, CallsOne DEF Plain, Steps, StopSteps
<1>5. now'[w] = "announce" /\ \A t \in Threads : t # w => now'[t] = now[t]
  BY <1>1, <1>4
<1>6. /\ hist'.raced = hist.raced
      /\ drv'.stopping = drv.stopping /\ drv'.restart = drv.restart
      /\ drv'.state = "WaitHandshake" /\ drv'.pid = p /\ drv'.stop = drv.stop
      /\ drv'.error = drv.error
      /\ p # 0 /\ proc[p] = "none" /\ \A v \in Workers : gone[v] # p
  BY <1>1, <1>2, <1>3, Bounds DEF TypeOK, Fresh, Pid
<1>7. TypeOK'
  <2>1. /\ drv' \in [state: DriverStates, stopped: BOOLEAN, error: BOOLEAN,
                     stop: BOOLEAN, restart: BOOLEAN, timed: BOOLEAN,
                     index: 0..MaxRestart, stopping: BOOLEAN, pid: 0..MaxPid]
        /\ sock' \in 0..MaxPid
    BY <1>1, <1>3, Bounds DEF TypeOK, DriverStates
  <2>2. /\ sig' \in [state: SigStates, thread: BOOLEAN, cancel: BOOLEAN]
        /\ inbox' \in Seq(Messages) /\ hist' \in [raced: BOOLEAN, gaveUp: BOOLEAN]
    <3>1. <<>> \in Seq(Messages)
      OBVIOUS
    <3>2. hist' \in [raced: BOOLEAN, gaveUp: BOOLEAN]
      BY <1>1, <1>2 DEF TypeOK
    <3> QED
      BY <1>2, <3>1, <3>2 DEF SigStates
  <2>3. proc' \in [Pid -> ProcStates]
    BY <1>1, <1>3 DEF TypeOK, ProcStates
  <2> QED
    BY <1>1, <1>2, <1>4, <2>1, <2>2, <2>3 DEF TypeOK, TodoTyped
<1>8. Vain'
  <2>1. \A v \in Workers : gone[v] # 0 => gone[v] \in Pid
    BY <1>1, Bounds DEF TypeOK, Pid
  <2> QED
    BY <1>1, <1>2, <1>3, <1>6, <2>1 DEF SupervisorInv, Orderly, Vain, TypeOK
<1>9. Orderly'
  BY <1>1, <1>2, <1>5, <1>6, <1>8
     DEF SupervisorInv, Orderly, Locked, OneStops, IdleOwnsNothing, Busy,
         Stopping, Launching
<1>10. ASSUME ~hist.raced
       PROVE  Sane'
  <2>1. Sane
    BY <1>10 DEF SupervisorInv
  <2>2. w \in Starting
    BY <1>1 DEF Starting, Launching
  <2>3. /\ ~env.exiting
        /\ \A v \in Workers : v # w =>
             /\ v \notin Starting /\ v \notin starts
             /\ now[v] \notin StopSteps \cup Launching
    BY <2>1, <2>2, AloneWith
  <2>4. Starting' \subseteq {w}
    BY <1>1, <1>4, <1>5, <2>3, Projections DEF Starting, Launching
  <2>5. Alone' /\ Final'
    BY <1>1, <1>2, <1>5, <2>3, <2>4 DEF Alone, Final
  <2>6. Torn'
    <3>1. \A v \in Workers : v # w => now[v] \notin {"ended", "start", "launch"}
      BY <1>1, <2>3, AtStart DEF StopSteps, Launching
    <3> QED
      BY <1>1, <1>5, <3>1 DEF Torn
  <2>7. Known'
    <3>1. drv.pid = 0
      BY <1>1, <2>1 DEF Sane, Torn
    <3>2. \A q \in Pid : ~Live(q)
      BY <2>1, <3>1 DEF Sane, Known, Pid
    <3>3. \A q \in Pid : q # p => proc'[q] = proc[q]
      BY <1>1, <1>3 DEF TypeOK
    <3> QED
      BY <1>6, <3>2, <3>3 DEF Known, Live
  <2>8. ErrorStops'
    BY <1>6, <2>1, <2>3 DEF Sane, ErrorStops
  <2>9. Noticed'
    BY <1>2, <1>6 DEF Noticed
  <2> QED
    BY <2>5, <2>6, <2>7, <2>8, <2>9 DEF Sane
<1> QED
  BY <1>4, <1>6, <1>7, <1>9, <1>10 DEF SupervisorInv, Typed

LEMMA AnnounceInv ==
  ASSUME SupervisorInv, NEW w \in Workers, Announce(w)
  PROVE  SupervisorInv'
<1>1. /\ TodoTyped /\ TypeOK /\ w \in Threads /\ now[w] = "announce"
      /\ now \in [Threads -> Steps \cup {"none"}] /\ Workers \subseteq Threads
  BY Standing DEF Announce, Steps
<1>2. /\ Returns(w) /\ mutex' = None
      /\ sig' = [sig EXCEPT !.state = "WaitHandshake"]
      /\ drv' = [drv EXCEPT !.restart = FALSE, !.timed = TRUE]
      /\ UNCHANGED <<sock, inbox, proc, gone, env, hist>>
  BY DEF Announce, Scheduled, WaitHandshake
<1>3. /\ TodoTyped' /\ starts' = starts \ {w}
      /\ now' = [now EXCEPT ![w] = now'[w]]
      /\ now'[w] \in {"none"} \cup Timing
  BY <1>1, <1>2, Returning DEF After, StopSteps
<1>4. \A t \in Threads : t # w => now'[t] = now[t]
  BY <1>1, <1>3
<1>5. /\ TypeOK' /\ drv'.stopping = drv.stopping /\ ~drv'.restart
      /\ drv'.state = drv.state /\ drv'.pid = drv.pid /\ drv'.stop = drv.stop
      /\ drv'.error = drv.error /\ sig'.state = "WaitHandshake"
  BY <1>1, <1>2, <1>3 DEF TypeOK, TodoTyped, SigStates
<1>6. mutex = w /\ drv.state # "Idle"
  BY <1>1 DEF SupervisorInv, Orderly, Locked, Busy, Launching
<1>7. \A v \in Workers : v # w => now[v] \notin Launching \cup {"tear"}
  BY <1>6 DEF SupervisorInv, Orderly, Locked
<1>8. Orderly'
  BY <1>1, <1>2, <1>3, <1>4, <1>5, <1>6, <1>7
     DEF SupervisorInv, Orderly, Locked, OneStops, IdleOwnsNothing, Busy, Vain,
         Stopping, Launching, Timing
<1>9. ASSUME ~hist.raced
      PROVE  Sane'
  <2>1. Sane
    BY <1>9 DEF SupervisorInv
  <2>2. w \in Starting
    BY <1>1 DEF Starting, Launching
  <2>3. /\ ~env.exiting
        /\ \A v \in Workers : v # w => v \notin Starting
    BY <2>1, <2>2, AloneWith
  <2>4. Starting' = {}
    BY <1>1, <1>3, <1>4, <2>3, Projections DEF Starting, Launching, Timing
  <2>5. Alone' /\ Final'
    BY <1>2, <2>3, <2>4 DEF Alone, Final
  <2>6. Torn'
    BY <1>1, <1>3, <1>4, <1>5, <2>1 DEF Sane, Torn, Timing
  <2>7. Known' /\ ErrorStops'
    BY <1>2, <1>5, <2>1 DEF Sane, Known, Live, ErrorStops
  <2>8. Noticed'
    BY <1>1, <1>3, <1>5, <2>1, StillNoticed DEF Sane
  <2> QED
    BY <2>5, <2>6, <2>7, <2>8 DEF Sane
<1> QED
  BY <1>2, <1>3, <1>5, <1>8, <1>9 DEF SupervisorInv, Typed

-----------------------------------------------------------------------------
(* The invariant                                                           *)

LEMMA InitSupervisor == Init => SupervisorInv
<1> SUFFICES ASSUME Init
             PROVE  SupervisorInv
  OBVIOUS
<1>1. PICK w \in Workers :
        todo = [t \in Threads |-> IF t = w THEN <<"startIdle">> ELSE <<>>]
  BY DEF Init
<1> DEFINE r == <<"startIdle">>
<1>2. r \in Seq(Steps) /\ Len(r) = 1 /\ r[1] = "startIdle" /\ r # <<>>
  BY DEF Steps
<1>3. todo = [t \in Threads |-> IF t = w THEN r ELSE <<>>]
  BY <1>1
<1> HIDE DEF r
<1>4. <<>> \in Seq(Steps) /\ Len(<<>>) = 0
  OBVIOUS
<1>5. /\ Shaped(r) /\ Shaped(<<>>) /\ ~Has(r, "start") /\ ~Has(<<>>, "start")
      /\ First(r) = "startIdle" /\ First(<<>>) = "none"
  BY <1>2, <1>4 DEF Shaped, Has, First
<1>6. \A t \in Threads : todo[t] \in Seq(Steps) /\ (todo[t] = r \/ todo[t] = <<>>)
  BY <1>2, <1>3, <1>4
<1>7. TodoTyped
  BY <1>3, <1>5, <1>6 DEF TodoTyped, Threads
<1>8. \A v \in Workers : v \notin starts /\ now[v] \in {"startIdle", "none"}
  BY <1>5, <1>6 DEF starts, now, Threads
<1>9. Starting = {}
  BY <1>8 DEF Starting, starts, Launching
<1>10. TypeOK
  <2>1. <<>> \in Seq(Messages)
    OBVIOUS
  <2> QED
    BY <1>7, <2>1, Bounds
       DEF Init, TypeOK, TodoTyped, DriverStates, SigStates, ProcStates
<1>11. Orderly
  BY <1>8 DEF Init, Orderly, Locked, OneStops, IdleOwnsNothing, Busy, Vain,
              Stopping, Launching
<1>12. Sane
  <2>1. Alone /\ Torn /\ Final
    BY <1>8, <1>9 DEF Init, Alone, Torn, Final
  <2>2. Known /\ ErrorStops /\ Noticed
    BY DEF Init, Known, Live, LiveStates, ErrorStops, Noticed, Up
  <2> QED
    BY <2>1, <2>2 DEF Sane
<1> QED
  BY <1>7, <1>10, <1>11, <1>12 DEF SupervisorInv, Typed

LEMMA WorkerStepInv ==
  ASSUME SupervisorInv, NEW w \in Workers, WorkerStep(w)
  PROVE  SupervisorInv'
<1>1. w \in Threads
  BY DEF Threads
<1> QED
  BY <1>1, CmdStartStopInv, StartIdleInv, StopDueInv, NotDueInv, PeerTimesOutInv,
     PeerFoundDeadInv, VanishedInv, AskInv, RestartInv, StopNoRestartInv,
     StopEnterInv, StopShutdownInv, StopJoinInv, StopTearInv, StopEndedInv,
     StartEnterInv, LaunchFailsInv, LaunchInv, AnnounceInv
     DEF WorkerStep

LEMMA NextSupervisor ==
  ASSUME SupervisorInv, [Next]_vars
  PROVE  SupervisorInv'
<1>1. CASE \E w \in Workers : Tick(w) \/ Command(w) \/ Halt(w) \/ WorkerStep(w)
  BY <1>1, TickInv, CommandInv, HaltInv, WorkerStepInv
<1>2. CASE SignallingStep
  <2>1. Sig \in Threads
    BY DEF Threads
  <2> QED
    BY <1>2, <2>1, ReceiveInv, HandshakeDoneInv, HandshakeAnsweredInv,
       RadioReadyInv, ThreadEndsInv, AskInv, RestartInv, StopNoRestartInv
       DEF SignallingStep
<1>3. CASE ReadFails
  BY <1>3, ReceiveInv
<1>4. CASE \E p \in Pid : PeerStep(p) \/ PeerGivesUp(p) \/ PeerFails(p)
  BY <1>4, PeerInv
<1>5. CASE UNCHANGED vars
  <2>1. UNCHANGED <<drv, sig, todo, mutex, sock, inbox, proc, gone, env, hist>>
    BY <1>5 DEF vars
  <2>2. now' = now /\ starts' = starts
    BY <2>1 DEF now, starts
  <2>3. Quiet
    BY <2>1, <2>2 DEF Quiet, Live
  <2>4. TypeOK' /\ TodoTyped' /\ Vain'
    BY <2>1 DEF SupervisorInv, Typed, TypeOK, TodoTyped, Orderly, Vain
  <2>5. ~hist.raced => Noticed'
    BY <2>1, <2>2 DEF SupervisorInv, Sane, Noticed
  <2> QED
    BY <2>3, <2>4, <2>5, QuietInv
<1> QED
  BY <1>1, <1>2, <1>3, <1>4, <1>5 DEF Next

THEOREM SupervisorInvariant == Spec => []SupervisorInv
<1>1. Init => SupervisorInv
  BY InitSupervisor
<1>2. SupervisorInv /\ [Next]_vars => SupervisorInv'
  BY NextSupervisor
<1> QED
  BY <1>1, <1>2, PTL DEF Spec

(* The state of the driver, of the signalling and of every thread is typed *)
(* in every interleaving of start, stop, restart and the ticks.            *)
THEOREM SupervisorTyped == Spec => []TypeOK
<1>1. SupervisorInv => TypeOK
  BY DEF SupervisorInv, Typed
<1> QED
  BY <1>1, SupervisorInvariant, PTL

(* YBTSDriver::stop and start leave no process, socket or thread with an   *)
(* idle driver.                                                            *)
THEOREM IdleIsEmpty == Spec => []IdleOwnsNothing
<1>1. SupervisorInv => IdleOwnsNothing
  BY DEF SupervisorInv, Orderly
<1> QED
  BY <1>1, SupervisorInvariant, PTL

(* As long as no two calls of start and stop run into each other, an mbts  *)
(* that runs is the one whose pid the driver keeps.                        *)
THEOREM NobodyIsOrphaned == Spec => []NoOrphan
<1>1. SupervisorInv => NoOrphan
  BY DEF SupervisorInv, Sane, Known, NoOrphan
<1> QED
  BY <1>1, SupervisorInvariant, PTL

(* A peer given up or gone is followed by a stop: whoever calls restart()  *)
(* finds the driver stopping, or asks it to stop.                          *)
THEOREM LossIsFollowedUp == Spec => []LossIsNoticed
<1>1. ASSUME SupervisorInv
      PROVE  LossIsNoticed
  <2>1. TodoTyped
    BY <1>1 DEF SupervisorInv, Typed
  <2>2. \A t \in Threads :
          now[t] \in {"restart", "restartLock"} =>
            Does(t, {"restart", "restartLock", "vanished"})
    <3> SUFFICES ASSUME NEW t \in Threads, now[t] \in {"restart", "restartLock"}
                 PROVE  Does(t, {"restart", "restartLock", "vanished"})
      OBVIOUS
    <3>1. todo[t] # <<>> /\ now[t] = todo[t][1] /\ todo[t] \in Seq(Steps)
      BY <2>1, AtNow DEF TodoTyped
    <3>2. 1 \in 1 .. Len(todo[t])
      BY <3>1
    <3> QED
      BY <3>1, <3>2 DEF Does
  <2> QED
    BY <1>1, <2>2 DEF SupervisorInv, Sane, Noticed, LossIsNoticed, Restarting
<1> QED
  BY <1>1, SupervisorInvariant, PTL

(* After the halt of the engine, once every thread has done its part, the  *)
(* driver is idle for good: no thread has a start ahead of it.             *)
THEOREM TheExitIsFinal == Spec => []ExitIsFinal
<1>1. ASSUME SupervisorInv
      PROVE  ExitIsFinal
  <2>1. TodoTyped
    BY <1>1 DEF SupervisorInv, Typed
  <2>2. \A w \in Workers : todo[w] = <<>> => now[w] \notin StopSteps
    BY <2>1, AtNow DEF StopSteps, Threads
  <2> QED
    BY <1>1, <2>2 DEF SupervisorInv, Sane, Final, ExitIsFinal
<1> QED
  BY <1>1, SupervisorInvariant, PTL

=============================================================================
