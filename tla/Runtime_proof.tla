---------------------------- MODULE Runtime_proof ----------------------------
(***************************************************************************)
(* The safety of ui::run for any keys typed, signals, pipe capacity and    *)
(* kind of application: types, the signal loop's wake-up, and the path of  *)
(* every keystroke from the terminal to the application.                   *)
(***************************************************************************)
EXTENDS Runtime, SequenceTheorems, TLAPS

Decoded == {"text", "escape", "ctrl_c"}

(* A caller that may begin a shutdown has finished its previous one.       *)
CallersIdle ==
  /\ upd_pc \in {"sleep", "pop", "waiting", "handle"} => rs["update"] = "idle"
  /\ owed => rs["input"] = "idle"

(* The stations a keystroke cannot be at while their owner is elsewhere.   *)
Empty ==
  /\ waiting => queue = <<>>
  /\ upd_pc # "handle" => taken = <<>>
  /\ inp_pc # "publish" => batch = <<>>

Core == RuntimeTypeOK /\ CallersIdle /\ Empty /\ SignalLoopAwake

(* What only a shutdown leads to finds it requested; the queue is closed by *)
(* input_loop's last step.                                                 *)
StopFirst ==
  /\ \A c \in Caller : rs[c] \in {"notify", "wake_input"} => stop
  /\ stop_pipe => stop
  /\ inp_pc \in {"flush", "close"} => stop
  /\ inp_pc = "publish" /\ inp_ret = "close" => stop
  /\ queue_stopped => stop /\ inp_pc = "done"

RuntimeInv == Core /\ StopFirst /\ KeysConserved
-----------------------------------------------------------------------------
(* Sequences.                                                              *)

LEMMA EventsTyped ==
  ASSUME NEW s \in Seq(Keys)
  PROVE  Events(s) \in Seq(Decoded) /\ Len(Events(s)) = Len(s)
<1>1. Len(s) \in Nat /\ \A i \in 1 .. Len(s) : s[i] \in Keys
  BY LenProperties, ElementOfSeq
<1>2. \A i \in 1 .. Len(s) : AsEvent(s[i]) \in Decoded
  BY <1>1, RuntimeAssumption DEF AsEvent, Decoded
<1>3. Events(s) \in [1 .. Len(s) -> Decoded]
  BY <1>2 DEF Events
<1> QED
  BY <1>1, <1>3, SeqDef, LenProperties

LEMMA EventsAppend ==
  ASSUME NEW s \in Seq(Keys), NEW k \in Keys
  PROVE  Events(Append(s, k)) = Events(s) \o <<AsEvent(k)>>
<1> DEFINE a == Append(s, k)
           e == Events(s) \o <<AsEvent(k)>>
<1>1. /\ a \in Seq(Keys) /\ Len(a) = Len(s) + 1 /\ Len(s) \in Nat
      /\ \A i \in 1 .. Len(s) : a[i] = s[i]
      /\ a[Len(s) + 1] = k
  BY AppendProperties, LenProperties
<1>2. Events(s) \in Seq(Decoded) /\ Len(Events(s)) = Len(s)
  BY EventsTyped
<1>3. Events(a) \in Seq(Decoded) /\ Len(Events(a)) = Len(s) + 1
  BY <1>1, EventsTyped
<1>4. AsEvent(k) \in Decoded
  BY RuntimeAssumption DEF AsEvent, Decoded
<1>5. /\ <<AsEvent(k)>> \in Seq(Decoded) /\ Len(<<AsEvent(k)>>) = 1
      /\ <<AsEvent(k)>>[1] = AsEvent(k)
  BY <1>4
<1>6. /\ e \in Seq(Decoded) /\ Len(e) = Len(s) + 1
      /\ \A i \in 1 .. Len(s) + 1 :
           e[i] = IF i <= Len(s) THEN Events(s)[i] ELSE <<AsEvent(k)>>[i - Len(s)]
  BY <1>2, <1>5, ConcatProperties
<1>7. ASSUME NEW i \in 1 .. Len(s) + 1 PROVE Events(a)[i] = e[i]
  <2>1. Events(a)[i] = AsEvent(a[i])
    BY <1>1 DEF Events
  <2>2. CASE i <= Len(s)
    <3>1. i \in 1 .. Len(s)
      BY <2>2, <1>1
    <3>2. Events(s)[i] = AsEvent(s[i])
      BY <3>1 DEF Events
    <3> HIDE DEF a, e
    <3> QED
      BY <2>1, <2>2, <3>1, <3>2, <1>1, <1>6
  <2>3. CASE ~(i <= Len(s))
    <3>1. i = Len(s) + 1 /\ i - Len(s) = 1
      BY <2>3, <1>1
    <3>2. e[i] = <<AsEvent(k)>>[1]
      BY <1>6, <2>3, <3>1
    <3> HIDE DEF a, e
    <3> QED
      BY <2>1, <3>1, <3>2, <1>1, <1>5
  <2> QED
    BY <2>2, <2>3
<1> HIDE DEF a, e
<1>8. Events(a) = e
  BY <1>3, <1>6, <1>7, SeqEqual
<1> QED
  BY <1>8 DEF a, e

(* What feed decodes and what it keeps are what it held and what it read.  *)
LEMMA FedLeft ==
  ASSUME NEW s \in Seq(Keys), parser \in Seq(Decoded)
  PROVE  /\ Fed(s) \in Seq(Decoded)
         /\ Left(s) \in {<<>>, <<"escape">>}
         /\ Fed(s) \o Left(s) = parser \o Events(s)
<1>1. Events(s) \in Seq(Decoded) /\ parser \o Events(s) \in Seq(Decoded)
  BY EventsTyped, ConcatProperties
<1>2. CASE ~EndsInEsc(s)
  <2>1. Fed(s) = parser \o Events(s) /\ Left(s) = <<>>
    BY <1>2 DEF Fed, Left
  <2> QED
    BY <1>1, <2>1, ConcatEmptySeq
<1>3. CASE EndsInEsc(s)
  <2> DEFINE f == Front(s)
  <2>1. Len(s) \in Nat \ {0}
    BY <1>3, EmptySeq DEF EndsInEsc
  <2>2. f = SubSeq(s, 1, Len(s) - 1)
    BY DEF Front
  <2>3. \A i \in 1 .. Len(s) - 1 : s[i] \in Keys
    BY <2>1, ElementOfSeq
  <2>4. f \in Seq(Keys)
    <3>1. Len(s) - 1 \in Int /\ 1 \in Int
      BY <2>1
    <3> QED
      BY <2>2, <2>3, <3>1, SubSeqProperties
  <2>5. s[Len(s)] \in Keys /\ s[Len(s)] = "lone_esc"
    BY <1>3, <2>1, ElementOfSeq DEF EndsInEsc, Last
  <2>6. Append(f, "lone_esc") = s
    <3>1. 1 \in 1 .. Len(s) /\ Len(s) \in 1 .. Len(s)
      BY <2>1
    <3>2. SubSeq(s, 1, Len(s)) = SubSeq(s, 1, Len(s) - 1) \o <<s[Len(s)]>>
      BY <3>1, SubSeqRecursiveSecond
    <3>3. s = SubSeq(s, 1, Len(s) - 1) \o <<"lone_esc">>
      BY <3>2, <2>5, SubSeqFull
    <3>4. s = f \o <<"lone_esc">>
      BY <3>3, <2>2
    <3> HIDE DEF f
    <3> QED
      BY <3>4, <2>4, <2>5, AppendIsConcat
  <2>7. Events(s) = Events(f) \o <<"escape">>
    <3> HIDE DEF f
    <3>1. Events(Append(f, "lone_esc")) = Events(f) \o <<AsEvent("lone_esc")>>
      BY <2>4, <2>5, EventsAppend
    <3> QED
      BY <3>1, <2>6 DEF AsEvent
  <2>8. Fed(s) = parser \o Events(f) /\ Left(s) = <<"escape">>
    BY <1>3 DEF Fed, Left
  <2>9. Events(f) \in Seq(Decoded) /\ <<"escape">> \in Seq(Decoded)
    BY <2>4, EventsTyped DEF Decoded
  <2> HIDE DEF f
  <2> QED
    BY <2>7, <2>8, <2>9, ConcatAssociative, ConcatProperties
<1> QED
  BY <1>2, <1>3

(* The moves of a keystroke, one per action that makes one.  In each, x is *)
(* what lies before the stations the action touches.                       *)

(* Type: a key joins the end.                                              *)
LEMMA MoveType ==
  ASSUME NEW S, NEW x \in Seq(S), NEW e \in Seq(S), NEW k \in Seq(S)
  PROVE  x \o (e \o k) = (x \o e) \o k
OBVIOUS

(* PollTimeout and Flush: the pending byte becomes the batch.              *)
LEMMA MovePending ==
  ASSUME NEW S, NEW x \in Seq(S), NEW p \in Seq(S)
  PROVE  x \o p \o <<>> = x \o <<>> \o p
OBVIOUS

(* Publish: the first event of the batch is queued.                        *)
LEMMA MoveQueue ==
  \A x, q, b \in Seq(Decoded) : b # <<>> =>
    x \o Append(q, Head(b)) \o Tail(b) = x \o q \o b
<1> SUFFICES ASSUME NEW x \in Seq(Decoded), NEW q \in Seq(Decoded),
                    NEW b \in Seq(Decoded), b # <<>>
             PROVE  x \o Append(q, Head(b)) \o Tail(b) = x \o q \o b
  OBVIOUS
<1>1. Head(b) \in Decoded /\ Tail(b) \in Seq(Decoded) /\ <<Head(b)>> \o Tail(b) = b
  BY HeadTailProperties
<1>2. Append(q, Head(b)) = q \o <<Head(b)>> /\ <<Head(b)>> \in Seq(Decoded)
  BY <1>1
<1>3. \A y, z \in Seq(Decoded) : x \o (q \o y) \o z = x \o q \o (y \o z)
  OBVIOUS
<1> QED
  BY <1>1, <1>2, <1>3

(* Publish to a waiting application, and Pop: the first event is taken.    *)
LEMMA MoveTake ==
  ASSUME NEW S, NEW h \in Seq(S), NEW s \in Seq(S), s # <<>>
  PROVE  /\ h \o <<Head(s)>> \o Tail(s) = h \o <<>> \o s
         /\ h \o <<Head(s)>> \o <<>> \o <<>> = h \o <<Head(s)>>
         /\ h \o <<>> \o <<>> \o <<>> = h \o <<>>
OBVIOUS

(* HangUp: the pending byte is thrown away.                                *)
LEMMA MoveDrop ==
  ASSUME NEW S, NEW x \in Seq(S), NEW p \in Seq(S)
  PROVE  x \o p \o <<>> \o <<>> = x \o <<>> \o <<>> \o p
OBVIOUS
-----------------------------------------------------------------------------
(* Everything but the keys: types, idle callers, empty stations, wake-up.  *)

LEMMA RuntimeInit == Init => RuntimeInv
<1> SUFFICES ASSUME Init PROVE RuntimeInv
  OBVIOUS
<1>1. RuntimeTypeOK
  <2>1. /\ <<>> \in Seq(Keys) /\ <<>> \in Seq({"text", "escape", "ctrl_c"})
        /\ <<>> \in Seq({"int", "winch", "stop"}) /\ Len(<<>>) = 0
    BY EmptySeq
  <2>2. rs \in [Caller -> {"idle", "stop", "notify", "wake_input"}]
    BY DEF Init
  <2>3. /\ stop \in BOOLEAN /\ stop_pipe \in BOOLEAN /\ owed \in BOOLEAN
        /\ queue_stopped \in BOOLEAN /\ waiting \in BOOLEAN /\ inline \in BOOLEAN
    BY DEF Init
  <2>4. waiting <=> upd_pc = "waiting"
    BY DEF Init
  <2> QED
    BY <2>1, <2>2, <2>3, <2>4, RuntimeAssumption DEF Init, RuntimeTypeOK
<1>2. CallersIdle /\ Empty /\ SignalLoopAwake
  BY DEF Init, CallersIdle, Empty, SignalLoopAwake
<1>3. KeysAccounted /\ DroppedAtTheEnd
  BY DEF Init, KeysAccounted, DroppedAtTheEnd, Events
<1>4. StopFirst
  BY DEF Init, StopFirst
<1> QED
  BY <1>1, <1>2, <1>3, <1>4 DEF RuntimeInv, Core, KeysConserved

(* A byte dropped because the pipe is full leaves a pipe that is not empty.*)
LEMMA NotifyFills ==
  ASSUME RuntimeTypeOK, NEW b \in {"int", "winch", "stop"}, Notify(b)
  PROVE  /\ pipe' \in Seq({"int", "winch", "stop"}) /\ Len(pipe') <= PipeCapacity
         /\ pipe' # <<>>
<1>1. pipe \in Seq({"int", "winch", "stop"}) /\ Len(pipe) <= PipeCapacity /\ Len(pipe) \in Nat
  BY LenProperties DEF RuntimeTypeOK
<1>2. CASE Len(pipe) < PipeCapacity
  <2>1. pipe' = Append(pipe, b)
    BY <1>2 DEF Notify
  <2>2. pipe' \in Seq({"int", "winch", "stop"}) /\ Len(pipe') = Len(pipe) + 1 /\ pipe' # <<>>
    BY <1>1, <2>1, AppendProperties
  <2> QED
    BY <1>1, <1>2, <2>2, RuntimeAssumption
<1>3. CASE ~(Len(pipe) < PipeCapacity)
  <2>1. pipe' = pipe
    BY <1>3 DEF Notify
  <2>2. Len(pipe) # 0
    BY <1>1, <1>3, RuntimeAssumption
  <2> QED
    BY <1>1, <2>1, <2>2, EmptySeq
<1> QED
  BY <1>2, <1>3

LEMMA PendingTyped == RuntimeTypeOK => parser \in Seq(Decoded) /\ taken \in Seq(Decoded)
<1> SUFFICES ASSUME RuntimeTypeOK PROVE parser \in Seq(Decoded) /\ taken \in Seq(Decoded)
  OBVIOUS
<1>1. \A x \in Decoded : <<x>> \in Seq(Decoded)
  OBVIOUS
<1>2. <<>> \in Seq(Decoded)
  BY EmptySeq
<1>3. parser = <<>> \/ parser = <<"escape">>
  BY DEF RuntimeTypeOK
<1>4. \/ taken = <<>> \/ taken = <<"text">> \/ taken = <<"escape">> \/ taken = <<"ctrl_c">>
  BY DEF RuntimeTypeOK
<1> QED
  BY <1>1, <1>2, <1>3, <1>4 DEF Decoded

LEMMA ShutdownSteps ==
  ASSUME Core, NEW c \in Caller, Shutdown(c)
  PROVE  Core'
<1> USE DEF config, world, request, input, channel, upd, rest
<1>1. CASE RequestStop(c)
  BY <1>1 DEF RequestStop, Core, RuntimeTypeOK, CallersIdle, Empty, SignalLoopAwake, Caller
<1>2. CASE WakeSignals(c)
  <2>1. /\ pipe' \in Seq({"int", "winch", "stop"}) /\ Len(pipe') <= PipeCapacity
        /\ pipe' # <<>>
    BY <1>2, NotifyFills DEF WakeSignals, Core
  <2>2. RuntimeTypeOK' /\ CallersIdle' /\ Empty'
    BY <1>2, <2>1 DEF WakeSignals, Core, RuntimeTypeOK, CallersIdle, Empty, Caller
  <2>3. SignalLoopAwake'
    BY <2>1 DEF SignalLoopAwake
  <2> QED
    BY <2>2, <2>3 DEF Core
<1>3. CASE WakeInput(c)
  BY <1>3 DEF WakeInput, Core, RuntimeTypeOK, CallersIdle, Empty, SignalLoopAwake, Caller
<1> QED
  BY <1>1, <1>2, <1>3 DEF Shutdown

LEMMA SignalSteps ==
  ASSUME Core, SignalLoop
  PROVE  Core'
<1> USE DEF config, world, request, input, channel, upd, rest
<1>1. CASE SignalGuard
  BY <1>1, RuntimeAssumption DEF SignalGuard, Core, RuntimeTypeOK, CallersIdle, Empty,
     SignalLoopAwake, Caller
<1>2. CASE SignalReadable
  BY <1>2, RuntimeAssumption DEF SignalReadable, Core, RuntimeTypeOK, CallersIdle, Empty,
     SignalLoopAwake, Caller
<1>3. CASE SignalRead
  <2>1. SignalLoopAwake'
    BY <1>3 DEF SignalRead, SignalLoopAwake
  <2>2. CASE pipe = <<>>
    BY <1>3, <2>1, <2>2 DEF SignalRead, Core, RuntimeTypeOK, CallersIdle, Empty, Caller
  <2>3. CASE pipe # <<>>
    <3>1. pipe' = Tail(pipe)
      BY <1>3, <2>3 DEF SignalRead
    <3>2. pipe' \in Seq({"int", "winch", "stop"}) /\ Len(pipe') <= PipeCapacity
      <4>1. Len(pipe) \in Nat /\ Len(pipe) <= PipeCapacity
        BY LenProperties DEF Core, RuntimeTypeOK
      <4>2. pipe' \in Seq({"int", "winch", "stop"}) /\ Len(pipe') = Len(pipe) - 1
        BY <2>3, <3>1, HeadTailProperties DEF Core, RuntimeTypeOK
      <4> QED
        BY <4>1, <4>2, RuntimeAssumption
    <3>3. sig_pc' \in {"done", "drain"}
      BY <1>3, <2>3 DEF SignalRead
    <3>4. /\ rs' \in [Caller -> {"idle", "stop", "notify", "wake_input"}]
          /\ \A c \in Caller \ {"signal"} : rs'[c] = rs[c]
      BY <1>3, <2>3 DEF SignalRead, BeginShutdown, Core, RuntimeTypeOK, Caller
    <3> QED
      BY <1>3, <2>1, <3>2, <3>3, <3>4 DEF SignalRead, Core, RuntimeTypeOK, CallersIdle,
         Empty, Caller
  <2> QED
    BY <2>2, <2>3
<1> QED
  BY <1>1, <1>2, <1>3 DEF SignalLoop

LEMMA InputSteps ==
  ASSUME Core, InputLoop
  PROVE  Core'
<1> USE DEF config, world, request, input, channel, upd, rest
<1>1. CASE InputStart
  BY <1>1, RuntimeAssumption DEF InputStart, Core, RuntimeTypeOK, CallersIdle, Empty,
     SignalLoopAwake, Caller
<1>2. CASE InputGuard
  BY <1>2, RuntimeAssumption DEF InputGuard, Core, RuntimeTypeOK, CallersIdle, Empty,
     SignalLoopAwake, Caller
<1>3. CASE PollReadable
  BY <1>3, RuntimeAssumption DEF PollReadable, Core, RuntimeTypeOK, CallersIdle, Empty,
     SignalLoopAwake, Caller
<1>4. CASE PollTimeout
  <2>1. batch' \in Seq({"text", "escape", "ctrl_c"}) /\ parser' \in {<<>>, <<"escape">>}
    <3>1. parser \in Seq(Decoded)
      BY PendingTyped DEF Core
    <3> QED
      BY <1>4, <3>1 DEF PollTimeout, Decoded
  <2> QED
    BY <1>4, <2>1 DEF PollTimeout, Core, RuntimeTypeOK, CallersIdle, Empty,
       SignalLoopAwake, Caller
<1>5. CASE PollCancelled
  BY <1>5, RuntimeAssumption DEF PollCancelled, Core, RuntimeTypeOK, CallersIdle, Empty,
     SignalLoopAwake, Caller
<1>6. CASE ReadGuard
  BY <1>6, RuntimeAssumption DEF ReadGuard, Core, RuntimeTypeOK, CallersIdle, Empty,
     SignalLoopAwake, Caller
<1>7. CASE ReadSome
  <2>1. /\ batch' \in Seq({"text", "escape", "ctrl_c"}) /\ parser' \in {<<>>, <<"escape">>}
        /\ stdin' \in Seq(Keys)
    <3>1. parser \in Seq(Decoded) /\ stdin \in Seq(Keys)
      BY PendingTyped DEF Core, RuntimeTypeOK
    <3> QED
      BY <1>7, <3>1, FedLeft, EmptySeq DEF ReadSome, Decoded
  <2> QED
    BY <1>7, <2>1 DEF ReadSome, Core, RuntimeTypeOK, CallersIdle, Empty, SignalLoopAwake,
       Caller
<1>8. CASE ReadNothing
  BY <1>8, RuntimeAssumption DEF ReadNothing, Core, RuntimeTypeOK, CallersIdle, Empty,
     SignalLoopAwake, Caller
<1>9. CASE Publish
  <2>1. /\ Head(batch) \in {"text", "escape", "ctrl_c"}
        /\ Tail(batch) \in Seq({"text", "escape", "ctrl_c"})
    BY <1>9, HeadTailProperties DEF Publish, Core, RuntimeTypeOK
  <2>2. owed' \in BOOLEAN
    BY <1>9 DEF Publish
  <2>3. CASE waiting
    <3>1. taken' \in {<<"text">>, <<"escape">>, <<"ctrl_c">>}
      BY <1>9, <2>1, <2>3 DEF Publish
    <3>2. /\ waiting' = FALSE /\ upd_pc' = "handle" /\ inline' = TRUE /\ queue' = queue
          /\ rs["update"] = "idle"
      BY <1>9, <2>3 DEF Publish, Core, CallersIdle, RuntimeTypeOK
    <3>3. waiting' \in BOOLEAN /\ inline' \in BOOLEAN
      BY <3>2
    <3> QED
      BY <1>9, <2>1, <2>2, <3>1, <3>2, <3>3 DEF Publish, Core, RuntimeTypeOK, CallersIdle,
         Empty, SignalLoopAwake, Caller
  <2>4. CASE ~waiting
    <3>1. queue' = Append(queue, Head(batch)) /\ UNCHANGED <<waiting, taken, upd_pc, inline>>
      BY <1>9, <2>4 DEF Publish
    <3>2. queue' \in Seq({"text", "escape", "ctrl_c"})
      BY <2>1, <3>1, AppendProperties DEF Core, RuntimeTypeOK
    <3> QED
      BY <1>9, <2>1, <2>4, <2>2, <3>1, <3>2 DEF Publish, Core, RuntimeTypeOK, CallersIdle,
         Empty, SignalLoopAwake, Caller
  <2> QED
    BY <2>3, <2>4
<1>10. CASE CtrlC
  <2>1. /\ rs["input"] = "idle" /\ owed' = FALSE
        /\ rs' \in [Caller -> {"idle", "stop", "notify", "wake_input"}]
        /\ \A c \in Caller \ {"input"} : rs'[c] = rs[c]
    BY <1>10 DEF CtrlC, BeginShutdown, Core, CallersIdle, RuntimeTypeOK, Caller
  <2>2. SignalLoopAwake'
    BY <1>10, <2>1 DEF CtrlC, Core, SignalLoopAwake, Caller
  <2>3. owed' \in BOOLEAN
    BY <2>1
  <2> QED
    BY <1>10, <2>1, <2>2, <2>3 DEF CtrlC, Core, RuntimeTypeOK, CallersIdle, Empty, Caller
<1>11. CASE PublishDone
  BY <1>11, RuntimeAssumption DEF PublishDone, Core, RuntimeTypeOK, CallersIdle, Empty,
     SignalLoopAwake, Caller
<1>12. CASE Flush
  <2>1. batch' \in Seq({"text", "escape", "ctrl_c"}) /\ parser' \in {<<>>, <<"escape">>}
    <3>1. parser \in Seq(Decoded)
      BY PendingTyped DEF Core
    <3> QED
      BY <1>12, <3>1 DEF Flush, Decoded
  <2> QED
    BY <1>12, <2>1 DEF Flush, Core, RuntimeTypeOK, CallersIdle, Empty, SignalLoopAwake, Caller
<1>13. CASE CloseInput
  <2>1. /\ waiting' \in BOOLEAN /\ queue_stopped' \in BOOLEAN
        /\ queue' = <<>> /\ queue' \in Seq({"text", "escape", "ctrl_c"})
        /\ dropped' \in Seq({"text", "escape", "ctrl_c"})
    BY <1>13, EmptySeq DEF CloseInput, Core, RuntimeTypeOK
  <2>2. CASE waiting
    <3>1. upd_pc = "waiting" /\ upd_pc' = "done"
      BY <1>13, <2>2 DEF CloseInput, Core, RuntimeTypeOK
    <3> QED
      BY <1>13, <2>1, <3>1 DEF CloseInput, Core, RuntimeTypeOK, CallersIdle, Empty,
         SignalLoopAwake, Caller
  <2>3. CASE ~waiting
    <3>1. upd_pc # "waiting" /\ upd_pc' = upd_pc
      BY <1>13, <2>3 DEF CloseInput, Core, RuntimeTypeOK
    <3> QED
      BY <1>13, <2>1, <3>1 DEF CloseInput, Core, RuntimeTypeOK, CallersIdle, Empty,
         SignalLoopAwake, Caller
  <2> QED
    BY <2>2, <2>3
<1> QED
  BY <1>1, <1>2, <1>3, <1>4, <1>5, <1>6, <1>7, <1>8, <1>9, <1>10, <1>11, <1>12, <1>13 DEF
     InputLoop

LEMMA UpdateSteps ==
  ASSUME Core, Update
  PROVE  Core'
<1> USE DEF config, world, request, input, channel, upd, rest
<1>1. CASE UpdateGuard
  <2>1. /\ upd_pc = "guard" /\ rs["update"] = "idle"
        /\ upd_pc' \in {"done", "pop", "sleep"} /\ inline' \in BOOLEAN
    BY <1>1 DEF UpdateGuard, Core, RuntimeTypeOK
  <2> QED
    BY <1>1, <2>1 DEF UpdateGuard, Core, RuntimeTypeOK, CallersIdle, Empty,
       SignalLoopAwake, Caller
<1>2. CASE WakeSleeper
  BY <1>2, RuntimeAssumption DEF WakeSleeper, BeginShutdown, Core, RuntimeTypeOK,
     CallersIdle, Empty, SignalLoopAwake, Caller
<1>3. CASE SleeperReturn
  BY <1>3, RuntimeAssumption DEF SleeperReturn, Core, RuntimeTypeOK, CallersIdle, Empty,
     SignalLoopAwake, Caller
<1>4. CASE Pop
  <2>1. waiting' \in BOOLEAN /\ inline' \in BOOLEAN
    BY <1>4 DEF Pop, Core, RuntimeTypeOK
  <2>2. CASE queue_stopped
    BY <1>4, <2>2, <2>1 DEF Pop, Core, RuntimeTypeOK, CallersIdle, Empty, SignalLoopAwake,
       Caller
  <2>3. CASE ~queue_stopped /\ queue # <<>>
    <3>1. /\ taken' \in {<<"text">>, <<"escape">>, <<"ctrl_c">>}
          /\ queue' \in Seq({"text", "escape", "ctrl_c"})
      <4>1. /\ Head(queue) \in {"text", "escape", "ctrl_c"}
            /\ Tail(queue) \in Seq({"text", "escape", "ctrl_c"})
        BY <2>3, HeadTailProperties DEF Core, RuntimeTypeOK
      <4> QED
        BY <1>4, <2>3, <4>1 DEF Pop
    <3> QED
      BY <1>4, <2>3, <3>1 DEF Pop, Core, RuntimeTypeOK, CallersIdle, Empty,
         SignalLoopAwake, Caller
  <2>4. CASE ~queue_stopped /\ queue = <<>>
    <3>1. /\ upd_pc = "pop" /\ upd_pc' = "waiting" /\ waiting' = TRUE
          /\ queue' = <<>> /\ rs["update"] = "idle"
      BY <1>4, <2>4 DEF Pop, Core, CallersIdle
    <3>2. (waiting <=> upd_pc = "waiting")'
      BY <3>1
    <3> QED
      BY <1>4, <2>4, <2>1, <3>1, <3>2 DEF Pop, Core, RuntimeTypeOK, CallersIdle, Empty,
         SignalLoopAwake, Caller
  <2> QED
    BY <1>4, <2>2, <2>3, <2>4 DEF Pop
<1>5. CASE Handle
  <2>1. handled' \in Seq({"text", "escape", "ctrl_c"})
    <3>1. taken \in Seq(Decoded) /\ handled \in Seq(Decoded)
      BY PendingTyped DEF Core, RuntimeTypeOK, Decoded
    <3>2. handled \o taken \in Seq(Decoded)
      BY <3>1, ConcatProperties
    <3> QED
      BY <1>5, <3>2 DEF Handle, Decoded
  <2>2. /\ upd_pc = "handle" /\ rs["update"] = "idle" /\ upd_pc' = "guard"
        /\ rs' \in [Caller -> {"idle", "stop", "notify", "wake_input"}]
        /\ \A c \in Caller \ {"update"} : rs'[c] = rs[c]
    BY <1>5 DEF Handle, BeginShutdown, Core, CallersIdle, RuntimeTypeOK, Caller
  <2>3. SignalLoopAwake'
    BY <1>5, <2>2 DEF Handle, Core, SignalLoopAwake, Caller
  <2> QED
    BY <1>5, <2>1, <2>2, <2>3 DEF Handle, Core, RuntimeTypeOK, CallersIdle, Empty, Caller
<1> QED
  BY <1>1, <1>2, <1>3, <1>4, <1>5 DEF Update

LEMMA WorldSteps ==
  ASSUME Core, World
  PROVE  Core'
<1> USE DEF config, world, request, input, channel, upd, rest
<1>1. ASSUME NEW b \in {"int", "winch"}, Signal(b) PROVE Core'
  <2>1. /\ pipe' \in Seq({"int", "winch", "stop"}) /\ Len(pipe') <= PipeCapacity
        /\ pipe' # <<>>
    BY <1>1, NotifyFills DEF Signal, Core
  <2>2. signals_left' \in 0 .. MaxSignals
    BY <1>1, RuntimeAssumption DEF Signal, Core, RuntimeTypeOK
  <2>3. RuntimeTypeOK' /\ CallersIdle' /\ Empty'
    BY <1>1, <2>1, <2>2 DEF Signal, Core, RuntimeTypeOK, CallersIdle, Empty, Caller
  <2>4. SignalLoopAwake'
    BY <2>1 DEF SignalLoopAwake
  <2> QED
    BY <2>3, <2>4 DEF Core
<1>2. ASSUME NEW k \in Keys, Type(k) PROVE Core'
  <2>1. typed' \in Seq(Keys) /\ Len(typed') <= MaxKeys
    <3>1. typed \in Seq(Keys) /\ Len(typed) \in Nat /\ Len(typed) < MaxKeys
      BY <1>2, LenProperties DEF Type, Core, RuntimeTypeOK
    <3>2. typed' \in Seq(Keys) /\ Len(typed') = Len(typed) + 1
      BY <1>2, <3>1, AppendProperties DEF Type
    <3> QED
      BY <3>1, <3>2, RuntimeAssumption
  <2>2. stdin' \in Seq(Keys)
    BY <1>2, AppendProperties DEF Type, Core, RuntimeTypeOK
  <2> QED
    BY <1>2, <2>1, <2>2 DEF Type, Core, RuntimeTypeOK, CallersIdle, Empty, SignalLoopAwake,
       Caller
<1>3. CASE HangUp
  <2>1. dropped' \in Seq({"text", "escape", "ctrl_c"}) /\ parser' = <<>>
    BY <1>3, PendingTyped DEF HangUp, Core, Decoded
  <2> QED
    BY <1>3, <2>1 DEF HangUp, Core, RuntimeTypeOK, CallersIdle, Empty, SignalLoopAwake,
       Caller
<1> QED
  BY <1>1, <1>2, <1>3 DEF World

(* Everything but the keys is kept by every step.                          *)
LEMMA CoreStep ==
  ASSUME Core, [Next]_vars
  PROVE  Core'
<1> USE DEF config, world, request, input, channel, upd, rest
<1>1. CASE RenderFrame
  BY <1>1 DEF RenderFrame, Core, RuntimeTypeOK, CallersIdle, Empty, SignalLoopAwake, Caller
<1>2. CASE Join
  BY <1>2 DEF Join, Core, RuntimeTypeOK, CallersIdle, Empty, SignalLoopAwake, Caller
<1>3. CASE UNCHANGED vars
  BY <1>3 DEF vars, Core, RuntimeTypeOK, CallersIdle, Empty, SignalLoopAwake, Caller
<1> QED
  BY <1>1, <1>2, <1>3, WorldSteps, ShutdownSteps, SignalSteps, InputSteps, UpdateSteps DEF Next
-----------------------------------------------------------------------------
(* What comes after a shutdown was requested.                              *)

LEMMA StopFirstStep ==
  ASSUME RuntimeTypeOK, StopFirst, [Next]_vars
  PROVE  StopFirst'
<1> USE DEF config, world, request, input, channel, upd, rest
<1>1. CASE World
  BY <1>1 DEF World, Signal, Type, HangUp, StopFirst
<1>2. ASSUME NEW c \in Caller, Shutdown(c) PROVE StopFirst'
  BY <1>2 DEF Shutdown, RequestStop, WakeSignals, WakeInput, StopFirst, RuntimeTypeOK
<1>3. CASE SignalLoop
  BY <1>3 DEF SignalLoop, SignalGuard, SignalReadable, SignalRead, BeginShutdown, StopFirst,
     RuntimeTypeOK
<1>4. CASE InputLoop
  <2>1. CASE InputStart \/ InputGuard \/ PollReadable \/ PollTimeout \/ ReadGuard
             \/ ReadSome \/ ReadNothing
    BY <1>4, <2>1 DEF InputStart, InputGuard, PollReadable, PollTimeout, ReadGuard,
       ReadSome, ReadNothing, StopFirst
  <2>2. CASE PollCancelled \/ Flush \/ CloseInput
    BY <2>2 DEF PollCancelled, Flush, CloseInput, StopFirst
  <2>3. CASE Publish \/ PublishDone
    BY <2>3 DEF Publish, PublishDone, StopFirst, RuntimeTypeOK
  <2>4. CASE CtrlC
    BY <2>4 DEF CtrlC, BeginShutdown, StopFirst, RuntimeTypeOK
  <2> QED
    BY <1>4, <2>1, <2>2, <2>3, <2>4 DEF InputLoop
<1>5. CASE Update
  BY <1>5 DEF Update, UpdateGuard, WakeSleeper, SleeperReturn, Pop, Handle, BeginShutdown,
     StopFirst, RuntimeTypeOK
<1>6. CASE RenderFrame \/ Join \/ UNCHANGED vars
  BY <1>6 DEF RenderFrame, Join, vars, StopFirst
<1> QED
  BY <1>1, <1>2, <1>3, <1>4, <1>5, <1>6 DEF Next

(* Events are thrown away by HangUp and CloseInput only.                   *)
LEMMA DroppedStep ==
  ASSUME RuntimeTypeOK, StopFirst, DroppedAtTheEnd, [Next]_vars
  PROVE  DroppedAtTheEnd'
<1> USE DEF config, world, request, input, channel, upd, rest
<1>1. CASE HangUp
  <2>1. ~queue_stopped /\ queue_stopped' = queue_stopped /\ inp_pc' = "done"
    BY <1>1 DEF HangUp, StopFirst
  <2>2. dropped' = <<>> \/ dropped' = <<"escape">>
    BY <1>1 DEF HangUp, RuntimeTypeOK
  <2> QED
    BY <2>1, <2>2 DEF DroppedAtTheEnd
<1>2. CASE CloseInput
  BY <1>2 DEF CloseInput, StopFirst, DroppedAtTheEnd
<1>3. ASSUME dropped' = dropped, queue_stopped' = queue_stopped, stop => stop',
             inp_pc = "done" => inp_pc' = "done"
      PROVE  DroppedAtTheEnd'
  BY <1>3 DEF DroppedAtTheEnd
<1>4. ASSUME NEW b \in {"int", "winch"}, Signal(b) PROVE DroppedAtTheEnd'
  BY <1>3, <1>4 DEF Signal
<1>5. ASSUME NEW k \in Keys, Type(k) PROVE DroppedAtTheEnd'
  BY <1>3, <1>5 DEF Type
<1>6. ASSUME NEW c \in Caller, Shutdown(c) PROVE DroppedAtTheEnd'
  BY <1>3, <1>6 DEF Shutdown, RequestStop, WakeSignals, WakeInput
<1>7. CASE SignalLoop
  BY <1>3, <1>7 DEF SignalLoop, SignalGuard, SignalReadable, SignalRead
<1>8. CASE InputLoop /\ ~CloseInput
  BY <1>3, <1>8 DEF InputLoop, InputStart, InputGuard, PollReadable, PollTimeout,
     PollCancelled, ReadGuard, ReadSome, ReadNothing, Publish, CtrlC, PublishDone, Flush
<1>9. CASE Update
  BY <1>3, <1>9 DEF Update, UpdateGuard, WakeSleeper, SleeperReturn, Pop, Handle
<1>10. CASE RenderFrame \/ Join \/ UNCHANGED vars
  BY <1>3, <1>10 DEF RenderFrame, Join, vars
<1> QED
  BY <1>1, <1>2, <1>4, <1>5, <1>6, <1>7, <1>8, <1>9, <1>10 DEF Next, World
-----------------------------------------------------------------------------
(* The keys.                                                               *)

LEMMA StationsTyped ==
  ASSUME RuntimeTypeOK
  PROVE  /\ handled \in Seq(Decoded) /\ taken \in Seq(Decoded) /\ queue \in Seq(Decoded)
         /\ dropped \in Seq(Decoded)
         /\ batch \in Seq(Decoded) /\ parser \in Seq(Decoded)
         /\ Events(stdin) \in Seq(Decoded) /\ Events(typed) \in Seq(Decoded)
         /\ handled \o taken \in Seq(Decoded) /\ handled \o taken \o queue \in Seq(Decoded)
         /\ handled \o taken \o queue \o dropped \in Seq(Decoded)
         /\ handled \o taken \o queue \o dropped \o batch \in Seq(Decoded)
         /\ handled \o taken \o queue \o dropped \o batch \o parser \in Seq(Decoded)
<1>1. /\ handled \in Seq(Decoded) /\ queue \in Seq(Decoded) /\ batch \in Seq(Decoded)
      /\ dropped \in Seq(Decoded) /\ stdin \in Seq(Keys) /\ typed \in Seq(Keys)
  BY DEF RuntimeTypeOK, Decoded
<1>2. taken \in Seq(Decoded) /\ parser \in Seq(Decoded)
  BY PendingTyped
<1>3. Events(stdin) \in Seq(Decoded) /\ Events(typed) \in Seq(Decoded)
  BY <1>1, EventsTyped
<1>4. handled \o taken \in Seq(Decoded)
  BY <1>1, <1>2, ConcatProperties
<1>5. handled \o taken \o queue \in Seq(Decoded)
  BY <1>1, <1>4, ConcatProperties
<1>5a. handled \o taken \o queue \o dropped \in Seq(Decoded)
  BY <1>1, <1>5, ConcatProperties
<1>6. handled \o taken \o queue \o dropped \o batch \in Seq(Decoded)
  BY <1>1, <1>5a, ConcatProperties
<1>7. handled \o taken \o queue \o dropped \o batch \o parser \in Seq(Decoded)
  BY <1>2, <1>6, ConcatProperties
<1> QED
  BY <1>1, <1>2, <1>3, <1>4, <1>5, <1>5a, <1>6, <1>7

(* The actions that move no keystroke.                                     *)
LEMMA KeysRest ==
  ASSUME KeysAccounted, UNCHANGED <<handled, taken, queue, dropped, batch, parser, stdin, typed>>
  PROVE  KeysAccounted'
BY DEF KeysAccounted, Events

LEMMA KeysInput ==
  ASSUME Core, DroppedAtTheEnd, KeysAccounted, InputLoop
  PROVE  KeysAccounted'
<1> USE DEF config, world, request, input, channel, upd, rest
<1>0. RuntimeTypeOK
  BY DEF Core
<1>1. CASE InputStart \/ InputGuard \/ PollReadable \/ PollCancelled \/ ReadGuard
           \/ ReadNothing \/ CtrlC \/ PublishDone
  BY <1>1, KeysRest DEF InputStart, InputGuard, PollReadable, PollCancelled, ReadGuard,
     ReadNothing, CtrlC, PublishDone
<1>2. CASE PollTimeout \/ Flush
  <2>1. batch = <<>> /\ batch' = parser /\ parser' = <<>>
    BY <1>2 DEF PollTimeout, Flush, Core, Empty
  <2>2. UNCHANGED <<handled, taken, queue, dropped, stdin, typed>>
    BY <1>2 DEF PollTimeout, Flush
  <2>3. handled \o taken \o queue \o dropped \o parser \o <<>> =
          handled \o taken \o queue \o dropped \o <<>> \o parser
    BY <1>0, StationsTyped, MovePending
  <2> QED
    BY <2>1, <2>2, <2>3 DEF KeysAccounted, Events
<1>3. CASE ReadSome
  <2>1. /\ batch = <<>> /\ batch' = Fed(stdin) /\ parser' = Left(stdin) /\ stdin' = <<>>
        /\ UNCHANGED <<handled, taken, queue, dropped, typed>>
    BY <1>3 DEF ReadSome, Core, Empty
  <2>2. stdin \in Seq(Keys) /\ Events(<<>>) = <<>>
    BY <1>0 DEF RuntimeTypeOK, Events
  <2>3. /\ Fed(stdin) \in Seq(Decoded) /\ Left(stdin) \in {<<>>, <<"escape">>}
        /\ Fed(stdin) \o Left(stdin) = parser \o Events(stdin)
    BY <1>0, <2>2, StationsTyped, FedLeft
  <2>4. Left(stdin) \in Seq(Decoded)
    <3>1. <<>> \in Seq(Decoded) /\ <<"escape">> \in Seq(Decoded)
      BY EmptySeq DEF Decoded
    <3> QED
      BY <2>3, <3>1
  <2> DEFINE x == handled \o taken \o queue \o dropped
             e == Events(stdin)
             f == Fed(stdin)
             l == Left(stdin)
  <2>5. /\ x \in Seq(Decoded) /\ e \in Seq(Decoded) /\ parser \in Seq(Decoded)
        /\ f \in Seq(Decoded) /\ l \in Seq(Decoded)
    BY <1>0, <2>3, <2>4, StationsTyped
  <2>6. f \o l = parser \o e
    BY <2>3
  <2>7. KeysAccounted <=> x \o <<>> \o parser \o e = Events(typed)
    BY <2>1 DEF KeysAccounted
  <2>8. KeysAccounted' <=> x \o f \o l \o <<>> = Events(typed)
    <3>1. Events(stdin)' = <<>> /\ Events(typed)' = Events(typed)
      BY <2>1, <2>2 DEF Events
    <3> QED
      BY <2>1, <3>1 DEF KeysAccounted
  <2> HIDE DEF x, e, f, l
  <2>9. x \o f \o l \o <<>> = x \o (f \o l) /\ x \o <<>> \o parser \o e = x \o (parser \o e)
    BY <2>5
  <2> QED
    BY <2>6, <2>7, <2>8, <2>9
<1>4. CASE Publish
  <2>1. /\ batch # <<>> /\ batch' = Tail(batch)
        /\ dropped = <<>> /\ dropped' = <<>>
        /\ UNCHANGED <<handled, parser, stdin, typed>>
    BY <1>4 DEF Publish, DroppedAtTheEnd
  <2>2. CASE waiting
    <3>1. /\ queue = <<>> /\ taken = <<>>
          /\ queue' = <<>> /\ taken' = <<Head(batch)>>
      BY <1>0, <1>4, <2>2 DEF Publish, Core, Empty, RuntimeTypeOK
    <3>2. /\ handled \o <<Head(batch)>> \o Tail(batch) = handled \o <<>> \o batch
          /\ handled \o <<Head(batch)>> \o <<>> \o <<>> = handled \o <<Head(batch)>>
          /\ handled \o <<>> \o <<>> \o <<>> = handled \o <<>>
      BY <1>0, <2>1, StationsTyped, MoveTake
    <3> QED
      BY <2>1, <3>1, <3>2 DEF KeysAccounted, Events
  <2>3. CASE ~waiting
    <3>1. queue' = Append(queue, Head(batch)) /\ taken' = taken
      BY <1>4, <2>3 DEF Publish
    <3> DEFINE x == handled \o taken
               y == Append(queue, Head(batch))
    <3>2. /\ x \in Seq(Decoded) /\ queue \in Seq(Decoded) /\ batch \in Seq(Decoded)
          /\ y \in Seq(Decoded)
      BY <1>0, <2>1, StationsTyped, HeadTailProperties, AppendProperties
    <3>3. /\ KeysAccounted <=> x \o queue \o <<>> \o batch \o parser \o Events(stdin)
                               = Events(typed)
          /\ KeysAccounted' <=> x \o y \o <<>> \o Tail(batch) \o parser \o Events(stdin)
                                = Events(typed)
      BY <2>1, <3>1 DEF KeysAccounted, Events
    <3> HIDE DEF x
    <3>4. x \o y \o Tail(batch) = x \o queue \o batch
      BY <2>1, <3>2, MoveQueue, Zenon
    <3> HIDE DEF y
    <3>5. x \o y \o <<>> = x \o y /\ x \o queue \o <<>> = x \o queue
      BY <3>2
    <3> QED
      BY <3>3, <3>4, <3>5
  <2> QED
    BY <2>2, <2>3
<1>5. CASE CloseInput
  <2>1. /\ queue' = <<>> /\ dropped = <<>> /\ dropped' = queue
        /\ UNCHANGED <<handled, taken, batch, parser, stdin, typed>>
    BY <1>5 DEF CloseInput, DroppedAtTheEnd
  <2>2. handled \o taken \o queue \o <<>> = handled \o taken \o <<>> \o queue
    BY <1>0, StationsTyped, MovePending
  <2> QED
    BY <2>1, <2>2 DEF KeysAccounted, Events
<1> QED
  BY <1>1, <1>2, <1>3, <1>4, <1>5 DEF InputLoop

LEMMA KeysUpdate ==
  ASSUME Core, KeysAccounted, Update
  PROVE  KeysAccounted'
<1> USE DEF config, world, request, input, channel, upd, rest
<1>0. RuntimeTypeOK
  BY DEF Core
<1>1. CASE UpdateGuard \/ WakeSleeper \/ SleeperReturn
  BY <1>1, KeysRest DEF UpdateGuard, WakeSleeper, SleeperReturn
<1>2. CASE Pop
  <2>1. CASE UNCHANGED <<queue, taken>>
    BY <1>2, <2>1, KeysRest DEF Pop
  <2>2. CASE queue # <<>> /\ taken' = <<Head(queue)>> /\ queue' = Tail(queue)
    <3>1. taken = <<>> /\ UNCHANGED <<handled, dropped, batch, parser, stdin, typed>>
      BY <1>2 DEF Pop, Core, Empty
    <3>2. handled \o <<Head(queue)>> \o Tail(queue) = handled \o <<>> \o queue
      BY <1>0, <2>2, StationsTyped, MoveTake
    <3> QED
      BY <2>2, <3>1, <3>2 DEF KeysAccounted, Events
  <2> QED
    BY <1>2, <2>1, <2>2 DEF Pop
<1>3. CASE Handle
  <2>1. /\ handled' = handled \o taken /\ taken' = <<>>
        /\ UNCHANGED <<queue, dropped, batch, parser, stdin, typed>>
    BY <1>3 DEF Handle
  <2>2. handled \o taken \o <<>> = handled \o taken
    BY <1>0, StationsTyped, ConcatEmptySeq
  <2> QED
    BY <2>1, <2>2 DEF KeysAccounted, Events
<1> QED
  BY <1>1, <1>2, <1>3 DEF Update

LEMMA KeysWorld ==
  ASSUME Core, DroppedAtTheEnd, KeysAccounted, World
  PROVE  KeysAccounted'
<1> USE DEF config, world, request, input, channel, upd, rest
<1>0. RuntimeTypeOK
  BY DEF Core
<1>1. ASSUME NEW b \in {"int", "winch"}, Signal(b) PROVE KeysAccounted'
  BY <1>1, KeysRest DEF Signal
<1>2. ASSUME NEW k \in Keys, Type(k) PROVE KeysAccounted'
  <2>1. /\ typed' = Append(typed, k) /\ stdin' = Append(stdin, k)
        /\ UNCHANGED <<handled, taken, queue, dropped, batch, parser>>
    BY <1>2 DEF Type
  <2>2. typed \in Seq(Keys) /\ stdin \in Seq(Keys)
    BY DEF Core, RuntimeTypeOK
  <2>3. /\ Events(typed)' = Events(typed) \o <<AsEvent(k)>>
        /\ Events(stdin)' = Events(stdin) \o <<AsEvent(k)>>
    <3>1. /\ Events(Append(typed, k)) = Events(typed) \o <<AsEvent(k)>>
          /\ Events(Append(stdin, k)) = Events(stdin) \o <<AsEvent(k)>>
      BY <2>2, EventsAppend
    <3>2. Events(typed)' = Events(Append(typed, k)) /\ Events(stdin)' = Events(Append(stdin, k))
      BY <2>1 DEF Events
    <3> QED
      BY <3>1, <3>2
  <2>4. <<AsEvent(k)>> \in Seq(Decoded)
    <3>1. AsEvent(k) \in Decoded
      BY RuntimeAssumption DEF AsEvent, Decoded
    <3> QED
      BY <3>1
  <2> DEFINE x == handled \o taken \o queue \o dropped \o batch \o parser
             e == Events(stdin)
             y == <<AsEvent(k)>>
  <2>5. x \in Seq(Decoded) /\ e \in Seq(Decoded) /\ y \in Seq(Decoded)
    BY <2>4, StationsTyped DEF Core
  <2>6. x \o e = Events(typed)
    BY DEF KeysAccounted
  <2>7. KeysAccounted' <=> x \o (e \o y) = Events(typed) \o y
    BY <2>1, <2>3 DEF KeysAccounted
  <2> HIDE DEF x, e, y
  <2>8. x \o (e \o y) = (x \o e) \o y
    BY <2>5, MoveType
  <2> QED
    BY <2>6, <2>7, <2>8
<1>3. CASE HangUp
  <2>1. /\ batch = <<>> /\ batch' = <<>> /\ dropped = <<>> /\ dropped' = parser
        /\ parser' = <<>>
        /\ UNCHANGED <<handled, taken, queue, stdin, typed>>
    BY <1>3 DEF HangUp, Core, Empty, DroppedAtTheEnd
  <2>2. handled \o taken \o queue \o parser \o <<>> \o <<>> =
          handled \o taken \o queue \o <<>> \o <<>> \o parser
    BY <1>0, StationsTyped, MoveDrop
  <2> QED
    BY <2>1, <2>2 DEF KeysAccounted, Events
<1> QED
  BY <1>1, <1>2, <1>3 DEF World

LEMMA KeysStep ==
  ASSUME Core, DroppedAtTheEnd, KeysAccounted, [Next]_vars
  PROVE  KeysAccounted'
<1> USE DEF config, world, request, input, channel, upd, rest
<1>1. ASSUME NEW c \in Caller, Shutdown(c) PROVE KeysAccounted'
  BY <1>1, KeysRest DEF Shutdown, RequestStop, WakeSignals, WakeInput
<1>2. CASE SignalLoop
  BY <1>2, KeysRest DEF SignalLoop, SignalGuard, SignalReadable, SignalRead
<1>3. CASE RenderFrame \/ Join \/ UNCHANGED vars
  BY <1>3, KeysRest DEF RenderFrame, Join, vars
<1> QED
  BY <1>1, <1>2, <1>3, KeysWorld, KeysInput, KeysUpdate DEF Next
-----------------------------------------------------------------------------
(* Every reachable state satisfies the inductive invariant.                *)
THEOREM RuntimeInvariant == Spec => []RuntimeInv
<1>1. RuntimeInv /\ [Next]_vars => RuntimeInv'
  <2> SUFFICES ASSUME RuntimeInv, [Next]_vars PROVE RuntimeInv'
    OBVIOUS
  <2>1. Core /\ StopFirst /\ KeysAccounted /\ DroppedAtTheEnd
    BY DEF RuntimeInv, KeysConserved
  <2>2. Core' /\ StopFirst'
    BY <2>1, CoreStep, StopFirstStep DEF Core
  <2>3. KeysAccounted' /\ DroppedAtTheEnd'
    BY <2>1, DroppedStep, KeysStep DEF Core
  <2> QED
    BY <2>2, <2>3 DEF RuntimeInv, KeysConserved
<1> QED
  BY RuntimeInit, <1>1, PTL DEF Spec

(* The types of the runtime's state, and that the queue knows its waiter.  *)
THEOREM RuntimeTyped == Spec => []RuntimeTypeOK
<1>1. RuntimeInv => RuntimeTypeOK
  BY DEF RuntimeInv, Core
<1> QED
  BY RuntimeInvariant, <1>1, PTL

(* Every keystroke is still on its way to the application, has reached it   *)
(* in order, or was thrown away - by the closing of the queue after a        *)
(* shutdown was requested, or as the pending ESC of a terminal that failed.  *)
THEOREM NoKeyLost == Spec => []KeysConserved
<1>1. RuntimeInv => KeysConserved
  BY DEF RuntimeInv
<1> QED
  BY RuntimeInvariant, <1>1, PTL

(* The signal loop does not sleep through a shutdown, however small the    *)
(* self-pipe is.                                                           *)
THEOREM SignalLoopWoken == Spec => []SignalLoopAwake
<1>1. RuntimeInv => SignalLoopAwake
  BY DEF RuntimeInv, Core
<1> QED
  BY RuntimeInvariant, <1>1, PTL
=============================================================================
