------------------------------- MODULE Runtime -------------------------------
(***************************************************************************)
(* The life of nxt::ui::run (nxtio/app.hpp, app.cpp): four coroutines on a *)
(* thread pool - signal_loop, input_loop, run_render_loop and the          *)
(* application's update - joined by when_all, and the ways a shutdown      *)
(* reaches them: the flag, a byte in the self-pipe, and the stop pipe that *)
(* libcoro's poll watches beside stdin.                                    *)
(*                                                                         *)
(* The damage event is left out: it is set by the runtime and awaited by   *)
(* nobody.  What a SIGWINCH does to the size is in module Resize.          *)
(***************************************************************************)
EXTENDS Naturals, Sequences, SequencesExt

CONSTANTS
  Updates,        (* Kinds of update task: "sleeper" is one that looks at  *)
                  (* the flag between sleeps (nxb), "listener" one that    *)
                  (* awaits next_input (input_hud_example).                *)
  Terminals,      (* [tty : stdin is one, raw : InputModeGuard took hold]  *)
  Keys,           (* "text", "escape" (structured), "ctrl_c", "lone_esc"   *)
  MaxKeys, MaxSignals,
  MayHangUp,      (* Whether reading stdin may begin to fail.              *)
  PipeCapacity    (* Bytes the self-pipe holds.                            *)

ASSUME RuntimeAssumption ==
  /\ Updates \subseteq {"sleeper", "listener"}
  /\ Terminals \subseteq [tty : BOOLEAN, raw : BOOLEAN]
  /\ Keys \subseteq {"text", "escape", "ctrl_c", "lone_esc"}
  /\ MaxKeys \in Nat /\ MaxSignals \in Nat
  /\ MayHangUp \in BOOLEAN
  /\ PipeCapacity \in Nat \ {0}

VARIABLES
  update, terminal,                     (* Chosen once.                    *)
  typed, signals_left,                  (* The world outside.              *)
  stop,                                 (* stop_source_                    *)
  rs,                                   (* request_shutdown, per caller    *)
  pipe,                                 (* SignalPipe                      *)
  stop_pipe,                            (* input_poll_stop_ was signalled  *)
  sig_pc,
  inp_pc, inp_ret, stdin, parser, batch, owed,
  watch,                                (* epoll's entry for stop_pipe     *)
  queue, queue_stopped, waiting,        (* input_queue_                    *)
  dropped,                              (* History: decoded events that    *)
                                        (* were thrown away.               *)
  upd_pc, taken, handled,
  inline,                               (* update runs inside push         *)
  ren_pc, main_pc

config  == <<update, terminal>>
world   == <<typed, signals_left>>
request == <<stop, rs, pipe, stop_pipe>>
input   == <<inp_pc, inp_ret, stdin, parser, batch, owed, watch>>
channel == <<queue, queue_stopped, waiting, dropped>>
upd     == <<upd_pc, taken, handled, inline>>
rest    == <<ren_pc, main_pc>>
vars == <<config, world, request, sig_pc, input, channel, upd, rest>>

Caller == {"signal", "input", "update"}

Init ==
  /\ update \in Updates
  /\ terminal \in Terminals
  /\ typed = <<>> /\ signals_left = MaxSignals
  /\ stop = FALSE
  /\ rs = [c \in Caller |-> "idle"]
  /\ pipe = <<>> /\ stop_pipe = FALSE
  /\ sig_pc = "guard"
  /\ inp_pc = "start" /\ inp_ret = "guard"
  /\ stdin = <<>> /\ parser = <<>> /\ batch = <<>> /\ owed = FALSE
  /\ watch = "none"
  /\ queue = <<>> /\ queue_stopped = FALSE /\ waiting = FALSE /\ dropped = <<>>
  /\ upd_pc = "guard" /\ taken = <<>> /\ handled = <<>> /\ inline = FALSE
  /\ ren_pc = "asleep" /\ main_pc = "join"
-----------------------------------------------------------------------------
(* The pipe is non-blocking and a full one drops the byte. *)
Notify(b) == pipe' = IF Len(pipe) < PipeCapacity THEN Append(pipe, b) ELSE pipe

(* request_shutdown reads the flag; what follows happens in three steps, and
   two callers may both get past the test. *)
BeginShutdown(c) == rs' = [rs EXCEPT ![c] = IF stop THEN "idle" ELSE "stop"]

RequestStop(c) ==
  /\ rs[c] = "stop"
  /\ stop' = TRUE
  /\ rs' = [rs EXCEPT ![c] = "notify"]
  /\ UNCHANGED <<config, world, pipe, stop_pipe, sig_pc, input, channel, upd, rest>>

(* Faulty: the signal loop is not woken. *)
WakeSignals_Not(c) ==
  /\ rs[c] = "notify"
  /\ rs' = [rs EXCEPT ![c] = "wake_input"]
  /\ UNCHANGED <<config, world, stop, pipe, stop_pipe, sig_pc, input, channel, upd, rest>>

WakeSignals(c) ==
  /\ rs[c] = "notify"
  /\ Notify("stop")
  /\ rs' = [rs EXCEPT ![c] = "wake_input"]
  /\ UNCHANGED <<config, world, stop, stop_pipe, sig_pc, input, channel, upd, rest>>

(* Faulty: the poll on stdin is not woken. *)
WakeInput_Not(c) ==
  /\ rs[c] = "wake_input"
  /\ rs' = [rs EXCEPT ![c] = "idle"]
  /\ UNCHANGED <<config, world, stop, pipe, stop_pipe, sig_pc, input, channel, upd, rest>>

WakeInput(c) ==
  /\ rs[c] = "wake_input"
  /\ stop_pipe' = TRUE
  /\ rs' = [rs EXCEPT ![c] = "idle"]
  /\ UNCHANGED <<config, world, stop, pipe, sig_pc, input, channel, upd, rest>>

Shutdown(c) == RequestStop(c) \/ WakeSignals(c) \/ WakeInput(c)
-----------------------------------------------------------------------------
(* The world: signals, keystrokes, a terminal that goes away. *)
Signal(b) ==
  /\ signals_left > 0
  /\ signals_left' = signals_left - 1
  /\ Notify(b)
  /\ UNCHANGED <<config, typed, stop, rs, stop_pipe, sig_pc, input, channel, upd, rest>>

Type(k) ==
  /\ terminal.tty
  /\ Len(typed) < MaxKeys
  /\ typed' = Append(typed, k)
  /\ stdin' = Append(stdin, k)
  /\ UNCHANGED <<config, signals_left, request, sig_pc, inp_pc, inp_ret,
                 parser, batch, owed, watch, channel, upd, rest>>

(* poll reports an error or a closed stdin, or the read fails: input_loop
   returns at once, the ESC its Parser holds goes with it, and the queue stays
   open. *)
HangUp ==
  /\ MayHangUp
  /\ inp_pc \in {"poll", "read"}
  /\ inp_pc' = "done"
  /\ watch' = "none"
  /\ parser' = <<>>
  /\ dropped' = parser
  /\ UNCHANGED <<config, world, request, sig_pc, inp_ret, stdin, batch, owed,
                 queue, queue_stopped, waiting, upd, rest>>

World == (\E b \in {"int", "winch"} : Signal(b)) \/ (\E k \in Keys : Type(k)) \/ HangUp
-----------------------------------------------------------------------------
SignalGuard ==
  /\ sig_pc = "guard"
  /\ sig_pc' = IF stop THEN "done" ELSE "poll"
  /\ UNCHANGED <<config, world, request, input, channel, upd, rest>>

SignalReadable ==
  /\ sig_pc = "poll"
  /\ pipe # <<>>
  /\ sig_pc' = "drain"
  /\ UNCHANGED <<config, world, request, input, channel, upd, rest>>

SignalRead ==
  /\ sig_pc = "drain"
  /\ rs["signal"] = "idle"
  /\ \/ /\ pipe = <<>>
        /\ sig_pc' = "guard"
        /\ UNCHANGED <<rs, pipe>>
     \/ /\ pipe # <<>>
        /\ pipe' = Tail(pipe)
        /\ sig_pc' = IF Head(pipe) = "stop" THEN "done" ELSE "drain"
        /\ IF Head(pipe) = "int" THEN BeginShutdown("signal") ELSE UNCHANGED rs
  /\ UNCHANGED <<config, world, stop, stop_pipe, input, channel, upd, rest>>

SignalLoop == SignalGuard \/ SignalReadable \/ SignalRead
-----------------------------------------------------------------------------
(* Parser::feed over a read: an ESC byte that ends the input stays pending. *)
AsEvent(k)  == IF k = "lone_esc" THEN "escape" ELSE k
Events(s)   == [i \in 1 .. Len(s) |-> AsEvent(s[i])]
EndsInEsc(s) == s # <<>> /\ Last(s) = "lone_esc"
Fed(s)      == parser \o Events(IF EndsInEsc(s) THEN Front(s) ELSE s)
Left(s)     == IF EndsInEsc(s) THEN <<"escape">> ELSE <<>>

InputStart ==
  /\ inp_pc = "start"
  /\ inp_pc' = IF terminal.tty THEN "guard" ELSE "done"
  /\ UNCHANGED <<config, world, request, sig_pc, inp_ret, stdin, parser, batch,
                 owed, watch, channel, upd, rest>>

(* Entering poll registers the stop pipe; the result of a registration that
   epoll refuses, because an old one is still there, is ignored.  The old one
   points at the poll_info of a finished poll: it serves the new poll only if
   that was allocated at the same address. *)
InputGuard ==
  /\ inp_pc = "guard"
  /\ IF stop
     THEN inp_pc' = "flush" /\ UNCHANGED watch
     ELSE /\ inp_pc' = "poll"
          /\ watch' \in IF watch = "none" THEN {"live"} ELSE {"live", "stale"}
  /\ UNCHANGED <<config, world, request, sig_pc, inp_ret, stdin, parser, batch,
                 owed, channel, upd, rest>>

(* stdin is readable; the notifier takes the stop pipe out of epoll. *)
PollReadable ==
  /\ inp_pc = "poll"
  /\ stdin # <<>>
  /\ inp_pc' = "read_guard"
  /\ watch' = "none"
  /\ UNCHANGED <<config, world, request, sig_pc, inp_ret, stdin, parser, batch,
                 owed, channel, upd, rest>>

(* The 25ms are over: the event loop takes stdin out of epoll, and only that. *)
PollTimeout ==
  /\ inp_pc = "poll"
  /\ parser # <<>>
  /\ watch' = "stale"
  /\ batch' = parser
  /\ parser' = <<>>
  /\ inp_pc' = "publish" /\ inp_ret' = "guard"
  /\ UNCHANGED <<config, world, request, sig_pc, stdin, owed, channel, upd, rest>>

PollCancelled ==
  /\ inp_pc = "poll"
  /\ stop_pipe /\ watch = "live"
  /\ inp_pc' = "flush"
  /\ UNCHANGED <<config, world, request, sig_pc, inp_ret, stdin, parser, batch,
                 owed, watch, channel, upd, rest>>

ReadGuard ==
  /\ inp_pc = "read_guard"
  /\ inp_pc' = IF stop THEN "guard" ELSE "read"
  /\ UNCHANGED <<config, world, request, sig_pc, inp_ret, stdin, parser, batch,
                 owed, watch, channel, upd, rest>>

(* Everything typed so far is read and decoded at once. *)
ReadSome ==
  /\ inp_pc = "read"
  /\ stdin # <<>>
  /\ stdin' = <<>>
  /\ batch' = Fed(stdin)
  /\ parser' = Left(stdin)
  /\ inp_pc' = "publish" /\ inp_ret' = "read_guard"
  /\ UNCHANGED <<config, world, request, sig_pc, owed, watch, channel, upd, rest>>

(* Without InputModeGuard's VMIN = 0 this read blocks until there is input. *)
ReadNothing ==
  /\ inp_pc = "read"
  /\ stdin = <<>>
  /\ terminal.raw
  /\ inp_pc' = "guard"
  /\ UNCHANGED <<config, world, request, sig_pc, inp_ret, stdin, parser, batch,
                 owed, watch, channel, upd, rest>>

(* publish: the push hands the event to a waiting update and runs it on this
   thread until it suspends again; otherwise the event is queued. *)
Publish ==
  /\ inp_pc = "publish"
  /\ batch # <<>> /\ ~owed /\ ~inline /\ rs["input"] = "idle"
  /\ batch' = Tail(batch)
  /\ owed' = (Head(batch) = "ctrl_c")
  /\ IF waiting
     THEN /\ waiting' = FALSE
          /\ taken' = <<Head(batch)>>
          /\ upd_pc' = "handle"
          /\ inline' = TRUE
          /\ UNCHANGED queue
     ELSE /\ queue' = Append(queue, Head(batch))
          /\ UNCHANGED <<waiting, taken, upd_pc, inline>>
  /\ UNCHANGED <<config, world, request, sig_pc, inp_pc, inp_ret, stdin, parser,
                 watch, queue_stopped, dropped, handled, rest>>

(* Faulty: Ctrl-C is an ordinary key. *)
CtrlC_Ignored ==
  /\ inp_pc = "publish"
  /\ owed /\ ~inline
  /\ owed' = FALSE
  /\ UNCHANGED <<config, world, request, sig_pc, inp_pc, inp_ret, stdin,
                 parser, batch, watch, channel, upd, rest>>

CtrlC ==
  /\ inp_pc = "publish"
  /\ owed /\ ~inline
  /\ owed' = FALSE
  /\ BeginShutdown("input")
  /\ UNCHANGED <<config, world, stop, pipe, stop_pipe, sig_pc, inp_pc, inp_ret, stdin,
                 parser, batch, watch, channel, upd, rest>>

PublishDone ==
  /\ inp_pc = "publish"
  /\ batch = <<>> /\ ~owed /\ ~inline /\ rs["input"] = "idle"
  /\ inp_pc' = inp_ret
  /\ UNCHANGED <<config, world, request, sig_pc, inp_ret, stdin, parser, batch,
                 owed, watch, channel, upd, rest>>

(* Faulty: what the parser still holds is dropped. *)
Flush_Drop ==
  /\ inp_pc = "flush"
  /\ parser' = <<>>
  /\ inp_pc' = "publish" /\ inp_ret' = "close"
  /\ UNCHANGED <<config, world, request, sig_pc, stdin, batch, owed, watch,
                 channel, upd, rest>>

Flush ==
  /\ inp_pc = "flush"
  /\ batch' = parser
  /\ parser' = <<>>
  /\ inp_pc' = "publish" /\ inp_ret' = "close"
  /\ UNCHANGED <<config, world, request, sig_pc, stdin, owed, watch, channel, upd, rest>>

(* Faulty: the waiters are dropped and not resumed. *)
CloseInput_NoWake ==
  /\ inp_pc = "close"
  /\ queue_stopped' = TRUE
  /\ queue' = <<>> /\ dropped' = queue
  /\ waiting' = FALSE
  /\ inp_pc' = "done"
  /\ UNCHANGED <<config, world, request, sig_pc, inp_ret, stdin, parser, batch,
                 owed, watch, upd, rest>>

(* input_queue_.shutdown() discards what nobody has popped - no pop looks at
   the elements of a stopped queue - and a waiting next_input returns nullopt. *)
CloseInput ==
  /\ inp_pc = "close"
  /\ queue_stopped' = TRUE
  /\ queue' = <<>> /\ dropped' = queue
  /\ waiting' = FALSE
  /\ upd_pc' = IF waiting THEN "done" ELSE upd_pc
  /\ inp_pc' = "done"
  /\ UNCHANGED <<config, world, request, sig_pc, inp_ret, stdin, parser, batch,
                 owed, watch, taken, handled, inline, rest>>

InputLoop ==
  \/ InputStart \/ InputGuard \/ PollReadable \/ PollTimeout \/ PollCancelled
  \/ ReadGuard \/ ReadSome \/ ReadNothing \/ Publish \/ CtrlC \/ PublishDone
  \/ Flush \/ CloseInput
-----------------------------------------------------------------------------
(* The application's loop condition. *)
UpdateGuard ==
  /\ upd_pc = "guard"
  /\ rs["update"] = "idle"
  /\ IF stop
     THEN upd_pc' = "done" /\ inline' = FALSE
     ELSE upd_pc' = (IF update = "listener" THEN "pop" ELSE "sleep") /\ UNCHANGED inline
  /\ UNCHANGED <<config, world, request, sig_pc, input, channel, taken, handled, rest>>

(* A sleeper goes round again, or has finished and requests the shutdown. *)
WakeSleeper ==
  /\ upd_pc = "sleep"
  /\ \/ upd_pc' = "guard" /\ UNCHANGED rs
     \/ upd_pc' = "return" /\ BeginShutdown("update")
  /\ UNCHANGED <<config, world, stop, pipe, stop_pipe, sig_pc, input, channel,
                 taken, handled, inline, rest>>

SleeperReturn ==
  /\ upd_pc = "return"
  /\ rs["update"] = "idle"
  /\ upd_pc' = "done"
  /\ UNCHANGED <<config, world, request, sig_pc, input, channel, taken, handled, inline, rest>>

(* next_input: a stopped queue returns nullopt. *)
Pop ==
  /\ upd_pc = "pop"
  /\ \/ /\ queue_stopped
        /\ upd_pc' = "done" /\ inline' = FALSE
        /\ UNCHANGED <<queue, waiting, taken>>
     \/ /\ ~queue_stopped /\ queue # <<>>
        /\ taken' = <<Head(queue)>> /\ queue' = Tail(queue)
        /\ upd_pc' = "handle"
        /\ UNCHANGED <<waiting, inline>>
     \/ /\ ~queue_stopped /\ queue = <<>>
        /\ waiting' = TRUE
        /\ upd_pc' = "waiting" /\ inline' = FALSE
        /\ UNCHANGED <<queue, taken>>
  /\ UNCHANGED <<config, world, request, sig_pc, input, queue_stopped, dropped, handled, rest>>

Handle ==
  /\ upd_pc = "handle"
  /\ handled' = handled \o taken
  /\ taken' = <<>>
  /\ upd_pc' = "guard"
  /\ IF taken = <<"escape">> THEN BeginShutdown("update") ELSE UNCHANGED rs
  /\ UNCHANGED <<config, world, stop, pipe, stop_pipe, sig_pc, input, channel, inline, rest>>

Update == UpdateGuard \/ WakeSleeper \/ SleeperReturn \/ Pop \/ Handle
-----------------------------------------------------------------------------
(* run_render_loop: sleep out the frame time, draw a frame, damage or not, and
   look at the flag.  The first frame is drawn before the tasks suspend. *)
RenderFrame ==
  /\ ren_pc = "asleep"
  /\ ren_pc' = IF stop THEN "done" ELSE "asleep"
  /\ UNCHANGED <<config, world, request, sig_pc, input, channel, upd, main_pc>>

(* when_all: run() cleans up and returns when all four tasks have. *)
Join ==
  /\ main_pc = "join"
  /\ sig_pc = "done" /\ inp_pc = "done" /\ upd_pc = "done" /\ ren_pc = "done"
  /\ main_pc' = "returned"
  /\ UNCHANGED <<config, world, request, sig_pc, input, channel, upd, ren_pc>>

Next ==
  \/ World
  \/ \E c \in Caller : Shutdown(c)
  \/ SignalLoop \/ InputLoop \/ Update
  \/ RenderFrame \/ Join

Spec == Init /\ [][Next]_vars

(* Every coroutine that can be resumed is: each on its own pool thread. *)
FairSpec ==
  /\ Spec
  /\ \A c \in Caller : WF_vars(Shutdown(c))
  /\ WF_vars(SignalLoop) /\ WF_vars(InputLoop) /\ WF_vars(Update)
  /\ WF_vars(RenderFrame) /\ WF_vars(Join)
-----------------------------------------------------------------------------
(* Every variable has its type, and the queue knows its waiter: update is
   suspended in next_input exactly while the queue will still resume it. *)
RuntimeTypeOK ==
  /\ update \in Updates /\ terminal \in Terminals
  /\ typed \in Seq(Keys) /\ Len(typed) <= MaxKeys
  /\ signals_left \in 0 .. MaxSignals
  /\ stop \in BOOLEAN /\ stop_pipe \in BOOLEAN
  /\ rs \in [Caller -> {"idle", "stop", "notify", "wake_input"}]
  /\ pipe \in Seq({"int", "winch", "stop"}) /\ Len(pipe) <= PipeCapacity
  /\ sig_pc \in {"guard", "poll", "drain", "done"}
  /\ inp_pc \in {"start", "guard", "poll", "read_guard", "read", "publish",
                 "flush", "close", "done"}
  /\ inp_ret \in {"guard", "read_guard", "close"}
  /\ stdin \in Seq(Keys)
  /\ parser \in {<<>>, <<"escape">>}
  /\ batch \in Seq({"text", "escape", "ctrl_c"})
  /\ queue \in Seq({"text", "escape", "ctrl_c"})
  /\ dropped \in Seq({"text", "escape", "ctrl_c"})
  /\ handled \in Seq({"text", "escape", "ctrl_c"})
  /\ taken \in {<<>>, <<"text">>, <<"escape">>, <<"ctrl_c">>}
  /\ owed \in BOOLEAN /\ queue_stopped \in BOOLEAN
  /\ waiting \in BOOLEAN /\ inline \in BOOLEAN
  /\ watch \in {"none", "live", "stale"}
  /\ upd_pc \in {"guard", "sleep", "return", "pop", "waiting", "handle", "done"}
  /\ waiting <=> upd_pc = "waiting"
  /\ ren_pc \in {"asleep", "done"} /\ main_pc \in {"join", "returned"}

(* Every keystroke is at one place of its way from the terminal through the
   parser's pending byte and the queue to the application, or was thrown away,
   and none is repeated or overtaken, whatever the timeouts, hand-overs and a
   shutdown in the middle of a batch do. *)
KeysAccounted ==
  handled \o taken \o queue \o dropped \o batch \o parser \o Events(stdin)
    = Events(typed)

(* Only the end of input_loop throws events away: closing the queue, after a
   shutdown was requested, what the application had not taken; and a terminal
   that fails, no more than the ESC byte that waited for its timeout. *)
DroppedAtTheEnd ==
  dropped # <<>> =>
    /\ inp_pc = "done"
    /\ IF queue_stopped THEN stop ELSE dropped = <<"escape">>

KeysConserved == KeysAccounted /\ DroppedAtTheEnd

(* The signal loop never sleeps through a shutdown, although its wake-up byte
   is dropped when the pipe is full: it would have been woken by the others. *)
SignalLoopAwake ==
  sig_pc = "poll" /\ stop => pipe # <<>> \/ \E c \in Caller : rs[c] = "notify"

(* An accepted SIGINT byte and a Ctrl-C that has been decoded always stop the
   runtime. *)
InterruptStops ==
  (Contains(pipe, "int") \/ Contains(batch, "ctrl_c")) ~> stop

(* The places where a shutdown can leave run() hanging: a poll that is deaf to
   the stop pipe, a blocking read, and a next_input nobody will answer. *)
Deaf ==
  \/ inp_pc = "poll" /\ watch = "stale"
  \/ inp_pc = "read" /\ ~terminal.raw
  \/ waiting /\ inp_pc = "done"

(* A requested shutdown ends all four tasks and run() returns, unless the
   input side is stuck for good in one of these places. *)
ShutdownReturns ==
  <>stop => (<>(main_pc = "returned") \/ <>[]Deaf)

(* What poll_status::cancelled promises (poll.hpp): a poll that is waiting when
   its stop source is signalled comes back. *)
CancelWakesPoll == stop_pipe ~> inp_pc # "poll"
=============================================================================
