------------------------------ MODULE EventLoop ------------------------------
(***************************************************************************)
(* The scheduler every handler of the bot runs on: one Node.js thread and  *)
(* Telegraf's long polling.  It is external to the repository (bot.ts only *)
(* calls bot.launch and setInterval), but every interleaving the bot can   *)
(* exhibit is decided here.                                                *)
(*                                                                         *)
(* A macrotask (a batch of updates, an I/O completion, a timer) starts a   *)
(* drain: handlers run from await to await until none is runnable.  Only   *)
(* then does the next macrotask start.  All updates of one getUpdates      *)
(* batch are dispatched together, so their handlers interleave at every    *)
(* await; a handler that wakes from real I/O, or a timer, drains alone.    *)
(* Telegraf asks for the next batch when every handler of the last one has *)
(* returned or has run for 90 seconds, and then leaves it running: a batch *)
(* may arrive while handlers of an earlier one still wait for I/O.         *)
(***************************************************************************)
EXTENDS FiniteSets, Naturals

CONSTANT Handlers          \* the concurrent activations of the bot's code

VARIABLES
  ready,                   \* handlers runnable in the current drain
  batch                    \* the current drain was started by an update batch

LoopInit ==
  /\ ready = {}
  /\ batch = FALSE

LoopTypeOK ==
  /\ ready \subseteq Handlers
  /\ batch \in BOOLEAN

(* An update of a batch reaches its handler.  How many awaits precede the   *)
(* modelled code differs between commands, so a handler may join the drain  *)
(* of its batch at any point of it.                                         *)
Arrive(h) ==
  /\ ready = {} \/ batch
  /\ h \notin ready
  /\ ready' = ready \cup {h}
  /\ batch' = TRUE

(* The same for a handler that reaches its first await of real I/O, or its  *)
(* return, in one step: no other handler runs in between.                   *)
Pass ==
  /\ ready = {} \/ batch
  /\ UNCHANGED << ready, batch >>

(* A timer fires, or the I/O that h awaited completes.                      *)
Wake(h) ==
  /\ ready = {}
  /\ ready' = {h}
  /\ batch' = FALSE

(* h runs up to its next await, which is a microtask: it stays runnable.    *)
Tick(h) ==
  /\ h \in ready
  /\ UNCHANGED << ready, batch >>

(* h runs up to an await of real I/O, or returns.                           *)
Suspend(h) ==
  /\ h \in ready
  /\ ready' = ready \ {h}
  /\ UNCHANGED batch

(* A drain in one step: a handler wakes from real I/O, runs, and waits for  *)
(* the next I/O or returns.                                                 *)
Drain ==
  /\ ready = {}
  /\ UNCHANGED << ready, batch >>

(* The process is killed: no handler survives.                              *)
Halt ==
  /\ ready' = {}
  /\ batch' = FALSE

=============================================================================
