------------------------------ MODULE LogPrint ------------------------------
(***************************************************************************)
(* The log of the library: OZCLIENT_PRINTF (include/OzUtils.h) and the     *)
(* registration of the application's print callback (OzUtils.cpp,          *)
(* OzClientAPI.cpp).                                                       *)
(*                                                                         *)
(* OZCLIENT_PRINTF is a static function in a header: every translation     *)
(* unit that includes it has its own level and its own buffer, and the     *)
(* registration sets the level of OzUtils.cpp.  The callback is one global *)
(* for all.  Nothing is locked, so threads write to the buffer of a unit   *)
(* at the same time: one action writes one byte.                           *)
(*                                                                         *)
(* A line is abstracted to the lengths of its head and its text, its bytes *)
(* to the thread that writes them.  The head names the function, the line  *)
(* number and the thread, so each has a length of its own.  A line number  *)
(* of 0, for which the function changes the text, is passed by no caller.  *)
(* The application registers on one thread at a time, and a NULL callback  *)
(* only when nothing is printed.                                           *)
(***************************************************************************)
EXTENDS Integers, Sequences

CONSTANTS
  Threads,
  Units,      \* the translation units that include OzUtils.h
  OzUtils,    \* the one whose level a registration sets
  Callbacks,  \* print callbacks of the application
  Size,       \* MAX_PRINT_BUFF
  MaxHead,    \* bound on the length of a head, which fits the buffer
  MaxText,    \* bound on the length of a text
  NULL        \* no callback, and the byte that ends a string

ASSUME UnitsType == OzUtils \in Units
ASSUME SizesType == Size \in Nat /\ MaxHead \in 1..Size-1 /\ MaxText \in Nat
ASSUME NullType == NULL \notin Threads \cup Callbacks

VARIABLES
  level,     \* the static _oz_severity_level of each unit
  buff,      \* the static buff of each unit
  callback,  \* _oz_print_callback
  crashed,   \* was NULL called?
  pc,        \* where each thread is
  unit,      \* the unit whose code it runs
  line,      \* the line it prints
  todo,      \* the bytes it still has to write
  pos,       \* where the next one goes
  alone,     \* history: has nobody else printed in its unit since it began?
  got        \* what the callback got from its last line

statics == <<level, buff, callback, crashed>>
locals == <<unit, line, todo, pos, alone, got>>
vars == <<statics, pc, locals>>

-----------------------------------------------------------------------------
(* OSNCLIENT_LOG_ERR, OSNCLIENT_LOG_INFO and OSNCLIENT_LOG_DEBUG: the      *)
(* levels the library prints at.                                           *)
Levels == {3, 6, 7}

Info == 6

Lines == [head : 1..MaxHead, text : 0..MaxText]

NoLine == [head |-> 1, text |-> 0]

Init ==
  /\ level = [u \in Units |-> Info]
  /\ buff = [u \in Units |-> [n \in 1..Size |-> NULL]]
  /\ callback = NULL
  /\ crashed = FALSE
  /\ pc = [t \in Threads |-> "idle"]
  /\ unit = [t \in Threads |-> OzUtils]
  /\ line = [t \in Threads |-> NoLine]
  /\ todo = [t \in Threads |-> <<>>]
  /\ pos = [t \in Threads |-> 1]
  /\ alone = [t \in Threads |-> FALSE]
  /\ got = [t \in Threads |-> <<>>]

Goto(t, from, to) ==
  /\ pc[t] = from
  /\ pc' = [pc EXCEPT ![t] = to]

Printing(u) == {t \in Threads : unit[t] = u /\ pc[t] \in {"head", "text", "print", "call"}}

Registering == {t \in Threads : pc[t] = "register"}

Bytes(t, n) == [k \in 1..n |-> t]

Least(m, n) == IF m < n THEN m ELSE n

(* What a reader of a string gets: the bytes before the first zero. *)
String(b) ==
  LET end == CHOOSE n \in 1..Size : b[n] = NULL /\ \A m \in 1..n-1 : b[m] # NULL
  IN SubSeq(b, 1, end - 1)

-----------------------------------------------------------------------------
(* OZCLIENT_PRINTF.                                                        *)

(* Mutation: the buffer is one static for all units. *)
OneBuffer(t) == OzUtils

Buffer(t) == unit[t]

Passes(u, l) == l <= level[u]

(* snprintf starts to write the head and the zero behind it. *)
Begin(t) ==
  \E u \in Units, l \in Lines :
    /\ Goto(t, "idle", "head")
    /\ \E severity \in Levels : Passes(u, severity)
    /\ unit' = [unit EXCEPT ![t] = u]
    /\ line' = [line EXCEPT ![t] = l]
    /\ todo' = [todo EXCEPT ![t] = Bytes(t, l.head) \o <<NULL>>]
    /\ alone' = [s \in Threads |->
                   IF s = t THEN Printing(u) = {} ELSE alone[s] /\ s \notin Printing(u)]
    /\ UNCHANGED <<statics, pos, got>>

Put(t) ==
  /\ pc[t] \in {"head", "text"} /\ todo[t] # <<>>
  /\ buff' = [buff EXCEPT ![Buffer(t)] =
       [n \in 1..Size |-> IF n = pos[t] THEN Head(todo[t]) ELSE @[n]]]
  /\ todo' = [todo EXCEPT ![t] = Tail(@)]
  /\ pos' = [pos EXCEPT ![t] = @ + 1]
  /\ UNCHANGED <<level, callback, crashed, pc, unit, line, alone, got>>

(* Mutation: vsnprintf is given the size of the whole buffer. *)
WholeSize(l) == Size - 1

(* How many bytes of a text go behind the head. *)
Room(l) == (Size - 1) - l.head

(* vsnprintf starts to write the text, from the zero of the head on. *)
BeginText(t) ==
  /\ Goto(t, "head", "text")
  /\ todo[t] = <<>>
  /\ todo' = [todo EXCEPT ![t] = Bytes(t, Least(line[t].text, Room(line[t]))) \o <<NULL>>]
  /\ pos' = [pos EXCEPT ![t] = @ - 1]
  /\ UNCHANGED <<statics, unit, line, alone, got>>

(* printf. *)
Output(t) ==
  /\ Goto(t, "text", "print")
  /\ todo[t] = <<>>
  /\ UNCHANGED <<statics, locals>>

HasCallback == callback # NULL

TestCallback(t) ==
  /\ Goto(t, "print", IF HasCallback THEN "call" ELSE "done")
  /\ UNCHANGED <<statics, locals>>

(* The global is read once more, and what it points to is called. *)
CallBack(t) ==
  /\ Goto(t, "call", "done")
  /\ crashed' = (callback = NULL)
  /\ got' = [got EXCEPT ![t] = String(buff[Buffer(t)])]
  /\ UNCHANGED <<level, buff, callback, unit, line, todo, pos, alone>>

(* The locals of OZCLIENT_PRINTF are gone. *)
Return(t) ==
  /\ Goto(t, "done", "idle")
  /\ unit' = [unit EXCEPT ![t] = OzUtils]
  /\ line' = [line EXCEPT ![t] = NoLine]
  /\ pos' = [pos EXCEPT ![t] = 1]
  /\ alone' = [alone EXCEPT ![t] = FALSE]
  /\ got' = [got EXCEPT ![t] = <<>>]
  /\ UNCHANGED <<statics, todo>>

-----------------------------------------------------------------------------
(* oz_register_print_callback -> ozClient_register_print_callback.         *)

Register(t) ==
  /\ Goto(t, "idle", "register")
  /\ Registering = {}
  /\ \E l \in Levels : level' = [level EXCEPT ![OzUtils] = l]
  /\ UNCHANGED <<buff, callback, crashed, unit, line, todo, pos, alone, got>>

SetCallback(t) ==
  /\ Goto(t, "register", "idle")
  /\ callback' \in Callbacks \cup {NULL}
  /\ callback' = NULL => \A u \in Units : Printing(u) = {}
  /\ UNCHANGED <<level, buff, crashed, locals>>

Next ==
  /\ ~crashed
  /\ \E t \in Threads :
       \/ Begin(t) \/ Put(t) \/ BeginText(t) \/ Output(t) \/ TestCallback(t) \/ CallBack(t)
       \/ Return(t) \/ Register(t) \/ SetCallback(t)

Spec == Init /\ [][Next]_vars

-----------------------------------------------------------------------------
(* Properties.                                                             *)

(* Type invariant of the log. *)
TypeOK ==
  /\ level \in [Units -> Levels]
  /\ buff \in [Units -> [1..Size -> Threads \cup {NULL}]]
  /\ callback \in Callbacks \cup {NULL}
  /\ crashed \in BOOLEAN
  /\ pc \in [Threads -> {"idle", "head", "text", "print", "call", "done", "register"}]
  /\ unit \in [Threads -> Units]
  /\ line \in [Threads -> Lines]
  /\ todo \in [Threads -> Seq(Threads \cup {NULL})]
  /\ \A t \in Threads : Len(todo[t]) <= Size
  /\ pos \in [Threads -> 1..Size + 1]
  /\ alone \in [Threads -> BOOLEAN]
  /\ got \in [Threads -> Seq(Threads)]

(* However the threads overwrite each other's lines, what printf and the   *)
(* callback read ends inside the buffer; and no line calls a callback that *)
(* is NULL, although it is tested and called in two accesses and may be    *)
(* replaced in between.                                                    *)
SafeOutput ==
  /\ ~crashed
  /\ \A t \in Threads : pc[t] \in {"print", "call"} =>
       \E n \in 1..Size : buff[Buffer(t)][n] = NULL

(* A line whose thread had its unit for itself gets to the callback as it  *)
(* was printed, cut to the buffer; threads in other units do not disturb   *)
(* it.                                                                     *)
OwnLine ==
  \A t \in Threads : got[t] # <<>> /\ alone[t] =>
    got[t] = Bytes(t, Least(line[t].head + line[t].text, Size - 1))
=============================================================================
