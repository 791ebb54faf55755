------------------------------ MODULE Console ------------------------------
(***************************************************************************)
(* The way of a key from the keyboard to the program that reads it:        *)
(* kern/cons/console.c (the ring cons, its interrupt handler and the       *)
(* console lock) with sys_cgetc of kern/trap/syscall.c.                    *)
(*                                                                         *)
(* The keys that are pressed are numbered; key k is the k-th.  A program   *)
(* whose interrupts are on can be preempted between any two steps of       *)
(* cons_getc2, and the keyboard interrupt falls anywhere.  A program that  *)
(* holds the console (CONS_LCK_METHOD is LCK_INT) runs with interrupts off *)
(* until it gives it back, and polls the keyboard itself.                  *)
(*                                                                         *)
(* An operator that ends in _slip is a deliberately wrong form of the      *)
(* definition below it, which the properties must tell from the right one. *)
(***************************************************************************)
EXTENDS Naturals, Sequences, FiniteSets

CONSTANTS
  Procs,        \* the programs
  CONSBUFSIZE,  \* the size of the ring
  MaxKeys,      \* the bound on the keys that are pressed
  Scenes,       \* [who : the programs that read, locking : those that lock]
  Methods       \* the values of KBD_INT_BLK_METHOD

NoProc == "none"

ConsoleAssumption ==
  /\ CONSBUFSIZE \in Nat \ {0} /\ MaxKeys \in Nat
  /\ NoProc \notin Procs
  /\ Methods \subseteq {"LCK_INT", "LCK_SLEEP", "LCK_SEMAPHORE"}
  /\ \A s \in Scenes : s.locking \subseteq s.who /\ s.who \subseteq Procs

VARIABLES
  scene, method,
  pressed,   \* keys pressed so far
  cons,      \* the ring: [buf, rpos, wpos]
  stored,    \* keys that the keyboard has handed over
  KBDsem,    \* the count of the keyboard semaphore
  chan,      \* KBDchannel
  masked,    \* the program that runs with interrupts off, or NoProc
  pc,        \* [Procs -> where in sys_cgetc the program is]
  char,      \* [Procs -> the character it has fetched]
  got,       \* the keys in the order in which programs got them (ghost)
  overran    \* keys have been typed a whole ring ahead of the readers (ghost)

vars == <<scene, method, pressed, cons, stored, KBDsem, chan, masked, pc, char, got,
          overran>>

Free(p) == masked \in {NoProc, p} /\ p \in scene.who

----------------------------------------------------------------------------
\* cons_intr: everything the keyboard has, into the ring.  Nothing looks
\* whether there is room.
cons_intr(r) ==
  LET new == pressed - stored
  IN  [r EXCEPT
         !.buf = [i \in DOMAIN r.buf |->
                    LET hits == {k \in 1..new : (r.wpos + k - 1) % CONSBUFSIZE = i}
                    IN  IF hits = {} THEN r.buf[i]
                        ELSE stored + CHOOSE k \in hits : \A h \in hits : h <= k],
         !.wpos = (@ + new) % CONSBUFSIZE]

Pending(r) == r.rpos # r.wpos

\* A key that makes a character: the controller keeps it until kbd_proc_data
\* reads it.  (Scan codes and the shift keys, which make no character, are
\* left out.)
Press ==
  /\ pressed < MaxKeys
  /\ pressed' = pressed + 1
  /\ overran' = (overran \/ pressed + 1 - Len(got) >= CONSBUFSIZE)
  /\ UNCHANGED <<scene, method, cons, stored, KBDsem, chan, masked, pc, char, got>>

\* The reader is not told.
Announce_slip == UNCHANGED <<KBDsem, chan, pc>>

\* The end of the interrupt handler.
Announce ==
  /\ KBDsem' = IF method = "LCK_SEMAPHORE" /\ Pending(cons') THEN KBDsem + 1 ELSE KBDsem
  /\ LET wakes == method = "LCK_SLEEP" /\ Pending(cons') /\ chan # <<>>
     IN  /\ chan' = IF wakes THEN Tail(chan) ELSE chan
         /\ pc' = IF wakes THEN [pc EXCEPT ![Head(chan)] = "check"] ELSE pc

keyboard_interrupt_handler ==
  /\ masked = NoProc /\ stored < pressed
  /\ cons' = cons_intr(cons) /\ stored' = pressed
  /\ Announce
  /\ UNCHANGED <<scene, method, pressed, masked, char, got, overran>>

----------------------------------------------------------------------------
(* The console lock.                                                       *)

cons_lock(p) ==
  /\ Free(p) /\ p \in scene.locking /\ masked = NoProc /\ pc[p] = "out"
  /\ masked' = p
  /\ UNCHANGED <<scene, method, pressed, cons, stored, KBDsem, chan, pc, char, got, overran>>

cons_unlock(p) ==
  /\ masked = p /\ pc[p] = "out"
  /\ masked' = NoProc
  /\ UNCHANGED <<scene, method, pressed, cons, stored, KBDsem, chan, pc, char, got, overran>>

----------------------------------------------------------------------------
(* sys_cgetc                                                               *)

Goes(p, l) == pc' = [pc EXCEPT ![p] = l]

\* A program that locks the console reads while it holds it.
Call(p) ==
  /\ Free(p) /\ pc[p] = "out" /\ (p \in scene.locking => masked = p)
  /\ Goes(p, "check")
  /\ UNCHANGED <<scene, method, pressed, cons, stored, KBDsem, chan, masked, char, got, overran>>

\* The character stays in the ring.
Fetched_slip(r) == [r EXCEPT !.rpos = @]
Fetched(r) == [r EXCEPT !.rpos = (@ + 1) % CONSBUFSIZE]

\* Interrupts are off: cons_getc polls the devices, and tries until it finds
\* a character.
Poll(p) ==
  /\ masked = p /\ pc[p] = "check"
  /\ stored' = pressed
  /\ LET r == cons_intr(cons)
     IN  IF Pending(r)
         THEN /\ cons' = Fetched(r)
              /\ got' = Append(got, r.buf[r.rpos])
              /\ Goes(p, "out")
         ELSE cons' = r /\ UNCHANGED <<got, pc>>
  /\ UNCHANGED <<scene, method, pressed, KBDsem, chan, masked, char, overran>>

\* Interrupts are on: cons_getc2 step by step, and what follows when the ring
\* is empty, by KBD_INT_BLK_METHOD.
Check(p) ==
  /\ masked = NoProc /\ pc[p] = "check"
  /\ Goes(p, IF Pending(cons) THEN "fetch"
             ELSE IF method = "LCK_SLEEP" THEN "sleep"
             ELSE IF method = "LCK_SEMAPHORE" THEN "wait"
             ELSE "check")
  /\ UNCHANGED <<scene, method, pressed, cons, stored, KBDsem, chan, masked, char, got, overran>>

\* KBDlock is of no use: the handler does not take it.
SleepOnChannel(p) ==
  /\ masked = NoProc /\ pc[p] = "sleep"
  /\ chan' = Append(chan, p) /\ Goes(p, "asleep")
  /\ UNCHANGED <<scene, method, pressed, cons, stored, KBDsem, masked, char, got, overran>>

WaitSemaphore(p) ==
  /\ masked = NoProc /\ pc[p] = "wait" /\ KBDsem > 0
  /\ KBDsem' = KBDsem - 1 /\ Goes(p, "check")
  /\ UNCHANGED <<scene, method, pressed, cons, stored, chan, masked, char, got, overran>>

Fetch(p) ==
  /\ masked = NoProc /\ pc[p] = "fetch"
  /\ char' = [char EXCEPT ![p] = cons.buf[cons.rpos]]
  /\ cons' = [cons EXCEPT !.rpos = @ + 1]
  /\ Goes(p, "wrap")
  /\ UNCHANGED <<scene, method, pressed, stored, KBDsem, chan, masked, got, overran>>

Wrap(p) ==
  /\ masked = NoProc /\ pc[p] = "wrap"
  /\ cons' = IF cons.rpos = CONSBUFSIZE THEN [cons EXCEPT !.rpos = 0] ELSE cons
  /\ got' = Append(got, char[p])
  /\ Goes(p, "out")
  /\ UNCHANGED <<scene, method, pressed, stored, KBDsem, chan, masked, char, overran>>

sys_cgetc(p) == \/ Poll(p) \/ Check(p) \/ SleepOnChannel(p) \/ WaitSemaphore(p)
                \/ Fetch(p) \/ Wrap(p)

----------------------------------------------------------------------------
\* cons_init
Init ==
  /\ scene \in Scenes /\ method \in Methods
  /\ pressed = 0 /\ stored = 0
  /\ cons = [buf |-> [i \in 0..(CONSBUFSIZE - 1) |-> 0], rpos |-> 0, wpos |-> 0]
  /\ KBDsem = 0 /\ chan = <<>>
  /\ masked = NoProc
  /\ pc = [p \in Procs |-> "out"] /\ char = [p \in Procs |-> 0]
  /\ got = <<>> /\ overran = FALSE

Next == \/ Press \/ keyboard_interrupt_handler
        \/ \E p \in Procs : cons_lock(p) \/ cons_unlock(p) \/ Call(p) \/ sys_cgetc(p)

Fairness == /\ WF_vars(keyboard_interrupt_handler)
            /\ \A p \in Procs : WF_vars(sys_cgetc(p)) /\ WF_vars(cons_unlock(p))

Spec == Init /\ [][Next]_vars /\ Fairness

----------------------------------------------------------------------------
(* "return the next input character from the console buffer"               *)
(* (console.c:454): programs that lock the console, or a program that      *)
(* reads alone, get every key once and in the order in which it was        *)
(* pressed, wherever the keyboard interrupt falls, as long as nobody types *)
(* a whole ring ahead.                                                     *)
KeysInOrder == ~overran => \A i \in DOMAIN got : got[i] = i

Waits(p) == pc[p] \in {"check", "sleep", "asleep", "wait"}

(* A program that waits in sys_cgetc gets a key when one has been pressed: *)
(* the test for an empty ring and the interrupt that fills it cannot miss  *)
(* each other under the methods LCK_INT and LCK_SEMAPHORE, nor does the    *)
(* keyboard go unread while interrupts are off.  (They can under LCK_SLEEP:*)
(* the handler does not take KBDlock, and wakes nobody when it falls       *)
(* between the test and the sleep.)                                        *)
ReaderServed ==
  \A p \in Procs : (Waits(p) /\ pressed > Len(got) /\ method # "LCK_SLEEP")
                      ~> (~Waits(p) \/ overran)
============================================================================
