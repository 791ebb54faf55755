----------------------------- MODULE MCConsole -----------------------------
(* Keys and lines: a behaviour is one of the ring of keys (Console) or one  *)
(* of the line editor (Readline).                                           *)
EXTENDS Naturals

CONSTANTS Procs, CONSBUFSIZE, MaxPresses, Scenes, Methods,
          Letters, BUFLEN, HISTORY_MAX, Commands, TakesNames, Names, MaxKeys

VARIABLES part,
          scene, method, pressed, cons, stored, KBDsem, chan, masked, pc, char, got, overran,
          editor, keys, buf, place, lastIndex, scr, commandidx, last_command_idx,
          command_history, lastTab, PrefixList, prefix_list_idx, prefix_list_size, clean, ran

ring == <<scene, method, pressed, cons, stored, KBDsem, chan, masked, pc, char, got,
          overran>>
line == <<editor, keys, buf, place, lastIndex, scr, commandidx, last_command_idx,
          command_history, lastTab, PrefixList, prefix_list_idx, prefix_list_size, clean, ran>>

C == INSTANCE Console WITH MaxKeys <- MaxPresses
L == INSTANCE Readline WITH i <- place

ASSUME RingAssumption == C!ConsoleAssumption
ASSUME LineAssumption == L!ReadlineAssumption

\* Two programs that lock the console, and one that reads alone without.
MCScenes == {[who |-> {"p", "q"}, locking |-> {"p", "q"}],
             [who |-> {"p"}, locking |-> {}]}
MCMethods == {"LCK_INT", "LCK_SLEEP", "LCK_SEMAPHORE"}

MCCommands == << <<"r">>, <<"r", "x">> >>
MCTakesNames == {<<"r">>}
MCNames == << <<"x">>, <<"x", "r">> >>

\* The part that does not run starts in one of its initial states.
MCInit == /\ part \in {"ring", "line"} /\ L!Init /\ C!Init
          /\ part = "ring" => editor = "prompt" /\ lastTab
          /\ part = "line" => method = "LCK_INT" /\ scene.locking = {}

MCNext == \/ part = "ring" /\ C!Next /\ UNCHANGED <<part, line>>
          \/ part = "line" /\ L!Next /\ UNCHANGED <<part, ring>>

MCSpec == MCInit /\ [][MCNext]_<<part, line, ring>> /\ C!Fairness

KeysInOrder == C!KeysInOrder
ReaderServed == C!ReaderServed
RunsWhatIsShown == L!RunsWhatIsShown
RecallsTheLatest == L!RecallsTheLatest
============================================================================
