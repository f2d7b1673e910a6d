-------------------------------- MODULE Ludo --------------------------------
(***************************************************************************)
(* Lab 4 ("4 Lab"): the ludo game.  The coordinator (ludo.c) asks the      *)
(* players' parent (players.c) for a move by SIGUSR1; the parent passes    *)
(* the signal to the player whose turn it is; the player moves on the      *)
(* shared board and signals the board process (board.c), which draws and   *)
(* writes ACK to the pipe that the coordinator reads.  A step is a signal, *)
(* a write to the pipe, or a write to the shared memory with the reads     *)
(* that follow it.                                                         *)
(*                                                                         *)
(* A signal is a pending bit, and a handler masks its own signal only.     *)
(* Assumed: board.c's sleep(1) before its first ACK outlasts the start of  *)
(* players.c (FirstDraw).  The coordinator reads the terminal and the pipe *)
(* through the same stdin buffer: words typed ahead are in inbuf.          *)
(***************************************************************************)
EXTENDS Integers, Sequences, FiniteSets

CONSTANTS n, LastCell, Boards,
          Lines      \* what a user may type on one line, as words

Players == 0 .. n - 1
PP      == n          \* the players' parent
BP      == n + 1      \* the board process

ASSUME LudoAssumption ==
  /\ n \in Nat \ {0} /\ LastCell \in Nat \ {0}
  /\ \A b \in Boards : /\ b \in [1 .. LastCell - 1 -> Int]
                       /\ \A c \in 1 .. LastCell - 1 : c + b[c] \in 1 .. LastCell - 1
  /\ Lines \subseteq Seq({"next", "autoplay", "quit"}) \ {<<>>}

VARIABLES shm_board,      \* shared memory: the board, ...
          shm_players,    \* ... the cell of each player ...
          unfinished,     \* ... and shm_players[n], how many still play
          pipe_p,         \* from the board and the parent to the coordinator
          sigusr1,        \* the processes with that signal pending
          sigusr2,
          cpc, inbuf, autoplay,              \* the coordinator
          ppc, pid_players, current, k,      \* the parent; TRUE: a pid, FALSE: -1
          pc, to,                            \* a player, and where it goes next
          bpc, shown,                        \* the board, and what is drawn
          mover, drawn    \* history: who was signalled last; is its move drawn?

shm == <<shm_board, shm_players, unfinished>>
cp  == <<cpc, inbuf, autoplay>>
pp  == <<ppc, pid_players, current, k>>
pl  == <<pc, to>>
bp  == <<bpc, shown>>
hist == <<mover, drawn>>
vars == <<shm, pipe_p, sigusr1, sigusr2, cp, pp, pl, bp, hist>>

Throws == {6 * sixes + die : sixes \in 0 .. 2, die \in 1 .. 5}

After(p)  == (p + 1) % n
Before(p) == (p - 1 + n) % n

Init == /\ shm_board \in Boards
        /\ shm_players = [p \in Players |-> 0] /\ unfinished = n
        /\ pipe_p = <<>> /\ sigusr1 = {} /\ sigusr2 = {}
        /\ cpc = "readbp" /\ inbuf = <<>> /\ autoplay = FALSE
        /\ ppc = "off" /\ pid_players = [p \in Players |-> FALSE]
        /\ current = 0 /\ k = 0
        /\ pc = [p \in Players |-> "off"] /\ to = [p \in Players |-> 0]
        /\ bpc = "start" /\ shown = [p \in Players |-> 0]
        /\ mover = n - 1 /\ drawn = TRUE

Goto(p, from, place) == pc[p] = from /\ pc' = [pc EXCEPT ![p] = place]
Read(word)           == pipe_p # <<>> /\ Head(pipe_p) = word /\ pipe_p' = Tail(pipe_p)
Write(word)          == pipe_p' = Append(pipe_p, word)
-----------------------------------------------------------------------------
(* The coordinator starts the board and, once it has its pid, the parent.  *)
ReadBoardPid ==
  /\ cpc = "readbp" /\ cpc' = "readpp"
  /\ Read("bp")
  /\ ppc' = "start"
  /\ UNCHANGED <<shm, sigusr1, sigusr2, inbuf, autoplay, pid_players, current, k, pl, bp, hist>>

ReadParentPid ==
  /\ cpc = "readpp" /\ cpc' = "readack"
  /\ Read("pp")
  /\ UNCHANGED <<shm, sigusr1, sigusr2, inbuf, autoplay, pp, pl, bp, hist>>

ReadFirstAck ==
  /\ cpc = "readack" /\ cpc' = "prompt"
  /\ Read("ACK")
  /\ UNCHANGED <<shm, sigusr1, sigusr2, inbuf, autoplay, pp, pl, bp, hist>>

(* handleUserInput: the next word that was typed.                          *)
handleUserInput ==
  /\ cpc = "prompt"
  /\ \E line \in IF inbuf = <<>> THEN Lines ELSE {inbuf} :
       /\ inbuf' = Tail(line)
       /\ cpc' = IF Head(line) = "quit" THEN "terminate" ELSE "play"
       /\ autoplay' = (Head(line) = "autoplay")
  /\ UNCHANGED <<shm, pipe_p, sigusr1, sigusr2, pp, pl, bp, hist>>

Play ==
  /\ cpc = "play" /\ cpc' = "waitack"
  /\ sigusr1' = sigusr1 \cup {PP}
  /\ UNCHANGED <<shm, pipe_p, sigusr2, inbuf, autoplay, pp, pl, bp, hist>>

(* play reads the answer: a word typed ahead comes before the pipe, and is *)
(* a wrong acknowledgment.                                                 *)
WrongAck ==
  /\ cpc = "waitack" /\ inbuf # <<>>
  /\ cpc' = "over" /\ inbuf' = <<>>
  /\ UNCHANGED <<shm, pipe_p, sigusr1, sigusr2, autoplay, pp, pl, bp, hist>>

ReadAck ==
  /\ cpc = "waitack" /\ inbuf = <<>>
  /\ Read("ACK")
  /\ cpc' = IF unfinished = 0 THEN "over" ELSE IF autoplay THEN "play" ELSE "prompt"
  /\ UNCHANGED <<shm, sigusr1, sigusr2, inbuf, autoplay, pp, pl, bp, hist>>

(* "Hit return to end the game".                                           *)
HitReturn ==
  /\ cpc = "over" /\ cpc' = "terminate"
  /\ UNCHANGED <<shm, pipe_p, sigusr1, sigusr2, inbuf, autoplay, pp, pl, bp, hist>>

(* terminateGame: the parent first, and when it is gone the board.         *)
EndParent ==
  /\ cpc = "terminate" /\ cpc' = "waitpp"
  /\ sigusr2' = sigusr2 \cup {PP}
  /\ UNCHANGED <<shm, pipe_p, sigusr1, inbuf, autoplay, pp, pl, bp, hist>>

EndBoard ==
  /\ cpc = "waitpp" /\ ppc = "end" /\ cpc' = "waitbp"
  /\ sigusr2' = sigusr2 \cup {BP}
  /\ UNCHANGED <<shm, pipe_p, sigusr1, inbuf, autoplay, pp, pl, bp, hist>>

quit ==
  /\ cpc = "waitbp" /\ bpc = "end" /\ cpc' = "end"
  /\ UNCHANGED <<shm, pipe_p, sigusr1, sigusr2, inbuf, autoplay, pp, pl, bp, hist>>

Coordinator == \/ ReadBoardPid \/ ReadParentPid \/ ReadFirstAck \/ Play \/ WrongAck
               \/ ReadAck \/ EndParent \/ EndBoard \/ quit

User == handleUserInput \/ HitReturn
-----------------------------------------------------------------------------
SendParentPid ==
  /\ ppc = "start" /\ ppc' = "fork"
  /\ Write("pp")
  /\ UNCHANGED <<shm, sigusr1, sigusr2, cp, pid_players, current, k, pl, bp, hist>>

ForkPlayer ==
  /\ ppc = "fork"
  /\ pc' = [pc EXCEPT ![k] = "pause"]
  /\ pid_players' = [pid_players EXCEPT ![k] = TRUE]
  /\ k' = k + 1
  /\ ppc' = IF k + 1 = n THEN "pause" ELSE "fork"
  /\ UNCHANGED <<shm, pipe_p, sigusr1, sigusr2, cp, current, to, bp, hist>>

(* Mutants, here and below: a plausible bug in the definition that follows. *)
StillPlayingAll == pid_players                             \* the finisher stays

(* The players that a signal can go to, once the last mover is looked at.  *)
StillPlaying ==
  IF shm_players[Before(current)] = LastCell
  THEN [pid_players EXCEPT ![Before(current)] = FALSE] ELSE pid_players

(* The first of i, i+1, ... among them; i if there is none.                *)
FirstFrom(i, playing) ==
  LET ahead == {d \in Players : playing[(i + d) % n]}
  IN  IF ahead = {} THEN i
      ELSE (i + CHOOSE d \in ahead : \A e \in ahead : d <= e) % n

(* parentHandleMove: without a player left it returns and tells nobody.    *)
parentHandleMove ==
  /\ ppc = "pause" /\ PP \in sigusr1
  /\ pid_players' = StillPlaying
  /\ current' = FirstFrom(current, StillPlaying)
  /\ IF StillPlaying[current']
     THEN /\ sigusr1' = (sigusr1 \ {PP}) \cup {current'}
          /\ ppc' = "advance" /\ mover' = current' /\ drawn' = FALSE
     ELSE sigusr1' = sigusr1 \ {PP} /\ UNCHANGED <<ppc, hist>>
  /\ UNCHANGED <<shm, pipe_p, sigusr2, cp, k, pl, bp>>

Advance ==
  /\ ppc = "advance" /\ ppc' = "pause"
  /\ current' = After(current)
  /\ UNCHANGED <<shm, pipe_p, sigusr1, sigusr2, cp, pid_players, k, pl, bp, hist>>

HandleQuitFromOne ==                                       \* i = 1
  /\ ppc \in {"pause", "advance"} /\ PP \in sigusr2
  /\ ppc' = "kill" /\ k' = 1
  /\ sigusr2' = sigusr2 \ {PP}
  /\ UNCHANGED <<shm, pipe_p, sigusr1, cp, pid_players, current, pl, bp, hist>>

(* SIGUSR2, which may come in the middle of parentHandleMove: terminate    *)
(* the players one by one, and quit.                                       *)
HandleQuit ==
  /\ ppc \in {"pause", "advance"} /\ PP \in sigusr2
  /\ ppc' = "kill" /\ k' = 0
  /\ sigusr2' = sigusr2 \ {PP}
  /\ UNCHANGED <<shm, pipe_p, sigusr1, cp, pid_players, current, pl, bp, hist>>

terminatePlayers ==
  /\ ppc = "kill" /\ k < n
  /\ pc' = IF pid_players[k] THEN [pc EXCEPT ![k] = "dead"] ELSE pc
  /\ pid_players' = [pid_players EXCEPT ![k] = FALSE]
  /\ k' = k + 1
  /\ UNCHANGED <<shm, pipe_p, sigusr1, sigusr2, cp, ppc, current, to, bp, hist>>

ParentQuit ==
  /\ ppc = "kill" /\ k = n /\ ppc' = "end"
  /\ UNCHANGED <<shm, pipe_p, sigusr1, sigusr2, cp, pid_players, current, k, pl, bp, hist>>

Parent == \/ SendParentPid \/ ForkPlayer \/ parentHandleMove \/ Advance
          \/ HandleQuit \/ terminatePlayers \/ ParentQuit
-----------------------------------------------------------------------------
checkOccupied(where, c) == \E q \in Players : where[q] = c

(* playerHandleMove: the throw, and whether the move is permitted.         *)
Throw(p) ==
  /\ pc[p] = "pause" /\ p \in sigusr1
  /\ sigusr1' = sigusr1 \ {p}
  /\ \E d \in Throws :
       LET c == shm_players[p] + d
       IN  /\ to' = [to EXCEPT ![p] = IF c <= LastCell THEN c ELSE 0]
           /\ pc' = [pc EXCEPT ![p] =
                       IF c = LastCell THEN "finish"
                       ELSE IF c > LastCell \/ checkOccupied(shm_players, c) THEN "tell"
                       ELSE "land"]
  /\ UNCHANGED <<shm, pipe_p, sigusr2, cp, pp, bp, hist>>

LandLookingFirst(p) ==                                     \* looks, then steps
  /\ pc[p] = "land"
  /\ shm_players' = [shm_players EXCEPT ![p] = to[p]]
  /\ LET on == to[p] + shm_board[to[p]]
     IN  IF shm_board[to[p]] = 0 \/ checkOccupied(shm_players, on)
         THEN Goto(p, "land", "tell") /\ UNCHANGED to
         ELSE to' = [to EXCEPT ![p] = on] /\ UNCHANGED pc
  /\ UNCHANGED <<shm_board, unfinished, pipe_p, sigusr1, sigusr2, cp, pp, bp, hist>>

(* A step to a cell, and whether a snake or a ladder leads on from there.  *)
Land(p) ==
  /\ pc[p] = "land"
  /\ shm_players' = [shm_players EXCEPT ![p] = to[p]]
  /\ LET on == to[p] + shm_board[to[p]]
     IN  IF shm_board[to[p]] = 0 \/ checkOccupied(shm_players', on)
         THEN Goto(p, "land", "tell") /\ UNCHANGED to
         ELSE to' = [to EXCEPT ![p] = on] /\ UNCHANGED pc
  /\ UNCHANGED <<shm_board, unfinished, pipe_p, sigusr1, sigusr2, cp, pp, bp, hist>>

FinishTelling(p) ==                                        \* kill, then the rank
  /\ Goto(p, "finish", "rank")
  /\ shm_players' = [shm_players EXCEPT ![p] = LastCell]
  /\ sigusr1' = sigusr1 \cup {BP}
  /\ UNCHANGED <<shm_board, unfinished, pipe_p, sigusr2, cp, pp, to, bp, hist>>

Finish(p) ==
  /\ Goto(p, "finish", "rank")
  /\ shm_players' = [shm_players EXCEPT ![p] = LastCell]
  /\ UNCHANGED <<shm_board, unfinished, pipe_p, sigusr1, sigusr2, cp, pp, to, bp, hist>>

Rank(p) ==
  /\ Goto(p, "rank", "tellend")
  /\ unfinished' = unfinished - 1
  /\ UNCHANGED <<shm_board, shm_players, pipe_p, sigusr1, sigusr2, cp, pp, to, bp, hist>>

(* The board is told; a player that has finished exits.                    *)
Tell(p) ==
  /\ Goto(p, "tell", "pause") \/ Goto(p, "tellend", "dead")
  /\ to' = [to EXCEPT ![p] = 0]
  /\ sigusr1' = sigusr1 \cup {BP}
  /\ UNCHANGED <<shm, pipe_p, sigusr2, cp, pp, bp, hist>>

Player(p) == Throw(p) \/ Land(p) \/ Finish(p) \/ Rank(p) \/ Tell(p)
-----------------------------------------------------------------------------
SendBoardPid ==
  /\ bpc = "start" /\ bpc' = "sleep"
  /\ Write("bp")
  /\ UNCHANGED <<shm, sigusr1, sigusr2, cp, pp, pl, shown, hist>>

FirstDraw ==
  /\ bpc = "sleep" /\ ppc = "pause" /\ bpc' = "draw"
  /\ UNCHANGED <<shm, pipe_p, sigusr1, sigusr2, cp, pp, pl, shown, hist>>

BeginDraw ==
  /\ bpc = "pause" /\ BP \in sigusr1 /\ bpc' = "draw"
  /\ sigusr1' = sigusr1 \ {BP}
  /\ UNCHANGED <<shm, pipe_p, sigusr2, cp, pp, pl, shown, hist>>

printBoard ==
  /\ bpc = "draw" /\ bpc' = "ack"
  /\ shown' = shm_players /\ drawn' = TRUE
  /\ UNCHANGED <<shm, pipe_p, sigusr1, sigusr2, cp, pp, pl, mover>>

sendAck ==
  /\ bpc = "ack" /\ bpc' = "pause"
  /\ Write("ACK")
  /\ UNCHANGED <<shm, sigusr1, sigusr2, cp, pp, pl, shown, hist>>

BoardQuit ==
  /\ bpc \in {"draw", "ack", "pause"} /\ BP \in sigusr2 /\ bpc' = "end"
  /\ sigusr2' = sigusr2 \ {BP}
  /\ UNCHANGED <<shm, pipe_p, sigusr1, cp, pp, pl, shown, hist>>

Board == SendBoardPid \/ FirstDraw \/ BeginDraw \/ printBoard \/ sendAck \/ BoardQuit

Next == Coordinator \/ User \/ Parent \/ (\E p \in Players : Player(p)) \/ Board

Spec == Init /\ [][Next]_vars

(* Every process that can run does; the user need not type anything.       *)
Fairness == /\ WF_vars(Coordinator) /\ WF_vars(Parent) /\ WF_vars(Board)
            /\ \A p \in Players : WF_vars(Player(p))

FairSpec == Spec /\ Fairness
-----------------------------------------------------------------------------
PlayerPlaces == {"off", "pause", "land", "finish", "rank", "tell", "tellend", "dead"}
MidMove      == {"land", "finish", "rank", "tell", "tellend"}

TypeOK ==
  /\ shm_board \in Boards
  /\ shm_players \in [Players -> 0 .. LastCell] /\ unfinished \in 0 .. n
  /\ pipe_p \in Seq({"bp", "pp", "ACK"})
  /\ sigusr1 \subseteq Players \cup {PP, BP} /\ sigusr2 \subseteq {PP, BP}
  /\ cpc \in {"readbp", "readpp", "readack", "prompt", "play", "waitack", "over",
              "terminate", "waitpp", "waitbp", "end"}
  /\ inbuf \in Seq({"next", "autoplay", "quit"}) /\ autoplay \in BOOLEAN
  /\ ppc \in {"off", "start", "fork", "pause", "advance", "kill", "end"}
  /\ pid_players \in [Players -> BOOLEAN] /\ current \in Players /\ k \in 0 .. n
  /\ pc \in [Players -> PlayerPlaces] /\ to \in [Players -> 0 .. LastCell]
  /\ bpc \in {"start", "sleep", "draw", "ack", "pause", "end"}
  /\ shown \in [Players -> 0 .. LastCell]
  /\ mover \in -1 .. n - 1 /\ drawn \in BOOLEAN

(* players.c:202 and :212 look whether a cell is occupied and move in a    *)
(* later step, without a lock: still two players never stand on one cell,  *)
(* but for the start and the last.                                         *)
NoSharedCell ==
  \A p, q \in Players : p # q /\ shm_players[p] = shm_players[q] =>
                           shm_players[p] \in {0, LastCell}

(* board.c:57 reads the players' cells while it draws, without a lock:     *)
(* nobody is in the middle of a move then, and none begins before the ACK. *)
BoardIsStill ==
  bpc = "draw" => \A p \in Players : pc[p] \notin MidMove /\ p \notin sigusr1

(* The game that is drawn is one that the rules allow, in whole moves and  *)
(* in turn.                                                                *)
Rules   == INSTANCE LudoRules WITH
             board <- shm_board, cell <- shown,
             turn <- IF drawn
                     THEN FirstFrom(After(mover), [p \in Players |-> shown[p] # LastCell])
                     ELSE mover
Refines == Rules!Safety

(* A move that was asked for is acknowledged: the signals to the parent,   *)
(* the player and the board are none of them lost, nor sent to a player    *)
(* that is gone (ludo.c:203 waits without a limit).                        *)
MoveAnswered == cpc = "waitack" ~> cpc # "waitack"

(* ludo.c:216: when the game is ended, even in the middle of a move, all   *)
(* processes end, and the coordinator last.                                *)
EverybodyLeaves ==
  cpc = "terminate" ~> cpc = "end" /\ ppc = "end" /\ bpc = "end"
                       /\ \A p \in Players : pc[p] = "dead"
=============================================================================
