---------------------------- MODULE Ludo_proofs ----------------------------
(***************************************************************************)
(* The processes of lab 4 use the shared board without a lock.  What keeps *)
(* them apart is that the move is handed on: here this is proved, for any  *)
(* number of players, any board and whatever the user types.  From it      *)
(* follows that the game that is drawn is one that the rules allow.        *)
(***************************************************************************)
EXTENDS Ludo, SequenceTheorems, FiniteSetTheorems, WellFoundedInduction, TLAPS

(* The move is asked for, signalled, made, drawn or acknowledged.          *)
Asking  == cpc \in {"prompt", "play"}
Moving  == \E p \in Players : pc[p] \in MidMove
Drawing == bpc \in {"start", "sleep", "draw", "ack"}
Acked   == pipe_p \in {<<"ACK">>, <<"pp", "ACK">>}

(* What is in the pipe, as far as the start of the processes has come.     *)
PipeIs ==
  /\ cpc = "readbp" => /\ ppc = "off" /\ bpc \in {"start", "sleep"}
                       /\ bpc = "start" => pipe_p = <<>>
                       /\ bpc = "sleep" => pipe_p = <<"bp">>
  /\ cpc = "readpp" => /\ ppc # "off" /\ bpc # "start"
                       /\ ppc = "start" => pipe_p = <<>> /\ bpc = "sleep"
                       /\ ppc # "start" => pipe_p \in {<<"pp">>, <<"pp", "ACK">>}
  /\ cpc \notin {"readbp", "readpp"} => /\ ppc \notin {"off", "start"} /\ bpc # "start"
                                        /\ pipe_p \in {<<>>, <<"ACK">>}

(* At most one of these at a time, and for at most one process.            *)
OneBaton ==
  /\ \A x, y \in sigusr1 : x = y
  /\ \A p, q \in Players : pc[p] \in MidMove /\ pc[q] \in MidMove => p = q
  /\ Drawing => ~ Moving /\ sigusr1 = {} /\ ~ Asking /\ ~ Acked
  /\ Moving => sigusr1 = {} /\ ~ Asking /\ ~ Acked
  /\ sigusr1 # {} => ~ Asking /\ ~ Acked
  /\ Asking => ~ Acked

Baton == DOMAIN pc = Players /\ PipeIs /\ OneBaton
-----------------------------------------------------------------------------
(* The few contents of the pipe, read and written. *)
LEMMA Pipe ==
  /\ <<"bp">> # <<>> /\ <<"pp">> # <<>> /\ <<"ACK">> # <<>> /\ <<"pp", "ACK">> # <<>>
  /\ Head(<<"bp">>) = "bp" /\ Tail(<<"bp">>) = <<>>
  /\ Head(<<"pp">>) = "pp" /\ Tail(<<"pp">>) = <<>>
  /\ Head(<<"ACK">>) = "ACK" /\ Tail(<<"ACK">>) = <<>>
  /\ Head(<<"pp", "ACK">>) = "pp" /\ Tail(<<"pp", "ACK">>) = <<"ACK">>
  /\ <<"bp">> # <<"ACK">> /\ <<"pp">> # <<"ACK">> /\ <<"pp">> # <<"pp", "ACK">>
  /\ <<"bp">> # <<"pp", "ACK">> /\ <<"ACK">> # <<"pp", "ACK">>
<1>1. <<"bp">> # <<>> /\ <<"pp">> # <<>> /\ <<"ACK">> # <<>> /\ <<"pp", "ACK">> # <<>>
  OBVIOUS
<1>2. Head(<<"bp">>) = "bp" /\ Tail(<<"bp">>) = <<>> /\ Head(<<"pp">>) = "pp" /\ Tail(<<"pp">>) = <<>>
  OBVIOUS
<1>3. Head(<<"ACK">>) = "ACK" /\ Tail(<<"ACK">>) = <<>>
  OBVIOUS
<1>4. Head(<<"pp", "ACK">>) = "pp" /\ Tail(<<"pp", "ACK">>) = <<"ACK">>
  OBVIOUS
<1>5. <<"bp">> # <<"ACK">> /\ <<"pp">> # <<"ACK">>
  OBVIOUS
<1>6. <<"pp">> # <<"pp", "ACK">> /\ <<"bp">> # <<"pp", "ACK">> /\ <<"ACK">> # <<"pp", "ACK">>
  OBVIOUS
<1>. QED
  BY <1>1, <1>2, <1>3, <1>4, <1>5, <1>6

(* What Append does to one message. *)
LEMMA Pair == ASSUME NEW a, NEW b PROVE Append(<<a>>, b) = <<a, b>>
<1>. DEFINE T == {a, b}
            s == Append(<<a>>, b)
            u == <<a, b>>
<1>1. <<a>> \in Seq(T) /\ Len(<<a>>) = 1 /\ <<a>>[1] = a /\ b \in T
  OBVIOUS
<1>2. u \in Seq(T) /\ Len(u) = 2 /\ u[1] = a /\ u[2] = b
  OBVIOUS
<1>. HIDE DEF T, u
<1>3. s \in Seq(T) /\ Len(s) = 2 /\ s[1] = a /\ s[2] = b
  BY <1>1, AppendProperties
<1>. HIDE DEF s
<1>4. Len(s) = Len(u) /\ \A i \in 1 .. Len(s) : s[i] = u[i]
  BY <1>2, <1>3
<1>5. s = u
  BY <1>2, <1>3, <1>4, SeqEqual
<1>. QED
  BY <1>5 DEF s, u

LEMMA PipeWrites ==
  /\ Append(<<>>, "bp") = <<"bp">> /\ Append(<<>>, "pp") = <<"pp">>
  /\ Append(<<>>, "ACK") = <<"ACK">> /\ Append(<<"pp">>, "ACK") = <<"pp", "ACK">>
<1>1. Append(<<>>, "bp") = <<"bp">> /\ Append(<<>>, "pp") = <<"pp">> /\ Append(<<>>, "ACK") = <<"ACK">>
  OBVIOUS
<1>2. Append(<<"pp">>, "ACK") = <<"pp", "ACK">>
  BY Pair
<1>. QED
  BY <1>1, <1>2
-----------------------------------------------------------------------------
LEMMA BatonInit == Init => Baton
<1> SUFFICES ASSUME Init PROVE Baton
  OBVIOUS
<1>1. PipeIs
  BY DEF Init, PipeIs
<1>2. ~ Moving /\ ~ Asking /\ ~ Acked /\ sigusr1 = {}
  BY Pipe DEF Init, Moving, Asking, Acked, MidMove
<1>3. OneBaton
  BY <1>2 DEF OneBaton, Moving
<1>. QED
  BY <1>1, <1>3 DEF Baton, Init

(* The coordinator: it asks when the last move was acknowledged. *)
LEMMA CoordinatorKeeps == ASSUME Baton, Coordinator \/ User PROVE Baton'
<1>0. PipeIs /\ OneBaton /\ DOMAIN pc = Players
  BY DEF Baton
<1>1. CASE ReadBoardPid
  <2>1. /\ pipe_p = <<"bp">> /\ pipe_p' = <<>> /\ bpc = "sleep" /\ cpc' = "readpp" /\ ppc' = "start"
        /\ UNCHANGED <<sigusr1, pc, bpc>>
    BY <1>0, <1>1, Pipe DEF ReadBoardPid, Read, PipeIs, pl, bp
  <2>2. PipeIs'
    BY <2>1 DEF PipeIs
  <2>3. OneBaton'
    BY <1>0, <2>1, Pipe DEF OneBaton, Moving, Asking, Drawing, Acked
  <2>. QED
    BY <1>0, <2>1, <2>2, <2>3 DEF Baton
<1>2. CASE ReadParentPid
  <2>1. /\ cpc = "readpp" /\ cpc' = "readack" /\ UNCHANGED <<sigusr1, pc, bpc, ppc>>
        /\ \/ pipe_p = <<"pp">> /\ pipe_p' = <<>>
           \/ pipe_p = <<"pp", "ACK">> /\ pipe_p' = <<"ACK">>
        /\ ppc # "start"
    BY <1>0, <1>2, Pipe DEF ReadParentPid, Read, PipeIs, pl, bp, pp
  <2>2. PipeIs'
    BY <1>0, <2>1 DEF PipeIs
  <2>3. Acked' => Acked
    BY <2>1, Pipe DEF Acked
  <2>4. OneBaton'
    BY <1>0, <2>1, <2>3 DEF OneBaton, Moving, Asking, Drawing
  <2>. QED
    BY <1>0, <2>1, <2>2, <2>4 DEF Baton
<1>3. CASE ReadFirstAck \/ ReadAck
  <2>1. /\ cpc \in {"readack", "waitack"} /\ cpc' \in {"prompt", "play", "over"}
        /\ UNCHANGED <<sigusr1, pc, bpc, ppc>>
        /\ pipe_p = <<"ACK">> /\ pipe_p' = <<>>
    BY <1>0, <1>3, Pipe DEF ReadFirstAck, ReadAck, Read, PipeIs, pl, bp, pp
  <2>2. PipeIs'
    BY <1>0, <2>1 DEF PipeIs
  <2>3. Acked /\ ~ Acked'
    BY <2>1, Pipe DEF Acked
  <2>4. OneBaton'
    BY <1>0, <2>1, <2>3 DEF OneBaton, Moving, Asking, Drawing
  <2>. QED
    BY <1>0, <2>1, <2>2, <2>4 DEF Baton
<1>4. CASE Play
  <2>1. /\ cpc = "play" /\ cpc' = "waitack" /\ sigusr1' = sigusr1 \cup {PP}
        /\ UNCHANGED <<pc, bpc, ppc, pipe_p>>
    BY <1>4 DEF Play, pl, bp, pp
  <2>2. PipeIs'
    BY <1>0, <2>1 DEF PipeIs
  <2>3. OneBaton'
    BY <1>0, <2>1 DEF OneBaton, Moving, Asking, Drawing, Acked
  <2>. QED
    BY <1>0, <2>1, <2>2, <2>3 DEF Baton
<1>5. CASE User \/ WrongAck \/ EndParent \/ EndBoard \/ quit
  <2>1. /\ cpc \notin {"readbp", "readpp"} /\ cpc' \notin {"readbp", "readpp"}
        /\ Asking' => Asking
        /\ UNCHANGED <<pc, bpc, ppc, pipe_p, sigusr1>>
    BY <1>5 DEF User, handleUserInput, HitReturn, WrongAck, EndParent, EndBoard, quit,
                pl, bp, pp, Asking
  <2>2. PipeIs'
    BY <1>0, <2>1 DEF PipeIs
  <2>3. OneBaton'
    BY <1>0, <2>1 DEF OneBaton, Moving, Drawing, Acked
  <2>. QED
    BY <1>0, <2>1, <2>2, <2>3 DEF Baton
<1>. QED
  BY <1>1, <1>2, <1>3, <1>4, <1>5 DEF Coordinator

(* The parent: it passes the signal on, and does not look where to. *)
LEMMA ParentKeeps == ASSUME Baton, Parent PROVE Baton'
<1>0. PipeIs /\ OneBaton /\ DOMAIN pc = Players
  BY DEF Baton
<1>1. CASE SendParentPid
  <2>1. /\ ppc = "start" /\ ppc' = "fork" /\ cpc = "readpp" /\ pipe_p = <<>> /\ pipe_p' = <<"pp">>
        /\ UNCHANGED <<pc, bpc, cpc, sigusr1>>
    BY <1>0, <1>1, PipeWrites DEF SendParentPid, Write, PipeIs, pl, bp, cp
  <2>2. PipeIs'
    BY <1>0, <2>1 DEF PipeIs
  <2>3. OneBaton'
    BY <1>0, <2>1, Pipe DEF OneBaton, Moving, Asking, Drawing, Acked
  <2>. QED
    BY <1>0, <2>1, <2>2, <2>3 DEF Baton
<1>2. CASE ForkPlayer \/ terminatePlayers
  <2>1. /\ ppc \notin {"off", "start"} /\ ppc' \notin {"off", "start"}
        /\ UNCHANGED <<bpc, cpc, sigusr1, pipe_p>>
        /\ DOMAIN pc' = Players
    BY <1>0, <1>2 DEF ForkPlayer, terminatePlayers, bp, cp
  <2>2. \A p \in Players : pc'[p] \in MidMove => pc[p] \in MidMove
    BY <1>0, <1>2 DEF ForkPlayer, terminatePlayers, MidMove
  <2>3. PipeIs'
    BY <1>0, <2>1 DEF PipeIs
  <2>4. OneBaton'
    BY <1>0, <2>1, <2>2 DEF OneBaton, Moving, Asking, Drawing, Acked
  <2>. QED
    BY <2>1, <2>3, <2>4 DEF Baton
<1>3. CASE parentHandleMove
  <2>1. /\ ppc = "pause" /\ PP \in sigusr1 /\ ppc' \in {"pause", "advance"}
        /\ UNCHANGED <<bpc, cpc, pipe_p, pc>>
    BY <1>3 DEF parentHandleMove, bp, cp, pl
  <2>2. \A x, y \in sigusr1' : x = y
    BY <1>0, <1>3 DEF parentHandleMove, OneBaton
  <2>3. PipeIs'
    BY <1>0, <2>1 DEF PipeIs
  <2>4. OneBaton'
    BY <1>0, <2>1, <2>2 DEF OneBaton, Moving, Asking, Drawing, Acked
  <2>. QED
    BY <1>0, <2>1, <2>3, <2>4 DEF Baton
<1>4. CASE Advance \/ HandleQuit \/ ParentQuit
  <2>1. /\ ppc \notin {"off", "start"} /\ ppc' \notin {"off", "start"}
        /\ UNCHANGED <<bpc, cpc, sigusr1, pipe_p, pc>>
    BY <1>4 DEF Advance, HandleQuit, ParentQuit, bp, cp, pl
  <2>2. PipeIs'
    BY <1>0, <2>1 DEF PipeIs
  <2>3. OneBaton'
    BY <1>0, <2>1 DEF OneBaton, Moving, Asking, Drawing, Acked
  <2>. QED
    BY <1>0, <2>1, <2>2, <2>3 DEF Baton
<1>. QED
  BY <1>1, <1>2, <1>3, <1>4 DEF Parent

LEMMA PlayerKeeps == ASSUME Baton, NEW p \in Players, Player(p) PROVE Baton'
<1>0. PipeIs /\ OneBaton /\ DOMAIN pc = Players
  BY DEF Baton
<1>1. UNCHANGED <<bpc, cpc, ppc, pipe_p>> /\ PipeIs'
  <2>1. UNCHANGED <<bpc, cpc, ppc, pipe_p>>
    BY DEF Player, Throw, Land, Finish, Rank, Tell, cp, pp, bp
  <2>. QED
    BY <1>0, <2>1 DEF PipeIs
<1>2. DOMAIN pc' = Players /\ \A q \in Players : q # p => pc'[q] = pc[q]
  BY <1>0 DEF Player, Throw, Land, Finish, Rank, Tell, Goto
<1>3. CASE Throw(p)
  <2>1. p \in sigusr1 /\ sigusr1' = sigusr1 \ {p}
    BY <1>3 DEF Throw
  <2>2. \A q \in Players : pc[q] \notin MidMove
    BY <1>0, <2>1 DEF OneBaton, Moving
  <2>3. OneBaton'
    BY <1>0, <1>1, <1>2, <2>1, <2>2 DEF OneBaton, Moving, Asking, Drawing, Acked
  <2>. QED
    BY <1>1, <1>2, <2>3 DEF Baton
<1>4. CASE Land(p) \/ Finish(p) \/ Rank(p)
  <2>1. pc[p] \in MidMove /\ sigusr1' = sigusr1
    BY <1>4 DEF Land, Finish, Rank, Goto, MidMove
  <2>2. OneBaton'
    BY <1>0, <1>1, <1>2, <2>1 DEF OneBaton, Moving, Asking, Drawing, Acked
  <2>. QED
    BY <1>1, <1>2, <2>2 DEF Baton
<1>5. CASE Tell(p)
  <2>1. pc[p] \in MidMove /\ pc'[p] \notin MidMove /\ sigusr1' = sigusr1 \cup {BP}
    BY <1>0, <1>5 DEF Tell, Goto, MidMove
  <2>2. OneBaton'
    BY <1>0, <1>1, <1>2, <2>1 DEF OneBaton, Moving, Asking, Drawing, Acked
  <2>. QED
    BY <1>1, <1>2, <2>2 DEF Baton
<1>. QED
  BY <1>3, <1>4, <1>5 DEF Player

LEMMA BoardKeeps == ASSUME Baton, Board PROVE Baton'
<1>0. PipeIs /\ OneBaton /\ DOMAIN pc = Players
  BY DEF Baton
<1>1. CASE SendBoardPid
  <2>1. /\ bpc = "start" /\ bpc' = "sleep" /\ cpc = "readbp" /\ pipe_p = <<>> /\ pipe_p' = <<"bp">>
        /\ UNCHANGED <<pc, ppc, cpc, sigusr1>>
    BY <1>0, <1>1, PipeWrites DEF SendBoardPid, Write, PipeIs, pl, pp, cp
  <2>2. PipeIs'
    BY <1>0, <2>1 DEF PipeIs
  <2>3. OneBaton'
    BY <1>0, <2>1, Pipe DEF OneBaton, Moving, Asking, Drawing, Acked
  <2>. QED
    BY <1>0, <2>1, <2>2, <2>3 DEF Baton
<1>2. CASE FirstDraw \/ printBoard
  <2>1. /\ bpc \in {"sleep", "draw"} /\ bpc' \in {"draw", "ack"} /\ UNCHANGED <<pc, ppc, cpc, sigusr1, pipe_p>>
        /\ bpc = "sleep" => ppc = "pause"
    BY <1>2 DEF FirstDraw, printBoard, pl, pp, cp
  <2>2. cpc # "readbp" /\ (cpc = "readpp" => ppc # "start")
    BY <1>0, <2>1 DEF PipeIs
  <2>3. PipeIs'
    BY <1>0, <2>1, <2>2 DEF PipeIs
  <2>4. OneBaton'
    BY <1>0, <2>1 DEF OneBaton, Moving, Asking, Drawing, Acked
  <2>. QED
    BY <1>0, <2>1, <2>3, <2>4 DEF Baton
<1>3. CASE BeginDraw
  <2>1. bpc = "pause" /\ bpc' = "draw" /\ BP \in sigusr1 /\ sigusr1' = sigusr1 \ {BP} /\ UNCHANGED <<pc, ppc, cpc, pipe_p>>
    BY <1>3 DEF BeginDraw, pl, pp, cp
  <2>2. PipeIs'
    BY <1>0, <2>1 DEF PipeIs
  <2>3. sigusr1' = {}
    BY <1>0, <2>1 DEF OneBaton
  <2>4. OneBaton'
    BY <1>0, <2>1, <2>3 DEF OneBaton, Moving, Asking, Drawing, Acked
  <2>. QED
    BY <1>0, <2>1, <2>2, <2>4 DEF Baton
<1>4. CASE sendAck
  <2>1. bpc = "ack" /\ bpc' = "pause" /\ pipe_p' = Append(pipe_p, "ACK") /\ UNCHANGED <<pc, ppc, cpc, sigusr1>>
    BY <1>4 DEF sendAck, Write, pl, pp, cp
  <2>2. Drawing /\ ~ Acked
    BY <1>0, <2>1 DEF OneBaton, Drawing
  <2>3. \/ cpc = "readpp" /\ ppc # "start" /\ pipe_p' = <<"pp", "ACK">>
        \/ cpc \notin {"readbp", "readpp"} /\ pipe_p' = <<"ACK">>
    <3>1. CASE cpc = "readpp"
      BY <1>0, <2>1, <2>2, <3>1, PipeWrites DEF PipeIs, Acked
    <3>2. CASE cpc \notin {"readbp", "readpp"}
      BY <1>0, <2>1, <2>2, <3>2, PipeWrites DEF PipeIs, Acked
    <3>. QED
      BY <1>0, <2>1, <3>1, <3>2 DEF PipeIs
  <2>4. PipeIs'
    BY <1>0, <2>1, <2>3 DEF PipeIs
  <2>5. OneBaton'
    BY <1>0, <2>1, <2>2 DEF OneBaton, Moving, Asking, Drawing
  <2>. QED
    BY <1>0, <2>1, <2>4, <2>5 DEF Baton
<1>5. CASE BoardQuit
  <2>1. bpc \in {"draw", "ack", "pause"} /\ bpc' = "end" /\ UNCHANGED <<pc, ppc, cpc, sigusr1, pipe_p>>
    BY <1>5 DEF BoardQuit, pl, pp, cp
  <2>2. PipeIs'
    BY <1>0, <2>1 DEF PipeIs
  <2>3. OneBaton'
    BY <1>0, <2>1 DEF OneBaton, Moving, Asking, Drawing, Acked
  <2>. QED
    BY <1>0, <2>1, <2>2, <2>3 DEF Baton
<1>. QED
  BY <1>1, <1>2, <1>3, <1>4, <1>5 DEF Board

LEMMA BatonNext == Baton /\ [Next]_vars => Baton'
<1> SUFFICES ASSUME Baton, [Next]_vars PROVE Baton'
  OBVIOUS
<1>1. CASE UNCHANGED vars
  BY <1>1 DEF vars, cp, pp, pl, bp, Baton, PipeIs, OneBaton, Moving, Asking, Drawing, Acked
<1>. QED
  BY <1>1, CoordinatorKeeps, ParentKeeps, PlayerKeeps, BoardKeeps DEF Next

(* While the board draws, no player is in the middle of a move or about to *)
(* begin one (board.c:57 reads the cells without a lock).                  *)
THEOREM TheBoardIsStill == Spec => []BoardIsStill
<1>1. Baton => BoardIsStill
  BY DEF Baton, OneBaton, Drawing, Moving, BoardIsStill
<1>. QED
  BY <1>1, BatonInit, BatonNext, PTL DEF Spec
-----------------------------------------------------------------------------
(* A player that is about to land has looked, and the cell is still free. *)
Landing(p) == pc[p] = "land" => /\ to[p] \in 1 .. LastCell - 1
                                /\ \A q \in Players : shm_players[q] # to[p]

Cells == /\ shm_board \in Boards /\ shm_players \in [Players -> 0 .. LastCell]
         /\ DOMAIN to = Players /\ DOMAIN pc = Players
         /\ \A p \in Players : Landing(p)
         /\ NoSharedCell

LEMMA CellsInit == Init => Cells
BY LudoAssumption DEF Init, Cells, Landing, NoSharedCell

LEMMA ThrowIsPositive == \A d \in Throws : d \in Nat /\ d >= 1
BY DEF Throws

LEMMA ThrowCells ==
  ASSUME Cells, Baton, NEW p \in Players, Throw(p)
  PROVE  Cells'
<1>1. /\ UNCHANGED <<shm_board, shm_players>> /\ p \in sigusr1
      /\ DOMAIN to = Players /\ DOMAIN pc = Players
  BY DEF Throw, shm, Cells
<1>2. PICK d \in Throws :
        LET c == shm_players[p] + d
        IN  /\ to' = [to EXCEPT ![p] = IF c <= LastCell THEN c ELSE 0]
            /\ pc' = [pc EXCEPT ![p] =
                        IF c = LastCell THEN "finish"
                        ELSE IF c > LastCell \/ checkOccupied(shm_players, c) THEN "tell"
                        ELSE "land"]
  BY DEF Throw
<1>. DEFINE c == shm_players[p] + d
<1>3. c \in Nat /\ c >= 1 /\ LastCell \in Nat
  BY ThrowIsPositive, LudoAssumption DEF Cells
<1>4. /\ to'[p] = (IF c <= LastCell THEN c ELSE 0)
      /\ pc'[p] = "land" => c # LastCell /\ ~ (c > LastCell) /\ ~ checkOccupied(shm_players, c)
      /\ \A q \in Players : q # p => to'[q] = to[q] /\ pc'[q] = pc[q]
      /\ DOMAIN to' = Players /\ DOMAIN pc' = Players
  BY <1>1, <1>2
<1>. HIDE DEF c
<1>5. pc'[p] = "land" => to'[p] \in 1 .. LastCell - 1 /\ \A q \in Players : shm_players[q] # to'[p]
  BY <1>3, <1>4 DEF checkOccupied
<1>6. \A q \in Players : Landing(q)'
  BY <1>1, <1>4, <1>5 DEF Landing, Cells
<1>. QED
  BY <1>1, <1>4, <1>6 DEF Cells, NoSharedCell

LEMMA LandCells ==
  ASSUME Cells, Baton, NEW p \in Players, Land(p)
  PROVE  Cells'
<1>. DEFINE on == to[p] + shm_board[to[p]]
<1>1. /\ pc[p] = "land" /\ shm_board' = shm_board
      /\ shm_players' = [shm_players EXCEPT ![p] = to[p]]
      /\ DOMAIN to = Players /\ DOMAIN pc = Players
      /\ to[p] \in 1 .. LastCell - 1 /\ \A q \in Players : shm_players[q] # to[p]
      /\ shm_board \in Boards /\ shm_players \in [Players -> 0 .. LastCell] /\ NoSharedCell
  BY DEF Land, Cells, Landing
<1>2. on \in 1 .. LastCell - 1 /\ LastCell \in Nat
  BY <1>1, LudoAssumption
<1>3. \A q \in Players : q # p => pc[q] # "land"
  BY <1>1 DEF Baton, OneBaton, MidMove
<1>4. shm_players' \in [Players -> 0 .. LastCell]
  BY <1>1, <1>2
<1>5. shm_players'[p] = to[p] /\ \A q \in Players : q # p => shm_players'[q] = shm_players[q]
  BY <1>1
<1>6. NoSharedCell'
  BY <1>1, <1>5 DEF NoSharedCell
<1>7. \/ pc' = [pc EXCEPT ![p] = "tell"] /\ to' = to
      \/ pc' = pc /\ to' = [to EXCEPT ![p] = on] /\ \A q \in Players : shm_players'[q] # on
  BY DEF Land, Goto, checkOccupied
<1>. HIDE DEF on
<1>8. DOMAIN to' = Players /\ DOMAIN pc' = Players /\ \A q \in Players : q # p => pc'[q] = pc[q]
  BY <1>1, <1>7
<1>9. Landing(p)'
  BY <1>1, <1>2, <1>7 DEF Landing
<1>10. \A q \in Players : Landing(q)'
  BY <1>3, <1>8, <1>9 DEF Landing
<1>. QED
  BY <1>1, <1>4, <1>6, <1>8, <1>10 DEF Cells

LEMMA FinishCells ==
  ASSUME Cells, Baton, NEW p \in Players, Finish(p)
  PROVE  Cells'
<1>1. /\ pc[p] = "finish" /\ pc' = [pc EXCEPT ![p] = "rank"]
      /\ shm_players' = [shm_players EXCEPT ![p] = LastCell]
      /\ UNCHANGED <<shm_board, to>> /\ Cells
  BY DEF Finish, Goto
<1>2. LastCell \in Nat
  BY LudoAssumption
<1>3. \A q \in Players : pc'[q] # "land"
  BY <1>1 DEF Cells, Baton, OneBaton, MidMove
<1>4. shm_players' \in [Players -> 0 .. LastCell] /\ DOMAIN pc' = Players
  BY <1>1, <1>2 DEF Cells
<1>5. NoSharedCell'
  BY <1>1 DEF NoSharedCell, Cells
<1>. QED
  BY <1>1, <1>3, <1>4, <1>5 DEF Cells, Landing

LEMMA CellsNext == Cells /\ Baton /\ [Next]_vars => Cells'
<1> SUFFICES ASSUME Cells, Baton, [Next]_vars PROVE Cells'
  OBVIOUS
<1>1. ASSUME UNCHANGED <<shm_board, shm_players, to>>, DOMAIN pc' = Players,
             \A q \in Players : pc'[q] = "land" => pc[q] = "land"
      PROVE  Cells'
  BY <1>1 DEF Cells, Landing, NoSharedCell
<1>2. CASE Coordinator \/ User \/ Board
  BY <1>1, <1>2 DEF Cells, Coordinator, User, Board, ReadBoardPid, ReadParentPid, ReadFirstAck,
       handleUserInput, Play, WrongAck, ReadAck, HitReturn, EndParent, EndBoard, quit, SendBoardPid,
       FirstDraw, BeginDraw, printBoard, sendAck, BoardQuit, shm, pl
<1>3. CASE Parent
  <2>1. CASE ForkPlayer \/ terminatePlayers
    BY <1>1, <2>1 DEF Cells, ForkPlayer, terminatePlayers, shm
  <2>2. CASE SendParentPid \/ parentHandleMove \/ Advance \/ HandleQuit \/ ParentQuit
    BY <1>1, <2>2 DEF Cells, SendParentPid, parentHandleMove, Advance, HandleQuit, ParentQuit, shm, pl
  <2>. QED
    BY <1>3, <2>1, <2>2 DEF Parent
<1>4. ASSUME NEW p \in Players, Player(p) PROVE Cells'
  <2>1. CASE Rank(p)
    BY <1>1, <2>1 DEF Rank, Goto, Cells
  <2>2. CASE Tell(p)
    <3>1. /\ UNCHANGED <<shm_board, shm_players>> /\ DOMAIN pc' = Players /\ DOMAIN to' = Players
          /\ \A q \in Players : pc'[q] = "land" => pc[q] = "land" /\ to'[q] = to[q]
      BY <2>2 DEF Tell, Goto, Cells, shm
    <3>. QED
      BY <3>1 DEF Cells, Landing, NoSharedCell
  <2>. QED
    BY <1>4, <2>1, <2>2, ThrowCells, LandCells, FinishCells DEF Player
<1>5. CASE UNCHANGED vars
  BY <1>1, <1>5 DEF vars, shm, pl, Cells
<1>. QED
  BY <1>2, <1>3, <1>4, <1>5 DEF Next

(* A player looks whether a cell is free and moves there in a later step,  *)
(* without a lock (players.c:202 and :212): still two players never stand  *)
(* on one cell, but for the start and the last.                            *)
THEOREM TheyNeverShareACell == Spec => []NoSharedCell
<1>1. Cells => NoSharedCell
  BY DEF Cells
<1>. QED
  BY <1>1, BatonInit, BatonNext, CellsInit, CellsNext, PTL DEF Spec
-----------------------------------------------------------------------------
(* The rules' move of the mover, and whether that is what the cells show.  *)
Ends(c) == Rules!End(shm_board, [shown EXCEPT ![mover] = -1], c)

Result(c) == IF c > LastCell \/ (c < LastCell /\ Rules!Taken(shown, c)) THEN shown
             ELSE [shown EXCEPT ![mover] = Ends(c)]

Made == \E d \in Throws : shm_players = Result(shown[mover] + d)

(* A player that lands is on a way that ends where its throw leads.        *)
OnTheWay == \E d \in Throws : /\ shown[mover] + d < LastCell
                              /\ ~ Rules!Taken(shown, shown[mover] + d)
                              /\ Ends(shown[mover] + d) = Ends(to[mover])

(* What is drawn is the game before the move that is under way.            *)
Drawn == /\ drawn \in BOOLEAN
         /\ drawn => shown = shm_players
         /\ Asking \/ Acked \/ bpc \in {"start", "sleep", "ack"} \/ PP \in sigusr1 => drawn

UnderWay ==
  /\ \A p \in Players : p \in sigusr1 \/ pc[p] \in MidMove => p = mover /\ ~ drawn
  /\ ~ drawn =>
       /\ shown[mover] # LastCell
       /\ \A q \in Players : q # mover => shm_players[q] = shown[q]
       /\ mover \in sigusr1 => shm_players = shown
       /\ pc[mover] = "finish" => /\ shm_players = shown
                                  /\ \E d \in Throws : shown[mover] + d = LastCell
       /\ pc[mover] = "land" => OnTheWay
       /\ pc[mover] \in {"rank", "tell", "tellend"} => Made
       /\ BP \in sigusr1 \/ bpc = "draw" => Made

(* The parent knows who has finished, but for the last mover.              *)
Known ==
  /\ mover \in Players /\ current \in Players /\ shown \in [Players -> 0 .. LastCell]
  /\ pid_players \in [Players -> BOOLEAN]
  /\ ppc \in {"off", "start", "fork"} =>
       /\ bpc \in {"start", "sleep"} /\ mover = n - 1 /\ current = 0 /\ k \in 0 .. n - 1
       /\ shm_players = [p \in Players |-> 0]
       /\ ppc = "fork" => \A p \in Players : p < k => pid_players[p]
       /\ ppc # "fork" => k = 0
  /\ ppc = "pause" => current = After(mover)
  /\ ppc = "advance" => current = mover
  /\ ppc \in {"pause", "advance"} =>
       /\ \A p \in Players : /\ pid_players[p] \/ shm_players[p] = LastCell
                             /\ p # mover /\ pid_players[p] => shm_players[p] # LastCell
       /\ drawn \/ pid_players[mover]

Game == Drawn /\ UnderWay /\ Known

(* The players go round.                                                   *)
LEMMA Round ==
  /\ \A p \in Players : After(p) \in Players /\ Before(After(p)) = p
  /\ \A p, d \in Players : (p + d) % n \in Players
  /\ After(n - 1) = 0 /\ n - 1 \in Players /\ 0 \in Players
<1>1. n \in Nat \ {0}
  BY LudoAssumption
<1>2. ASSUME NEW p \in Players PROVE After(p) \in Players /\ Before(After(p)) = p
  <2>1. CASE p = n - 1
    <3>1. (p + 1) % n = 0
      BY <1>1, <2>1
    <3>2. (0 - 1 + n) % n = n - 1
      BY <1>1
    <3>. QED
      BY <1>1, <2>1, <3>1, <3>2 DEF After, Before, Players
  <2>2. CASE p # n - 1
    <3>1. (p + 1) % n = p + 1
      BY <1>1, <2>2 DEF Players
    <3>2. (p + 1 - 1 + n) % n = p
      BY <1>1, <2>2 DEF Players
    <3>. QED
      BY <1>1, <2>2, <3>1, <3>2 DEF After, Before, Players
  <2>. QED
    BY <2>1, <2>2
<1>3. ASSUME NEW p \in Players, NEW d \in Players PROVE (p + d) % n \in Players
  BY <1>1 DEF Players
<1>4. After(n - 1) = 0 /\ n - 1 \in Players /\ 0 \in Players
  BY <1>1 DEF After, Players
<1>. QED
  BY <1>2, <1>3, <1>4

(* Snakes and ladders may form a circle; still there is a function that    *)
(* follows them, whatever it says on a circle.                             *)
LEMMA Sliding ==
  ASSUME NEW S, NEW Stop \in SUBSET S, NEW g \in [S \ Stop -> S]
  PROVE  \E f : f = [d \in S |-> IF d \in Stop THEN d ELSE f[g[d]]]
<1> DEFINE Closed(A) == \A x \in A : x \notin Stop => g[x] \in A
           Reach(d)  == {x \in S : \A A \in SUBSET S : d \in A /\ Closed(A) => x \in A}
           Last(d)   == Reach(d) \cap Stop
           f         == [d \in S |-> CHOOSE x : x \in Last(d)]
<1>1. ASSUME NEW d \in Stop PROVE f[d] = d
  <2>1. d \in S /\ Closed({d}) /\ {d} \in SUBSET S
    OBVIOUS
  <2>2. Reach(d) = {d}
    BY <2>1
  <2>3. Last(d) = {d}
    BY <2>2
  <2>4. f[d] = CHOOSE x : x \in {d}
    BY <2>1, <2>3
  <2>. QED
    BY <2>4
<1>2. ASSUME NEW d \in S \ Stop PROVE f[d] = f[g[d]]
  <2>1. g[d] \in S
    OBVIOUS
  <2>2. ASSUME NEW x \in Reach(g[d]) PROVE x \in Reach(d)
    BY <2>1
  <2>3. ASSUME NEW x \in Last(d) PROVE x \in Reach(g[d])
    <3>1. x \in S /\ x \in Stop /\ x # d
      OBVIOUS
    <3>2. ASSUME NEW A \in SUBSET S, g[d] \in A, Closed(A) PROVE x \in A
      <4>1. A \cup {d} \in SUBSET S /\ Closed(A \cup {d})
        BY <3>2
      <4>2. x \in A \cup {d}
        BY <4>1
      <4>. QED
        BY <3>1, <4>2
    <3>. QED
      BY <3>1, <3>2
  <2>4. Last(d) = Last(g[d])
    BY <2>2, <2>3
  <2>. HIDE DEF Last
  <2>5. f[d] = (CHOOSE x : x \in Last(d)) /\ f[g[d]] = (CHOOSE x : x \in Last(g[d]))
    BY <2>1
  <2>. QED
    BY <2>4, <2>5
<1>. HIDE DEF f
<1>3. f = [d \in S |-> f[d]]
  BY DEF f
<1>4. f = [d \in S |-> IF d \in Stop THEN d ELSE f[g[d]]]
  BY <1>1, <1>2, <1>3
<1>. QED
  BY <1>4

(* Where a way ends is where its next cell's ends.                         *)
LEMMA EndsAre ==
  ASSUME Cells, mover \in Players, shown \in [Players -> 0 .. LastCell], NEW c \in 0 .. LastCell
  PROVE  LET on == c + shm_board[c]
         IN  Ends(c) = IF \/ c = 0 \/ c = LastCell \/ shm_board[c] = 0
                          \/ \E q \in Players : q # mover /\ shown[q] = on
                       THEN c ELSE Ends(on)
<1> DEFINE b == shm_board
           w == [shown EXCEPT ![mover] = -1]
           Stop == {d \in 0 .. LastCell : d \notin DOMAIN b \/ b[d] = 0 \/ Rules!Taken(w, d + b[d])}
           g == [d \in (0 .. LastCell) \ Stop |-> d + b[d]]
           Eq(s) == s = [d \in 0 .. LastCell |->
                           IF d \notin DOMAIN b \/ b[d] = 0 \/ Rules!Taken(w, d + b[d]) THEN d
                           ELSE s[d + b[d]]]
           slide == CHOOSE s : Eq(s)
<1>1. LastCell \in Nat \ {0} /\ b \in [1 .. LastCell - 1 -> Int]
      /\ \A d \in 1 .. LastCell - 1 : d + b[d] \in 1 .. LastCell - 1
  BY LudoAssumption DEF Cells
<1>2. g \in [(0 .. LastCell) \ Stop -> 0 .. LastCell]
  <2>1. ASSUME NEW d \in (0 .. LastCell) \ Stop PROVE d + b[d] \in 0 .. LastCell
    <3>1. d \in DOMAIN b
      OBVIOUS
    <3>2. d \in 1 .. LastCell - 1
      BY <1>1, <3>1
    <3>3. d + b[d] \in 1 .. LastCell - 1
      BY <1>1, <3>2
    <3>4. \A x \in 1 .. LastCell - 1 : x \in 0 .. LastCell
      BY <1>1
    <3>. QED
      BY <3>3, <3>4, Zenon
  <2>. HIDE DEF Stop, b
  <2>. QED
    BY <2>1
<1>3. PICK f : f = [d \in 0 .. LastCell |-> IF d \in Stop THEN d ELSE f[g[d]]]
  <2>1. Stop \in SUBSET (0 .. LastCell)
    OBVIOUS
  <2>. HIDE DEF g, Stop
  <2>2. \E f : f = [d \in 0 .. LastCell |-> IF d \in Stop THEN d ELSE f[g[d]]]
    <3>. DEFINE Slides(S, T, h) == \E f : f = [d \in S |-> IF d \in T THEN d ELSE f[h[d]]]
    <3>1. \A S, T, h : T \in SUBSET S /\ h \in [S \ T -> S] => Slides(S, T, h)
      BY Sliding
    <3>. HIDE DEF Slides
    <3>2. Slides(0 .. LastCell, Stop, g)
      BY <1>2, <2>1, <3>1
    <3>. QED
      BY <3>2 DEF Slides
  <2>. QED
    BY <2>2
<1>4. Eq(f)
  <2>1. ASSUME NEW d \in 0 .. LastCell
        PROVE  f[d] = IF d \notin DOMAIN b \/ b[d] = 0 \/ Rules!Taken(w, d + b[d]) THEN d
                      ELSE f[d + b[d]]
    <3>1. CASE d \in Stop
      <4>. HIDE DEF b, w
      <4>1. f[d] = d
        BY <1>3, <3>1
      <4>. QED
        BY <3>1, <4>1
    <3>2. CASE d \notin Stop
      <4>. HIDE DEF b, w
      <4>1. f[d] = f[g[d]]
        BY <1>3, <3>2
      <4>2. g[d] = d + b[d]
        BY <3>2
      <4>. QED
        BY <3>2, <4>1, <4>2
    <3>. QED
      BY <3>1, <3>2
  <2>2. f = [d \in 0 .. LastCell |-> f[d]]
    <3>. HIDE DEF g, Stop
    <3>. QED
      BY <1>3
  <2>. HIDE DEF b, w
  <2>. QED
    BY <2>1, <2>2
<1>5. Eq(slide)
  <2>. HIDE DEF Eq
  <2>. QED
    BY <1>4
<1>6. \A d \in 0 .. LastCell : Ends(d) = slide[d]
  BY DEF Ends, Rules!End, Rules!Cells
<1>7. slide[c] = IF c \notin DOMAIN b \/ b[c] = 0 \/ Rules!Taken(w, c + b[c]) THEN c
                 ELSE slide[c + b[c]]
  <2>. HIDE DEF slide, b, w
  <2>. QED
    BY <1>5
<1>8. c \notin DOMAIN b <=> c = 0 \/ c = LastCell
  BY <1>1
<1>9. ASSUME c \in DOMAIN b
      PROVE  /\ c + b[c] \in 0 .. LastCell
             /\ Rules!Taken(w, c + b[c]) <=> \E q \in Players : q # mover /\ shown[q] = c + b[c]
  <2>1. \A q \in Players : w[q] = IF q = mover THEN -1 ELSE shown[q]
    OBVIOUS
  <2>2. c \in 1 .. LastCell - 1
    BY <1>1, <1>9
  <2>3. PICK on : on = c + b[c]
    OBVIOUS
  <2>4. on \in 1 .. LastCell - 1
    BY <1>1, <2>2, <2>3
  <2>. HIDE DEF b, w
  <2>5. on \in 0 .. LastCell /\ on # -1
    BY <1>1, <2>4
  <2>6. Rules!Taken(w, on) <=> \E q \in Players : w[q] = on
    BY DEF Rules!Taken, Rules!Players, Players
  <2>7. Rules!Taken(w, on) <=> \E q \in Players : q # mover /\ shown[q] = on
    BY <2>1, <2>5, <2>6
  <2>. QED
    BY <2>3, <2>5, <2>7
<1>. HIDE DEF slide, w
<1>. QED
  BY <1>6, <1>7, <1>8, <1>9

(* A set of numbers that is not empty has a first one. *)
LEMMA Least ==
  ASSUME NEW S \in SUBSET Nat, S # {}
  PROVE  \E p \in S : \A q \in S : p <= q
<1>1. PICK p \in S : \A q \in S : ~ (<<q, p>> \in OpToRel(<, Nat))
  BY NatLessThanWellFounded, WFMin
<1>2. \A q \in S : ~ (q < p)
  <2>1. \A q \in S : q \in Nat /\ p \in Nat
    OBVIOUS
  <2>. QED
    BY <1>1, <2>1, Zenon DEF OpToRel
<1>. QED
  BY <1>2

(* The first of i, i+1, ... among the playing. *)
LEMMA FirstFromIs ==
  ASSUME NEW i \in Players, NEW playing \in [Players -> BOOLEAN]
  PROVE  /\ FirstFrom(i, playing) \in Players
         /\ playing[FirstFrom(i, playing)] \/ FirstFrom(i, playing) = i
<1> DEFINE ahead == {d \in Players : playing[(i + d) % n]}
           d0 == CHOOSE d \in ahead : \A e \in ahead : d <= e
<1>1. CASE ahead = {}
  <2>1. FirstFrom(i, playing) = i
    BY <1>1 DEF FirstFrom
  <2>. QED
    BY <2>1
<1>2. CASE ahead # {}
  <2>1. ahead \subseteq Nat
    BY LudoAssumption DEF Players
  <2>4. PICK p \in ahead : \A x \in ahead : p <= x
    <3>. HIDE DEF ahead
    <3>. QED
      BY <1>2, <2>1, Least
  <2>5. d0 \in ahead
    <3>. HIDE DEF ahead
    <3>. QED
      BY <2>4
  <2>6. FirstFrom(i, playing) = (i + d0) % n
    BY <1>2, Zenon DEF FirstFrom
  <2>. HIDE DEF d0
  <2>7. d0 \in Players /\ playing[(i + d0) % n]
    BY <2>5
  <2>8. (i + d0) % n \in Players
    BY <2>7, Round
  <2>. QED
    BY <2>6, <2>7, <2>8, Zenon
<1>. QED
  BY <1>1, <1>2

(* The parent's list names those whose cell is not the last. *)
LEMMA StillPlayingIs ==
  ASSUME Known, Cells, ppc = "pause"
  PROVE  StillPlaying = [p \in Players |-> shm_players[p] # LastCell]
<1>1. Before(current) = mover /\ mover \in Players /\ pid_players \in [Players -> BOOLEAN]
  BY Round DEF Known
<1>2. ASSUME NEW p \in Players PROVE StillPlaying[p] = (shm_players[p] # LastCell)
  <2>1. /\ pid_players[p] \/ shm_players[p] = LastCell
        /\ p # mover /\ pid_players[p] => shm_players[p] # LastCell
        /\ pid_players[p] \in BOOLEAN
    BY <1>1 DEF Known
  <2>2. StillPlaying[p] = IF shm_players[mover] = LastCell /\ p = mover THEN FALSE ELSE pid_players[p]
    BY <1>1 DEF StillPlaying
  <2>. QED
    BY <2>1, <2>2
<1>3. StillPlaying = [p \in Players |-> StillPlaying[p]]
  BY <1>1 DEF StillPlaying
<1>. QED
  BY <1>2, <1>3
-----------------------------------------------------------------------------
LEMMA GameInit == Init => Game
<1> SUFFICES ASSUME Init PROVE Game
  OBVIOUS
<1>1. Drawn
  BY DEF Init, Drawn
<1>2. UnderWay
  BY DEF Init, UnderWay, MidMove
<1>3. Known
  <2>1. n - 1 \in Players /\ 0 \in Players /\ 0 \in 0 .. n - 1 /\ 0 \in 0 .. LastCell
    BY LudoAssumption DEF Players
  <2>. QED
    BY <2>1 DEF Init, Known
<1>. QED
  BY <1>1, <1>2, <1>3 DEF Game

LEMMA SameRules ==
  ASSUME UNCHANGED <<shm_board, shown, mover>>
  PROVE  /\ \A c : Ends(c)' = Ends(c) /\ Rules!Taken(shown, c)' = Rules!Taken(shown, c)
         /\ \A c : Result(c)' = Result(c)
         /\ shm_players' = shm_players => Made' = Made
         /\ to' = to => OnTheWay' = OnTheWay
<1>1. \A c : Ends(c)' = Ends(c) /\ Rules!Taken(shown, c)' = Rules!Taken(shown, c)
  BY DEF Ends, Rules!Taken
<1>2. \A c : Result(c)' = Result(c)
  BY <1>1 DEF Result
<1>3. shm_players' = shm_players => Made' = Made
  BY <1>2 DEF Made
<1>4. to' = to => OnTheWay' = OnTheWay
  BY <1>1 DEF OnTheWay
<1>. QED
  BY <1>1, <1>2, <1>3, <1>4

(* Steps that leave the move as it is. *)
LEMMA UnderWaySame ==
  ASSUME UnderWay, mover \in Players, UNCHANGED <<shm_board, shm_players, shown, mover, drawn, to>>,
         \A p \in Players : /\ p \in sigusr1' => p \in sigusr1
                            /\ pc'[p] \in MidMove => pc'[p] = pc[p],
         BP \in sigusr1' \/ bpc' = "draw" => drawn \/ BP \in sigusr1 \/ bpc = "draw"
  PROVE  UnderWay'
<1>1. Made' = Made /\ OnTheWay' = OnTheWay
  BY SameRules
<1>2. \A p \in Players : p \in sigusr1' \/ pc'[p] \in MidMove => p = mover /\ ~ drawn
  BY DEF UnderWay
<1>3. ASSUME ~ drawn
      PROVE  /\ shown[mover] # LastCell
             /\ \A q \in Players : q # mover => shm_players[q] = shown[q]
             /\ mover \in sigusr1' => shm_players = shown
             /\ pc'[mover] = "finish" => /\ shm_players = shown
                                         /\ \E d \in Throws : shown[mover] + d = LastCell
             /\ pc'[mover] = "land" => OnTheWay
             /\ pc'[mover] \in {"rank", "tell", "tellend"} => Made
             /\ BP \in sigusr1' \/ bpc' = "draw" => Made
  BY <1>3 DEF UnderWay, MidMove
<1>. QED
  BY <1>1, <1>2, <1>3 DEF UnderWay

LEMMA KnownSame ==
  ASSUME Known, UNCHANGED <<shm_players, mover, pp>>, drawn => drawn',
         shown' \in [Players -> 0 .. LastCell],
         ppc \in {"off", "start", "fork"} => bpc' \in {"start", "sleep"}
  PROVE  Known'
BY DEF Known, pp

LEMMA KnownMoves ==
  ASSUME Known, UNCHANGED <<shown, hist, pp, bpc>>, ~ drawn, Drawn,
         \A q \in Players : q # mover => shm_players'[q] = shm_players[q]
  PROVE  Known'
<1>1. ppc \notin {"off", "start", "fork"}
  BY DEF Known, Drawn
<1>2. /\ UNCHANGED <<shown, mover, drawn, ppc, pid_players, current, k, bpc>>
  BY DEF hist, pp
<1>3. ppc \in {"pause", "advance"} =>
        \A p \in Players : /\ pid_players[p] \/ shm_players'[p] = LastCell
                           /\ p # mover /\ pid_players[p] => shm_players'[p] # LastCell
  BY DEF Known
<1>. QED
  BY <1>1, <1>2, <1>3 DEF Known
-----------------------------------------------------------------------------
(* The coordinator asks when the last move was acknowledged. *)
LEMMA CoordinatorPlays ==
  ASSUME Game, Baton, Coordinator \/ User
  PROVE  Game'
<1>0. Drawn /\ UnderWay /\ Known /\ PipeIs
  BY DEF Game, Baton
<1>1. /\ UNCHANGED <<shm_board, shm_players, bpc, shown, mover, drawn, to, pc>>
      /\ \A x \in sigusr1' : x # PP => x \in sigusr1
  BY DEF Coordinator, User, ReadBoardPid, ReadParentPid, ReadFirstAck, handleUserInput, Play, WrongAck,
         ReadAck, HitReturn, EndParent, EndBoard, quit, shm, pl, bp, hist
<1>2. Asking' \/ Acked' \/ PP \in sigusr1' => Asking \/ Acked \/ PP \in sigusr1
  <2>1. CASE ReadBoardPid \/ ReadParentPid
    <3>1. cpc' \in {"readpp", "readack"} /\ sigusr1' = sigusr1
      BY <2>1 DEF ReadBoardPid, ReadParentPid
    <3>2. pipe_p' \in {<<"ACK">>, <<"pp", "ACK">>} => pipe_p = <<"pp", "ACK">>
      BY <1>0, <2>1, Pipe DEF ReadBoardPid, ReadParentPid, Read, PipeIs
    <3>. QED
      BY <3>1, <3>2 DEF Asking, Acked
  <2>2. CASE ReadFirstAck \/ ReadAck
    <3>1. pipe_p = <<"ACK">>
      BY <1>0, <2>2, Pipe DEF ReadFirstAck, ReadAck, Read, PipeIs
    <3>. QED
      BY <3>1 DEF Acked
  <2>3. CASE Play
    BY <2>3 DEF Play, Asking
  <2>4. CASE User \/ WrongAck \/ EndParent \/ EndBoard \/ quit
    <3>1. Asking' => Asking
      BY <2>4 DEF User, handleUserInput, HitReturn, WrongAck, EndParent, EndBoard, quit, Asking
    <3>2. UNCHANGED <<pipe_p, sigusr1>>
      BY <2>4 DEF User, handleUserInput, HitReturn, WrongAck, EndParent, EndBoard, quit
    <3>. QED
      BY <3>1, <3>2 DEF Acked
  <2>. QED
    BY <2>1, <2>2, <2>3, <2>4 DEF Coordinator
<1>3. Drawn'
  BY <1>0, <1>1, <1>2 DEF Drawn
<1>4. PP \notin Players /\ BP # PP
  BY LudoAssumption DEF PP, BP, Players
<1>5. UnderWay'
  BY <1>0, <1>1, <1>4, UnderWaySame DEF Known
<1>6. Known'
  <2>1. CASE ReadBoardPid
    <3>1. ppc = "off" /\ ppc' = "start" /\ UNCHANGED <<pid_players, current, k>>
      BY <1>0, <2>1 DEF ReadBoardPid, PipeIs
    <3>. QED
      BY <1>0, <1>1, <3>1 DEF Known
  <2>2. CASE ~ ReadBoardPid
    <3>1. UNCHANGED pp
      BY <2>2 DEF Coordinator, User, ReadParentPid, ReadFirstAck, handleUserInput, Play, WrongAck,
         ReadAck, HitReturn, EndParent, EndBoard, quit
    <3>. QED
      BY <1>0, <1>1, <3>1, KnownSame DEF Known
  <2>. QED
    BY <2>1, <2>2
<1>. QED
  BY <1>3, <1>5, <1>6 DEF Game

(* The parent signals the player whose turn it is. *)
LEMMA HandleMovePlays ==
  ASSUME Game, Baton, Cells, parentHandleMove
  PROVE  /\ Game'
         /\ drawn /\ drawn' => UNCHANGED mover
         /\ ~ drawn' => drawn /\ mover' = FirstFrom(After(mover), [p \in Players |-> shown[p] # LastCell])
<1>0. Drawn /\ UnderWay /\ Known /\ OneBaton
  BY DEF Game, Baton
<1>1. /\ ppc = "pause" /\ PP \in sigusr1
      /\ pid_players' = StillPlaying /\ current' = FirstFrom(current, StillPlaying)
      /\ UNCHANGED <<shm_board, shm_players, cpc, pipe_p, k, pc, to, bpc, shown>>
  BY DEF parentHandleMove, shm, cp, pl, bp
<1>2. drawn /\ shown = shm_players /\ current = After(mover) /\ mover \in Players
  BY <1>0, <1>1 DEF Drawn, Known
<1>3. /\ ~ Asking /\ ~ Acked /\ ~ Drawing /\ \A x \in sigusr1 : x = PP
  BY <1>0, <1>1 DEF OneBaton
<1>4. PP \notin Players /\ BP # PP /\ BP \notin Players
  BY LudoAssumption DEF PP, BP, Players
<1>5. \A p \in Players : pc[p] \notin MidMove
  BY <1>0, <1>2 DEF UnderWay
<1>. DEFINE playing == [p \in Players |-> shm_players[p] # LastCell]
            to0 == FirstFrom(current, playing)
<1>6. StillPlaying = playing
  BY <1>0, <1>1, StillPlayingIs
<1>7. current \in Players /\ playing \in [Players -> BOOLEAN] /\ \A p \in Players : playing[p] <=> shm_players[p] # LastCell
  BY <1>0 DEF Known
<1>8. to0 \in Players /\ (playing[to0] \/ to0 = current)
  <2>. HIDE DEF playing
  <2>. QED
    BY <1>7, FirstFromIs
<1>9. current' = to0 /\ pid_players' = playing
  BY <1>1, <1>6
<1>. HIDE DEF playing, to0
<1>10. CASE playing[to0]
  <2>1. sigusr1' = (sigusr1 \ {PP}) \cup {to0} /\ ppc' = "advance" /\ mover' = to0 /\ drawn' = FALSE
    BY <1>6, <1>9, <1>10 DEF parentHandleMove
  <2>2. sigusr1' = {to0} /\ PP \notin sigusr1' /\ BP \notin sigusr1'
    BY <1>3, <1>4, <1>8, <2>1
  <2>3. shown[to0] # LastCell
    BY <1>2, <1>7, <1>8, <1>10
  <2>4. Drawn'
    BY <1>1, <1>3, <2>1, <2>2 DEF Drawn, Asking, Acked, Drawing
  <2>5. pc'[to0] \notin MidMove /\ bpc' # "draw"
    BY <1>1, <1>3, <1>5, <1>8 DEF Drawing
  <2>6. UnderWay'
    <3>1. \A p \in Players : p \in sigusr1' \/ pc'[p] \in MidMove => p = mover' /\ ~ drawn'
      BY <1>1, <1>5, <2>1, <2>2
    <3>2. \A q \in Players : q # mover' => shm_players'[q] = shown'[q]
      BY <1>1, <1>2
    <3>. QED
      BY <1>1, <1>2, <2>1, <2>2, <2>3, <2>5, <3>1, <3>2 DEF UnderWay, MidMove
  <2>7. Known'
    <3>1. /\ mover' \in Players /\ current' = mover' /\ pid_players' \in [Players -> BOOLEAN]
          /\ pid_players'[mover'] /\ ppc' = "advance" /\ shown' \in [Players -> 0 .. LastCell]
      BY <1>0, <1>1, <1>7, <1>8, <1>9, <1>10, <2>1 DEF Known
    <3>2. \A p \in Players : /\ pid_players'[p] \/ shm_players'[p] = LastCell
                             /\ p # mover' /\ pid_players'[p] => shm_players'[p] # LastCell
      BY <1>1, <1>7, <1>9
    <3>. QED
      BY <3>1, <3>2 DEF Known
  <2>. QED
    BY <1>2, <2>1, <2>4, <2>6, <2>7, Zenon DEF Game, playing, to0
<1>11. CASE ~ playing[to0]
  <2>1. sigusr1' = sigusr1 \ {PP} /\ ppc' = ppc /\ UNCHANGED <<mover, drawn>>
    BY <1>6, <1>9, <1>11 DEF parentHandleMove, hist
  <2>2. sigusr1' = {} /\ current' = current
    BY <1>3, <1>8, <1>9, <1>11, <2>1
  <2>3. Drawn'
    BY <1>1, <1>2, <2>1 DEF Drawn
  <2>4. UnderWay'
    BY <1>1, <1>2, <1>5, <2>1, <2>2 DEF UnderWay
  <2>5. Known'
    <3>1. /\ mover' \in Players /\ current' = After(mover') /\ pid_players' \in [Players -> BOOLEAN]
          /\ drawn' /\ ppc' = "pause" /\ shown' \in [Players -> 0 .. LastCell] /\ current' \in Players
      BY <1>0, <1>1, <1>2, <1>7, <1>9, <2>1, <2>2 DEF Known
    <3>2. \A p \in Players : /\ pid_players'[p] \/ shm_players'[p] = LastCell
                             /\ p # mover' /\ pid_players'[p] => shm_players'[p] # LastCell
      BY <1>1, <1>7, <1>9
    <3>. QED
      BY <3>1, <3>2 DEF Known
  <2>. QED
    BY <1>2, <2>1, <2>3, <2>4, <2>5 DEF Game
<1>. QED
  BY <1>10, <1>11

LEMMA ParentPlays ==
  ASSUME Game, Baton, Cells, Parent, ~ parentHandleMove
  PROVE  Game' /\ UNCHANGED <<shm, bp, hist>>
<1>0. Drawn /\ UnderWay /\ Known /\ PipeIs /\ OneBaton /\ DOMAIN pc = Players
  BY DEF Game, Baton
<1>1. UNCHANGED <<shm, bp, hist, to, sigusr1, cp>> /\ (pipe_p' = pipe_p \/ SendParentPid)
  BY DEF Parent, SendParentPid, ForkPlayer, Advance, HandleQuit, terminatePlayers, ParentQuit, pl
<1>2. UNCHANGED <<shm_board, shm_players, bpc, shown, mover, drawn, cpc>>
  BY <1>1 DEF shm, bp, hist, cp
<1>3. \A p \in Players : pc'[p] \in MidMove => pc'[p] = pc[p]
  BY <1>0 DEF Parent, SendParentPid, ForkPlayer, Advance, HandleQuit, terminatePlayers, ParentQuit, pl, MidMove
<1>4. UnderWay'
  BY <1>0, <1>1, <1>2, <1>3, UnderWaySame DEF Known
<1>5. Drawn'
  <2>1. CASE SendParentPid
    <3>1. drawn
      BY <1>0, <2>1 DEF SendParentPid, Known, Drawn
    <3>. QED
      BY <1>0, <1>2, <3>1 DEF Drawn
  <2>2. CASE pipe_p' = pipe_p
    BY <1>0, <1>1, <1>2, <2>2 DEF Drawn, Asking, Acked
  <2>. QED
    BY <1>1, <2>1, <2>2
<1>6. Known'
  <2>1. CASE SendParentPid
    <3>1. ppc = "start" /\ ppc' = "fork" /\ UNCHANGED <<pid_players, current, k>>
      BY <2>1 DEF SendParentPid
    <3>2. k = 0 /\ \A p \in Players : ~ (p < k)
      BY <1>0, <3>1, LudoAssumption DEF Known, Players
    <3>. QED
      BY <1>0, <1>2, <3>1, <3>2 DEF Known
  <2>2. CASE ForkPlayer
    <3>1. /\ ppc = "fork" /\ pid_players' = [pid_players EXCEPT ![k] = TRUE] /\ k' = k + 1 /\ current' = current
          /\ ppc' = IF k + 1 = n THEN "pause" ELSE "fork"
      BY <2>2 DEF ForkPlayer
    <3>2. /\ bpc \in {"start", "sleep"} /\ mover = n - 1 /\ current = 0 /\ k \in 0 .. n - 1 /\ drawn
          /\ \A p \in Players : shm_players[p] = 0
          /\ \A p \in Players : p < k => pid_players[p]
          /\ mover \in Players /\ shown \in [Players -> 0 .. LastCell] /\ pid_players \in [Players -> BOOLEAN]
          /\ shm_players = [p \in Players |-> 0]
      BY <1>0, <3>1 DEF Known, Drawn
    <3>3. pid_players' \in [Players -> BOOLEAN] /\ \A p \in Players : p < k + 1 => pid_players'[p]
      BY <3>1, <3>2, LudoAssumption DEF Players
    <3>4. LastCell # 0 /\ n \in Nat \ {0}
      BY LudoAssumption
    <3>5. CASE k + 1 = n
      <4>1. \A p \in Players : pid_players'[p]
        BY <3>3, <3>4, <3>5 DEF Players
      <4>2. ppc' = "pause" /\ current' = After(mover')
        BY <1>2, <3>1, <3>2, <3>5, Round
      <4>. QED
        BY <1>2, <3>1, <3>2, <3>3, <3>4, <4>1, <4>2, Round DEF Known
    <3>6. CASE k + 1 # n
      <4>1. k' \in 0 .. n - 1 /\ ppc' = "fork" /\ \A p \in Players : p < k' => pid_players'[p]
        BY <3>1, <3>2, <3>3, <3>4, <3>6
      <4>. QED
        BY <1>2, <3>1, <3>2, <3>3, <4>1, Round DEF Known
    <3>. QED
      BY <3>5, <3>6
  <2>3. CASE Advance
    <3>1. ppc = "advance" /\ ppc' = "pause" /\ current' = After(current) /\ UNCHANGED <<pid_players, k>>
      BY <2>3 DEF Advance
    <3>2. current = mover /\ After(mover) \in Players
      BY <1>0, <3>1, Round DEF Known
    <3>. QED
      BY <1>0, <1>2, <3>1, <3>2 DEF Known
  <2>4. CASE HandleQuit \/ ParentQuit
    <3>1. ppc' \in {"kill", "end"} /\ UNCHANGED <<pid_players, current>>
      BY <2>4 DEF HandleQuit, ParentQuit
    <3>. QED
      BY <1>0, <1>2, <3>1 DEF Known
  <2>5. CASE terminatePlayers
    <3>1. ppc = "kill" /\ ppc' = "kill" /\ pid_players' = [pid_players EXCEPT ![k] = FALSE] /\ current' = current
      BY <2>5 DEF terminatePlayers
    <3>. QED
      BY <1>0, <1>2, <3>1 DEF Known
  <2>. QED
    BY <2>1, <2>2, <2>3, <2>4, <2>5 DEF Parent
<1>. QED
  BY <1>1, <1>4, <1>5, <1>6 DEF Game

(* The mover makes its move, a cell at a time. *)
LEMMA PlayerPlays ==
  ASSUME Game, Baton, Cells, NEW p \in Players, Player(p)
  PROVE  Game' /\ UNCHANGED <<shm_board, bp, hist>>
<1>0. Drawn /\ UnderWay /\ Known /\ OneBaton /\ DOMAIN pc = Players
  BY DEF Game, Baton
<1>1. UNCHANGED <<shm_board, bp, hist, cp, pp, pipe_p>> /\ \A x \in sigusr1' : x # BP => x \in sigusr1
  BY DEF Player, Throw, Land, Finish, Rank, Tell, shm
<1>2. UNCHANGED <<shm_board, bpc, shown, mover, drawn, cpc>>
  BY <1>1 DEF shm, bp, hist, cp
<1>3. p \in sigusr1 \/ pc[p] \in MidMove
  BY DEF Player, Throw, Land, Finish, Rank, Tell, Goto, MidMove
<1>4. p = mover /\ ~ drawn
  BY <1>0, <1>3 DEF UnderWay
<1>5. ~ Drawing /\ ~ Asking /\ ~ Acked /\ PP \notin sigusr1 /\ BP \notin sigusr1
  <2>1. PP \notin Players /\ BP \notin Players
    BY LudoAssumption DEF PP, BP, Players
  <2>2. PP \notin sigusr1 /\ BP \notin sigusr1
    BY <1>0, <1>3, <2>1 DEF OneBaton, Moving
  <2>. QED
    BY <1>0, <1>3, <2>2 DEF OneBaton, Moving
<1>6. PP # BP
  BY LudoAssumption DEF PP, BP
<1>7. Drawn'
  BY <1>0, <1>1, <1>2, <1>4, <1>5, <1>6 DEF Drawn, Asking, Acked, Drawing
<1>8. \A q \in Players : q # p => pc'[q] = pc[q] /\ pc[q] \notin MidMove /\ q \notin sigusr1'
  <2>1. \A q \in Players : q # p => pc'[q] = pc[q]
    BY <1>0 DEF Player, Throw, Land, Finish, Rank, Tell, Goto
  <2>2. BP \notin Players
    BY LudoAssumption DEF BP, Players
  <2>. QED
    BY <1>0, <1>1, <1>4, <2>1, <2>2 DEF UnderWay
<1>9. \A q \in Players : q # mover => shm_players'[q] = shm_players[q]
  BY <1>4 DEF Player, Throw, Land, Finish, Rank, Tell, shm, Cells
<1>10. Known'
  BY <1>0, <1>1, <1>2, <1>4, <1>9, KnownMoves DEF bp
<1>11. /\ \A q \in Players : q \in sigusr1' \/ pc'[q] \in MidMove => q = mover' /\ ~ drawn'
       /\ shown'[mover'] # LastCell
       /\ \A q \in Players : q # mover' => shm_players'[q] = shown'[q]
  BY <1>0, <1>2, <1>4, <1>8, <1>9 DEF UnderWay
<1>12. /\ bpc' # "draw" /\ shown \in [Players -> 0 .. LastCell]
       /\ mover \in Players /\ shm_players \in [Players -> 0 .. LastCell]
       /\ DOMAIN to = Players
  BY <1>0, <1>2, <1>5 DEF Drawing, Known, Cells
<1>13. LastCell \in Nat \ {0}
  BY LudoAssumption
<1>14. \A q \in Players : q # mover => shm_players[q] = shown[q]
  BY <1>0, <1>4 DEF UnderWay
<1>15. ASSUME NEW d \in Throws, shm_players' = [shown EXCEPT ![mover] = Ends(shown[mover] + d)],
              shown[mover] + d <= LastCell, shown[mover] + d < LastCell => ~ Rules!Taken(shown, shown[mover] + d)
       PROVE  Made'
  <2>1. shown[mover] + d \in Nat
    BY <1>12, ThrowIsPositive
  <2>2. PICK c : c = shown[mover] + d
    OBVIOUS
  <2>3. ~ (c > LastCell) /\ ~ (c < LastCell /\ Rules!Taken(shown, c))
    BY <1>13, <1>15, <2>1, <2>2
  <2>4. Result(c) = [shown EXCEPT ![mover] = Ends(c)]
    BY <2>3 DEF Result
  <2>5. shm_players' = Result(c)'
    BY <1>2, <1>15, <2>2, <2>4, SameRules
  <2>. QED
    BY <1>2, <2>2, <2>5 DEF Made
<1>16. CASE Throw(p)
  <2>1. PICK d \in Throws :
          LET c == shm_players[p] + d
          IN  /\ to' = [to EXCEPT ![p] = IF c <= LastCell THEN c ELSE 0]
              /\ pc' = [pc EXCEPT ![p] =
                          IF c = LastCell THEN "finish"
                          ELSE IF c > LastCell \/ checkOccupied(shm_players, c) THEN "tell"
                          ELSE "land"]
    BY <1>16 DEF Throw
  <2>2. p \in sigusr1 /\ pc[p] \notin MidMove /\ sigusr1' = {} /\ shm_players' = shm_players
    BY <1>0, <1>16 DEF Throw, OneBaton, MidMove, shm
  <2>3. shm_players = shown
    BY <1>0, <1>4, <2>2 DEF UnderWay
  <2>4. PICK c : c = shown[mover] + d
    OBVIOUS
  <2>5. c \in Nat
    BY <1>12, <2>4, ThrowIsPositive
  <2>6. /\ to'[mover] = IF c <= LastCell THEN c ELSE 0
        /\ pc'[mover] = IF c = LastCell THEN "finish"
                        ELSE IF c > LastCell \/ checkOccupied(shown, c) THEN "tell"
                        ELSE "land"
    BY <1>0, <1>4, <1>12, <2>1, <2>3, <2>4
  <2>7. Rules!Taken(shown, c) <=> checkOccupied(shown, c)
    BY DEF Rules!Taken, checkOccupied, Rules!Players, Players
  <2>8. pc'[mover] = "finish" => shown[mover] + d = LastCell
    BY <2>4, <2>6
  <2>9. ASSUME pc'[mover] = "land" PROVE OnTheWay'
    <3>1. c < LastCell /\ ~ Rules!Taken(shown, c) /\ to'[mover] = c
      BY <1>13, <2>5, <2>6, <2>7, <2>9
    <3>2. \A x : Ends(x)' = Ends(x) /\ Rules!Taken(shown, x)' = Rules!Taken(shown, x)
      BY <1>2, SameRules
    <3>. QED
      BY <1>2, <2>4, <3>1, <3>2 DEF OnTheWay
  <2>10. ASSUME pc'[mover] = "tell" PROVE Made'
    <3>1. c > LastCell \/ (c < LastCell /\ Rules!Taken(shown, c))
      BY <1>13, <2>5, <2>6, <2>7, <2>10
    <3>2. Result(c) = shown
      BY <3>1 DEF Result
    <3>3. shm_players' = Result(c)'
      BY <1>2, <2>2, <2>3, <3>2, SameRules
    <3>. QED
      BY <1>2, <2>4, <3>3 DEF Made
  <2>11. pc'[mover] \in {"finish", "tell", "land"}
    BY <2>6
  <2>12. UnderWay'
    BY <1>2, <1>11, <1>12, <2>2, <2>3, <2>8, <2>9, <2>10, <2>11 DEF UnderWay
  <2>. QED
    BY <1>1, <1>7, <1>10, <2>12 DEF Game
<1>17. CASE Land(p)
  <2>1. /\ pc[mover] = "land" /\ sigusr1' = sigusr1 /\ shm_players' = [shm_players EXCEPT ![mover] = to[mover]]
        /\ to[mover] \in 1 .. LastCell - 1
    BY <1>4, <1>17 DEF Land, Cells, Landing
  <2>2. PICK d \in Throws : /\ shown[mover] + d < LastCell
                            /\ ~ Rules!Taken(shown, shown[mover] + d)
                            /\ Ends(shown[mover] + d) = Ends(to[mover])
    BY <1>0, <1>4, <2>1 DEF UnderWay, OnTheWay
  <2>3. PICK on : on = to[mover] + shm_board[to[mover]]
    OBVIOUS
  <2>4. on \in 1 .. LastCell - 1 /\ shm_board[to[mover]] \in Int
    BY <2>1, <2>3, LudoAssumption DEF Cells
  <2>5. PICK c : c = to[mover]
    OBVIOUS
  <2>6. c \in 0 .. LastCell /\ c # 0 /\ c # LastCell
    BY <1>13, <2>1, <2>5
  <2>7. Ends(c) = IF shm_board[c] = 0 \/ \E q \in Players : q # mover /\ shown[q] = on
                  THEN c ELSE Ends(on)
    BY <1>12, <2>3, <2>5, <2>6, EndsAre
  <2>8. checkOccupied(shm_players', on) <=> on = c \/ \E q \in Players : q # mover /\ shown[q] = on
    <3>1. \A q \in Players : shm_players'[q] = IF q = mover THEN c ELSE shown[q]
      BY <1>12, <1>14, <2>1, <2>5
    <3>. QED
      BY <1>12, <3>1 DEF checkOccupied
  <2>9. on = c <=> shm_board[c] = 0
    BY <2>3, <2>4, <2>5, <2>6
  <2>10. CASE shm_board[c] = 0 \/ checkOccupied(shm_players', on)
    <3>1. pc' = [pc EXCEPT ![mover] = "tell"] /\ to' = to
      BY <1>4, <1>17, <2>3, <2>5, <2>10 DEF Land, Goto
    <3>2. Ends(c) = c
      BY <2>7, <2>8, <2>9, <2>10
    <3>3. shm_players' = [shown EXCEPT ![mover] = c]
      BY <1>12, <1>14, <2>1, <2>5
    <3>4. shown[mover] + d <= LastCell
      BY <1>12, <1>13, <2>2, ThrowIsPositive
    <3>5. Made'
      BY <1>15, <2>2, <2>5, <3>2, <3>3, <3>4
    <3>6. pc'[mover] = "tell" /\ mover \notin sigusr1'
      BY <1>0, <1>12, <2>1, <3>1 DEF OneBaton, Moving, MidMove
    <3>7. UnderWay'
      BY <1>2, <1>11, <1>12, <3>5, <3>6 DEF UnderWay
    <3>. QED
      BY <1>1, <1>7, <1>10, <3>7 DEF Game
  <2>11. CASE ~ (shm_board[c] = 0 \/ checkOccupied(shm_players', on))
    <3>1. to' = [to EXCEPT ![mover] = on] /\ pc' = pc
      BY <1>4, <1>17, <2>3, <2>5, <2>11 DEF Land, Goto
    <3>2. Ends(c) = Ends(on)
      BY <2>7, <2>8, <2>11
    <3>3. to'[mover] = on
      BY <1>12, <3>1
    <3>4. \A x : Ends(x)' = Ends(x) /\ Rules!Taken(shown, x)' = Rules!Taken(shown, x)
      BY <1>2, SameRules
    <3>5. OnTheWay'
      BY <1>2, <2>2, <2>5, <3>2, <3>3, <3>4 DEF OnTheWay
    <3>6. pc'[mover] = "land" /\ mover \notin sigusr1' /\ BP \notin sigusr1'
      BY <1>0, <1>5, <1>12, <2>1, <3>1 DEF OneBaton, Moving, MidMove
    <3>7. UnderWay'
      BY <1>2, <1>11, <1>12, <3>5, <3>6 DEF UnderWay
    <3>. QED
      BY <1>1, <1>7, <1>10, <3>7 DEF Game
  <2>. QED
    BY <2>10, <2>11
<1>18. CASE Finish(p)
  <2>1. /\ pc[mover] = "finish" /\ pc' = [pc EXCEPT ![mover] = "rank"] /\ sigusr1' = sigusr1
        /\ shm_players' = [shm_players EXCEPT ![mover] = LastCell]
    BY <1>4, <1>18 DEF Finish, Goto
  <2>2. PICK d \in Throws : shown[mover] + d = LastCell
    BY <1>0, <1>4, <2>1 DEF UnderWay
  <2>3. shm_players = shown
    BY <1>0, <1>4, <2>1 DEF UnderWay
  <2>4. Ends(LastCell) = LastCell
    BY <1>12, <1>13, EndsAre
  <2>5. Made'
    <3>1. PICK c : c = shown[mover] + d
      OBVIOUS
    <3>2. c = LastCell /\ c <= LastCell /\ ~ (c < LastCell)
      BY <1>13, <2>2, <3>1
    <3>3. Ends(shown[mover] + d) = LastCell
      BY <2>2, <2>4
    <3>. QED
      BY <1>15, <2>1, <2>3, <3>1, <3>2, <3>3
  <2>6. pc'[mover] = "rank" /\ mover \notin sigusr1'
    BY <1>0, <1>12, <2>1 DEF OneBaton, Moving, MidMove
  <2>7. UnderWay'
    BY <1>2, <1>11, <1>12, <2>5, <2>6 DEF UnderWay
  <2>. QED
    BY <1>1, <1>7, <1>10, <2>7 DEF Game
<1>19. CASE Rank(p) \/ Tell(p)
  <2>1. /\ pc[mover] \in {"rank", "tell", "tellend"} /\ shm_players' = shm_players
        /\ pc'[mover] \in {"tellend", "pause", "dead"} /\ \A x \in sigusr1' : x \in sigusr1 \/ x = BP
    BY <1>0, <1>4, <1>12, <1>19 DEF Rank, Tell, Goto, shm
  <2>2. Made'
    BY <1>0, <1>2, <1>4, <2>1, SameRules DEF UnderWay
  <2>3. mover \notin sigusr1'
    <3>1. mover # BP
      BY <1>12, LudoAssumption DEF BP, Players
    <3>. QED
      BY <1>0, <1>12, <2>1, <3>1 DEF OneBaton, Moving, MidMove
  <2>4. UnderWay'
    BY <1>2, <1>11, <1>12, <2>1, <2>2, <2>3 DEF UnderWay
  <2>. QED
    BY <1>1, <1>7, <1>10, <2>4 DEF Game
<1>. QED
  BY <1>16, <1>17, <1>18, <1>19 DEF Player

(* The board draws a whole move, and says so. *)
LEMMA BoardPlays ==
  ASSUME Game, Baton, Cells, Board
  PROVE  /\ Game'
         /\ UNCHANGED <<shm_board, mover>>
         /\ shown' # shown \/ drawn' # drawn => printBoard /\ ~ drawn
<1>0. Drawn /\ UnderWay /\ Known /\ OneBaton /\ PipeIs
  BY DEF Game, Baton
<1>1. UNCHANGED <<shm_board, shm_players, mover, pp, cpc, to, pc>> /\ \A x \in sigusr1' : x \in sigusr1
  BY DEF Board, SendBoardPid, FirstDraw, BeginDraw, printBoard, sendAck, BoardQuit, shm, hist, cp, pl
<1>2. CASE printBoard
  <2>1. /\ bpc = "draw" /\ bpc' = "ack" /\ shown' = shm_players /\ drawn' = TRUE
        /\ UNCHANGED sigusr1
    BY <1>2 DEF printBoard
  <2>2. Drawn'
    BY <1>1, <2>1 DEF Drawn
  <2>3. Drawing
    BY <2>1 DEF Drawing
  <2>4. \A q \in Players : q \notin sigusr1' /\ pc'[q] \notin MidMove
    BY <1>0, <1>1, <2>1, <2>3 DEF OneBaton, Moving
  <2>5. UnderWay'
    BY <2>1, <2>4 DEF UnderWay
  <2>6. shown' \in [Players -> 0 .. LastCell] /\ ppc \notin {"off", "start", "fork"}
    BY <1>0, <2>1 DEF Known, Cells
  <2>7. Known'
    BY <1>0, <1>1, <2>1, <2>6, KnownSame
  <2>8. drawn => shown' = shown /\ drawn' = drawn
    <3>1. drawn => shown = shm_players
      BY <1>0 DEF Drawn
    <3>2. drawn \in BOOLEAN
      BY <1>0 DEF Drawn
    <3>. QED
      BY <2>1, <3>1, <3>2
  <2>. QED
    BY <1>1, <1>2, <2>2, <2>5, <2>7, <2>8 DEF Game
<1>3. CASE ~ printBoard
  <2>1. UNCHANGED <<shown, drawn>>
    BY <1>3 DEF Board, SendBoardPid, FirstDraw, BeginDraw, sendAck, BoardQuit, hist
  <2>2. BP \in sigusr1' \/ bpc' = "draw" => drawn \/ BP \in sigusr1 \/ bpc = "draw"
    BY <1>0, <1>1, <1>3 DEF Board, SendBoardPid, FirstDraw, BeginDraw, sendAck, BoardQuit, Drawn
  <2>3. UnderWay'
    BY <1>0, <1>1, <2>1, <2>2, UnderWaySame DEF Known
  <2>4. ppc \in {"off", "start", "fork"} => bpc' \in {"start", "sleep"}
    BY <1>0, <1>3 DEF Board, SendBoardPid, FirstDraw, BeginDraw, sendAck, BoardQuit, Known
  <2>5. Known'
    BY <1>0, <1>1, <2>1, <2>4, KnownSame DEF Known
  <2>6. Asking' \/ Acked' \/ bpc' \in {"start", "sleep", "ack"} \/ PP \in sigusr1' => drawn
    <3>1. CASE sendAck \/ SendBoardPid
      BY <1>0, <3>1 DEF sendAck, SendBoardPid, Drawn
    <3>2. CASE FirstDraw \/ BeginDraw \/ BoardQuit
      <4>1. pipe_p' = pipe_p /\ bpc' \in {"draw", "end"}
        BY <3>2 DEF FirstDraw, BeginDraw, BoardQuit
      <4>. QED
        BY <1>0, <1>1, <4>1 DEF Drawn, Asking, Acked
    <3>. QED
      BY <1>3, <3>1, <3>2 DEF Board
  <2>7. Drawn'
    BY <1>0, <1>1, <2>1, <2>6 DEF Drawn
  <2>. QED
    BY <1>1, <2>1, <2>3, <2>5, <2>7 DEF Game
<1>. QED
  BY <1>2, <1>3

LEMMA GameNext == Game /\ Baton /\ Cells /\ [Next]_vars => Game'
<1> SUFFICES ASSUME Game, Baton, Cells, [Next]_vars PROVE Game'
  OBVIOUS
<1>1. CASE UNCHANGED vars
  <2>1. UNCHANGED <<shm_board, shm_players, pipe_p, sigusr1, cpc, ppc, pid_players, current, k, pc, to,
                    bpc, shown, mover, drawn>>
    BY <1>1 DEF vars, shm, cp, pp, pl, bp, hist
  <2>2. Drawn'
    BY <2>1 DEF Game, Drawn, Asking, Acked
  <2>3. UnderWay'
    BY <2>1, UnderWaySame DEF Game, Known
  <2>4. Known'
    BY <2>1 DEF Game, Known
  <2>. QED
    BY <2>2, <2>3, <2>4 DEF Game
<1>. QED
  BY <1>1, CoordinatorPlays, HandleMovePlays, ParentPlays, PlayerPlays, BoardPlays DEF Next

LEMMA DrawnInit == Init => Rules!Init
<1> SUFFICES ASSUME Init PROVE Rules!Init
  OBVIOUS
<1>1. drawn /\ mover = n - 1 /\ shown = [p \in Players |-> 0] /\ shm_board \in Boards
  BY DEF Init
<1> DEFINE playing == [p \in Players |-> shown[p] # LastCell]
           ahead == {d \in Players : playing[(0 + d) % n]}
<1>2. ahead = Players
  BY <1>1, Round, LudoAssumption
<1>3. \A d \in Players : 0 <= d
  BY LudoAssumption DEF Players
<1>4. \A d \in Players : (\A e \in Players : d <= e) => d = 0
  <2>1. \A d \in Players : d \in Nat /\ (d <= 0 => d = 0)
    BY LudoAssumption DEF Players
  <2>. QED
    BY <2>1, Round
<1>5. (CHOOSE d \in Players : \A e \in Players : d <= e) = 0
  BY <1>3, <1>4, Round
<1>6. FirstFrom(0, playing) = 0
  <2>1. ahead # {} /\ (CHOOSE d \in ahead : \A e \in ahead : d <= e) = 0
    BY <1>2, <1>5, Round, Zenon
  <2>2. FirstFrom(0, playing) = (0 + CHOOSE d \in ahead : \A e \in ahead : d <= e) % n
    BY <2>1, Zenon DEF FirstFrom
  <2>3. (0 + 0) % n = 0
    BY LudoAssumption
  <2>. QED
    BY <2>1, <2>2, <2>3, Zenon
<1>7. After(mover) = 0
  BY <1>1, Round
<1>8. (IF drawn THEN FirstFrom(After(mover), playing) ELSE mover) = 0
  BY <1>1, <1>6, <1>7, Zenon
<1>. QED
  BY <1>1, <1>8, Zenon DEF Rules!Init, Rules!Players, Players

(* A drawing of a move is a move by the rules, and nothing else is seen. *)
LEMMA DrawnNext ==
  Game /\ Baton /\ Cells /\ [Next]_vars => [Rules!Next]_(Rules!vars)
<1> SUFFICES ASSUME Game, Baton, Cells, [Next]_vars PROVE [Rules!Next]_(Rules!vars)
  OBVIOUS
<1> DEFINE playing == [p \in Players |-> shown[p] # LastCell]
           turn == IF drawn THEN FirstFrom(After(mover), playing) ELSE mover
<1>1. ASSUME UNCHANGED <<shm_board, shown, mover, drawn>> PROVE [Rules!Next]_(Rules!vars)
  BY <1>1 DEF Rules!vars
<1>2. CASE UNCHANGED vars \/ Coordinator \/ User
  BY <1>1, <1>2 DEF vars, shm, hist, bp, Coordinator, User, ReadBoardPid, ReadParentPid, ReadFirstAck,
     handleUserInput, Play, WrongAck, ReadAck, HitReturn, EndParent, EndBoard, quit
<1>3. CASE parentHandleMove
  <2>1. UNCHANGED <<shm_board, shown>>
    BY <1>3 DEF parentHandleMove, shm, bp
  <2>2. /\ drawn /\ drawn' => UNCHANGED mover
        /\ ~ drawn' => drawn /\ mover' = FirstFrom(After(mover), playing)
    BY <1>3, HandleMovePlays
  <2>3. drawn
    BY <1>3, HandleMovePlays DEF Game, Drawn, parentHandleMove
  <2>4. turn' = turn
    BY <2>1, <2>2, <2>3
  <2>. QED
    BY <2>1, <2>4 DEF Rules!vars
<1>4. CASE Parent /\ ~ parentHandleMove
  BY <1>1, <1>4, ParentPlays DEF shm, bp, hist
<1>5. ASSUME NEW p \in Players, Player(p) PROVE [Rules!Next]_(Rules!vars)
  BY <1>1, <1>5, PlayerPlays DEF bp, hist
<1>6. CASE Board
  <2>1. UNCHANGED <<shm_board, mover>> /\ (shown' # shown \/ drawn' # drawn => printBoard /\ ~ drawn)
    BY <1>6, BoardPlays
  <2>2. CASE UNCHANGED <<shown, drawn>>
    BY <1>1, <2>1, <2>2
  <2>3. CASE printBoard /\ ~ drawn
    <3>1. bpc = "draw" /\ shown' = shm_players /\ drawn' = TRUE
      BY <2>3 DEF printBoard
    <3>2. Made /\ shown[mover] # LastCell /\ mover \in Players
      BY <2>3, <3>1 DEF Game, UnderWay, Known
    <3>3. PICK d \in Throws : shm_players = Result(shown[mover] + d)
      BY <3>2 DEF Made
    <3>4. turn = mover
      BY <2>3
    <3>5. turn' = FirstFrom(After(mover), playing')
      BY <2>1, <3>1
    <3>6. turn' = Rules!FirstPlaying(shown', Rules!After(mover))
      <4>1. \A q, x \in Players : playing'[(x + q) % n] <=> shown'[(x + q) % n] # LastCell
        BY Round
      <4>2. After(mover) = Rules!After(mover) /\ After(mover) \in Players
        BY <3>2, Round DEF After, Rules!After
      <4>3. PICK i : i = After(mover)
        OBVIOUS
      <4>. DEFINE A == {q \in Players : playing'[(i + q) % n]}
                  B == {q \in Players : shown'[(i + q) % n] # LastCell}
                  Pos(S) == IF S = {} THEN i ELSE (i + CHOOSE q \in S : \A e \in S : q <= e) % n
      <4>4. A = B
        BY <4>1, <4>2, <4>3
      <4>5. FirstFrom(i, playing') = Pos(A)
        BY Zenon DEF FirstFrom
      <4>6. Rules!FirstPlaying(shown', i) = Pos(B)
        BY Zenon DEF Rules!FirstPlaying, Rules!Players, Players
      <4>. HIDE DEF playing, A, B, Pos
      <4>. QED
        BY <3>5, <4>2, <4>3, <4>4, <4>5, <4>6, Zenon
    <3>7. d \in Rules!Throws
      BY DEF Throws, Rules!Throws
    <3>8. LET c == shown[mover] + d
          IN  shown' = IF c > LastCell \/ (c < LastCell /\ Rules!Taken(shown, c)) THEN shown
                       ELSE [shown EXCEPT ![mover] = Rules!End(shm_board, [shown EXCEPT ![mover] = -1], c)]
      BY <3>1, <3>3 DEF Result, Ends
    <3>9. Rules!Move(mover)
      <4>1. UNCHANGED shm_board
        BY <2>1
      <4>. QED
        BY <3>2, <3>4, <3>6, <3>7, <3>8, <4>1, Zenon DEF Rules!Move
    <3>. QED
      BY <3>2, <3>9 DEF Rules!Next, Rules!Players, Players
  <2>. QED
    BY <2>1, <2>2, <2>3
<1>. QED
  BY <1>2, <1>3, <1>4, <1>5, <1>6 DEF Next

(* The game that is drawn (board.c:57) is one that the rules allow, in     *)
(* whole moves and in turn, though a player moves in several steps and the *)
(* turn is passed on by signals (players.c:86, :202 and :212).             *)
THEOREM TheGameIsByTheRules == Spec => Refines
<1>1. Spec => [](Game /\ Baton /\ Cells)
  BY GameInit, GameNext, BatonInit, BatonNext, CellsInit, CellsNext, PTL DEF Spec
<1>. QED
  BY <1>1, DrawnInit, DrawnNext, PTL DEF Spec, Refines, Rules!Safety
-----------------------------------------------------------------------------
(* Who has not finished, or has not yet said so to the others: a player    *)
(* that steps on the last cell counts itself out in a later step.          *)
Uncounted == {p \in Players : shm_players[p] # LastCell \/ pc[p] = "rank"}

Placed == \A p \in Players :
            /\ shm_players[p] = LastCell => pc[p] \in {"rank", "tellend", "dead"}
            /\ pc[p] \in {"rank", "tellend"} => shm_players[p] = LastCell

(* unfinished is exact, but for a player that is killed between the two.   *)
UnfinishedExact == /\ Cardinality(Uncounted) <= unfinished
                   /\ ppc \notin {"kill", "end"} => unfinished = Cardinality(Uncounted)

Counted == unfinished \in 0 .. n /\ Placed /\ UnfinishedExact

Typed ==
  /\ pipe_p \in Seq({"bp", "pp", "ACK"})
  /\ sigusr1 \subseteq Players \cup {PP, BP} /\ sigusr2 \subseteq {PP, BP}
  /\ cpc \in {"readbp", "readpp", "readack", "prompt", "play", "waitack", "over",
              "terminate", "waitpp", "waitbp", "end"}
  /\ inbuf \in Seq({"next", "autoplay", "quit"}) /\ autoplay \in BOOLEAN
  /\ ppc \in {"off", "start", "fork", "pause", "advance", "kill", "end"}
  /\ k \in 0 .. n
  /\ pc \in [Players -> PlayerPlaces] /\ to \in [Players -> 0 .. LastCell]
  /\ bpc \in {"start", "sleep", "draw", "ack", "pause", "end"}

LEMMA Finitely == IsFiniteSet(Uncounted) /\ IsFiniteSet(Uncounted')
<1>1. IsFiniteSet(Players)
  BY LudoAssumption, FS_Interval DEF Players
<1>2. Uncounted \in SUBSET Players /\ Uncounted' \in SUBSET Players
  BY DEF Uncounted
<1>. QED
  BY <1>1, <1>2, FS_Subset

LEMMA CountedInit == Init => Counted
<1>. SUFFICES ASSUME Init PROVE Counted
  OBVIOUS
<1>1. n \in Nat \ {0} /\ LastCell # 0
  BY LudoAssumption
<1>2. Placed
  BY <1>1 DEF Init, Placed
<1>3. Uncounted = 0 .. n - 1
  BY <1>1 DEF Init, Uncounted, Players
<1>4. Cardinality(0 .. n - 1) = n
  BY <1>1, FS_Interval
<1>. QED
  BY <1>1, <1>2, <1>3, <1>4 DEF Counted, UnfinishedExact, Init

(* A step that does not count, and counts nobody out who plays on.         *)
LEMMA CountSame ==
  ASSUME Counted, unfinished' = unfinished, Placed', Uncounted' \subseteq Uncounted,
         ppc \in {"kill", "end"} => ppc' \in {"kill", "end"},
         ppc' \in {"kill", "end"} \/ Uncounted' = Uncounted
  PROVE  Counted'
<1>1. Uncounted' \in SUBSET Uncounted
  OBVIOUS
<1>2. /\ Cardinality(Uncounted') \in Nat /\ Cardinality(Uncounted) \in Nat
      /\ Cardinality(Uncounted') <= Cardinality(Uncounted)
  BY <1>1, Finitely, FS_CardinalityType, FS_Subset
<1>3. unfinished \in 0 .. n /\ Cardinality(Uncounted) <= unfinished
  BY DEF Counted, UnfinishedExact
<1>4. Cardinality(Uncounted') <= unfinished
  BY <1>2, <1>3, LudoAssumption
<1>5. ppc' \notin {"kill", "end"} => unfinished = Cardinality(Uncounted')
  BY DEF Counted, UnfinishedExact
<1>. QED
  BY <1>3, <1>4, <1>5 DEF Counted, UnfinishedExact

LEMMA CountUnchanged ==
  ASSUME Counted, UNCHANGED <<shm_players, unfinished, pc>>,
         ppc \in {"kill", "end"} => ppc' \in {"kill", "end"}
  PROVE  Counted'
<1>1. Uncounted' = Uncounted /\ Placed'
  BY DEF Uncounted, Placed, Counted
<1>. QED
  BY <1>1, CountSame

LEMMA PlayerCounts ==
  ASSUME Counted, Cells, NEW p \in Players, Player(p)
  PROVE  Counted'
<1>0. /\ DOMAIN pc = Players /\ DOMAIN shm_players = Players /\ ppc' = ppc /\ Placed
      /\ LastCell \in Nat \ {0}
  BY LudoAssumption DEF Player, Throw, Land, Finish, Rank, Tell, pp, Cells, Counted
<1>1. ASSUME unfinished' = unfinished, DOMAIN pc' = Players, DOMAIN shm_players' = Players,
             \A q \in Players : q # p => pc'[q] = pc[q] /\ shm_players'[q] = shm_players[q],
             p \in Uncounted <=> p \in Uncounted',
             shm_players'[p] = LastCell => pc'[p] \in {"rank", "tellend", "dead"},
             pc'[p] \in {"rank", "tellend"} => shm_players'[p] = LastCell
      PROVE  Counted'
  <2>1. Uncounted' = Uncounted
    BY <1>1 DEF Uncounted
  <2>2. Placed'
    BY <1>0, <1>1 DEF Placed
  <2>. QED
    BY <1>0, <1>1, <2>1, <2>2, CountSame
<1>2. CASE Throw(p)
  <2>1. /\ pc[p] = "pause" /\ UNCHANGED <<shm_players, unfinished>>
        /\ \E x \in {"finish", "tell", "land"} : pc' = [pc EXCEPT ![p] = x]
    <3>1. /\ pc[p] = "pause" /\ UNCHANGED <<shm_players, unfinished>>
          /\ \E d \in Throws : 
               LET c == shm_players[p] + d
               IN  pc' = [pc EXCEPT ![p] =
                       IF c = LastCell THEN "finish"
                       ELSE IF c > LastCell \/ checkOccupied(shm_players, c) THEN "tell"
                       ELSE "land"]
      BY <1>2, Zenon DEF Throw, shm
    <3>. QED
      BY <3>1
  <2>2. shm_players[p] # LastCell
    BY <1>0, <2>1 DEF Placed
  <2>. QED
    BY <1>0, <1>1, <2>1, <2>2 DEF Uncounted
<1>3. CASE Land(p)
  <2>1. /\ pc[p] = "land" /\ shm_players' = [shm_players EXCEPT ![p] = to[p]]
        /\ unfinished' = unfinished /\ (pc' = pc \/ pc' = [pc EXCEPT ![p] = "tell"])
    BY <1>3 DEF Land, Goto
  <2>2. shm_players[p] # LastCell /\ to[p] # LastCell
    BY <1>0, <2>1 DEF Placed, Cells, Landing
  <2>. QED
    BY <1>0, <1>1, <2>1, <2>2 DEF Uncounted
<1>4. CASE Finish(p)
  <2>1. /\ pc[p] = "finish" /\ shm_players' = [shm_players EXCEPT ![p] = LastCell]
        /\ unfinished' = unfinished /\ pc' = [pc EXCEPT ![p] = "rank"]
    BY <1>4 DEF Finish, Goto
  <2>2. shm_players[p] # LastCell
    BY <1>0, <2>1 DEF Placed
  <2>. QED
    BY <1>0, <1>1, <2>1, <2>2 DEF Uncounted
<1>5. CASE Tell(p)
  <2>1. /\ UNCHANGED <<shm_players, unfinished>>
        /\ \/ pc[p] = "tell" /\ pc' = [pc EXCEPT ![p] = "pause"]
           \/ pc[p] = "tellend" /\ pc' = [pc EXCEPT ![p] = "dead"]
    BY <1>5 DEF Tell, Goto, shm
  <2>2. pc[p] = "tell" => shm_players[p] # LastCell
    BY <1>0 DEF Placed
  <2>. QED
    BY <1>0, <1>1, <2>1, <2>2 DEF Uncounted
<1>6. CASE Rank(p)
  <2>1. /\ pc[p] = "rank" /\ pc' = [pc EXCEPT ![p] = "tellend"] /\ shm_players' = shm_players
        /\ unfinished' = unfinished - 1
    BY <1>6 DEF Rank, Goto
  <2>2. shm_players[p] = LastCell /\ p \in Uncounted
    BY <1>0, <2>1 DEF Placed, Uncounted
  <2>3. Uncounted' = Uncounted \ {p}
    BY <1>0, <2>1, <2>2 DEF Uncounted
  <2>4. /\ Cardinality(Uncounted) \in Nat /\ Cardinality(Uncounted') \in Nat
        /\ Cardinality(Uncounted') = Cardinality(Uncounted) - 1
    BY <2>2, <2>3, Finitely, FS_CardinalityType, FS_RemoveElement
  <2>5. Placed'
    BY <1>0, <2>1, <2>2 DEF Placed
  <2>6. /\ unfinished \in 0 .. n /\ Cardinality(Uncounted) <= unfinished
        /\ ppc \notin {"kill", "end"} => unfinished = Cardinality(Uncounted)
    BY DEF Counted, UnfinishedExact
  <2>7. unfinished' \in 0 .. n /\ Cardinality(Uncounted') <= unfinished'
    BY <2>1, <2>4, <2>6, LudoAssumption
  <2>8. ppc' \notin {"kill", "end"} => unfinished' = Cardinality(Uncounted')
    BY <1>0, <2>1, <2>4, <2>6
  <2>. QED
    BY <2>5, <2>7, <2>8 DEF Counted, UnfinishedExact
<1>. QED
  BY <1>2, <1>3, <1>4, <1>5, <1>6 DEF Player

LEMMA CountedNext ==
  ASSUME Counted, Baton, Cells, Game, [Next]_vars PROVE Counted'
<1>0. DOMAIN pc = Players /\ Placed
  BY DEF Cells, Counted
<1>1. CASE Coordinator \/ User \/ Board \/ UNCHANGED vars
  <2>1. UNCHANGED <<shm_players, unfinished, pc>>
    BY <1>1 DEF Coordinator, User, Board, ReadBoardPid, ReadParentPid, ReadFirstAck,
       handleUserInput, Play, WrongAck, ReadAck, HitReturn, EndParent, EndBoard, quit, SendBoardPid,
       FirstDraw, BeginDraw, printBoard, sendAck, BoardQuit, shm, pl, vars
  <2>2. ppc' = ppc \/ ReadBoardPid
    BY <1>1 DEF Coordinator, User, Board, ReadParentPid, ReadFirstAck,
       handleUserInput, Play, WrongAck, ReadAck, HitReturn, EndParent, EndBoard, quit, SendBoardPid,
       FirstDraw, BeginDraw, printBoard, sendAck, BoardQuit, pp, vars
  <2>3. ReadBoardPid => ppc = "off"
    BY DEF ReadBoardPid, Baton, PipeIs
  <2>. QED
    BY <2>1, <2>2, <2>3, CountUnchanged
<1>2. CASE SendParentPid \/ parentHandleMove \/ Advance \/ HandleQuit \/ ParentQuit
  <2>1. /\ UNCHANGED <<shm_players, unfinished, pc>>
        /\ ppc \in {"kill", "end"} => ppc' \in {"kill", "end"}
    BY <1>2 DEF SendParentPid, parentHandleMove, Advance, HandleQuit, ParentQuit, shm, pl
  <2>. QED
    BY <2>1, CountUnchanged
<1>3. CASE ForkPlayer
  <2>1. /\ UNCHANGED <<shm_players, unfinished>> /\ pc' = [pc EXCEPT ![k] = "pause"]
        /\ ppc = "fork"
    BY <1>3 DEF ForkPlayer, shm
  <2>2. \A p \in Players : shm_players[p] # LastCell
    BY <2>1, LudoAssumption DEF Game, Known
  <2>3. Uncounted' = Uncounted /\ Placed'
    BY <1>0, <2>1, <2>2 DEF Uncounted, Placed
  <2>. QED
    BY <2>1, <2>3, CountSame
<1>4. CASE terminatePlayers
  <2>1. /\ UNCHANGED <<shm_players, unfinished>> /\ ppc = "kill" /\ ppc' = ppc
        /\ pc' = pc \/ pc' = [pc EXCEPT ![k] = "dead"]
    BY <1>4 DEF terminatePlayers, shm
  <2>2. Uncounted' \subseteq Uncounted /\ Placed'
    BY <1>0, <2>1 DEF Uncounted, Placed
  <2>. QED
    BY <2>1, <2>2, CountSame
<1>5. ASSUME NEW p \in Players, Player(p) PROVE Counted'
  BY <1>5, PlayerCounts
<1>. QED
  BY <1>1, <1>2, <1>3, <1>4, <1>5 DEF Next, Parent
-----------------------------------------------------------------------------
(* Types.                                                                  *)
LEMMA TypedInit == Init => Typed
<1>. SUFFICES ASSUME Init PROVE Typed
  OBVIOUS
<1>1. 0 \in 0 .. n /\ 0 \in 0 .. LastCell
  BY LudoAssumption
<1>2. pc \in [Players -> PlayerPlaces] /\ to \in [Players -> 0 .. LastCell]
  BY <1>1 DEF Init, PlayerPlaces
<1>3. pipe_p \in Seq({"bp", "pp", "ACK"}) /\ inbuf \in Seq({"next", "autoplay", "quit"})
  BY EmptySeq DEF Init
<1>. QED
  BY <1>1, <1>2, <1>3 DEF Init, Typed

(* A word is read from the pipe or written to it.                          *)
Words == {"bp", "pp", "ACK"}

LEMMA PipeTyped ==
  ASSUME pipe_p \in Seq(Words), NEW w \in Words, Read(w) \/ Write(w) \/ pipe_p' = pipe_p
  PROVE  pipe_p' \in Seq(Words)
<1>1. CASE Read(w)
  BY <1>1, HeadTailProperties DEF Read
<1>2. CASE Write(w)
  BY <1>2, AppendProperties DEF Write
<1>. QED
  BY <1>1, <1>2

LEMMA PipeTypes == ASSUME Typed, [Next]_vars PROVE pipe_p' \in Seq(Words)
<1>1. \E w \in Words : Read(w) \/ Write(w) \/ pipe_p' = pipe_p
  <2>1. CASE Coordinator \/ User
    BY <2>1 DEF Coordinator, User, ReadBoardPid, ReadParentPid, ReadFirstAck, handleUserInput,
       Play, WrongAck, ReadAck, HitReturn, EndParent, EndBoard, quit, Words
  <2>2. CASE Parent
    BY <2>2 DEF Parent, SendParentPid, ForkPlayer, parentHandleMove, Advance, HandleQuit,
       terminatePlayers, ParentQuit, Words
  <2>3. CASE Board
    BY <2>3 DEF Board, SendBoardPid, FirstDraw, BeginDraw, printBoard, sendAck, BoardQuit, Words
  <2>4. CASE \E p \in Players : Player(p)
    BY <2>4 DEF Player, Throw, Land, Finish, Rank, Tell, Words
  <2>5. CASE UNCHANGED vars
    BY <2>5 DEF vars, Words
  <2>. QED
    BY <2>1, <2>2, <2>3, <2>4, <2>5 DEF Next
<1>2. pipe_p \in Seq(Words)
  BY DEF Typed, Words
<1>. QED
  BY <1>1, <1>2, PipeTyped

LEMMA CoordinatorTypes ==
  ASSUME Typed, Baton, Coordinator \/ User, pipe_p' \in Seq(Words) PROVE Typed'
<1>1. UNCHANGED <<k, pl, bpc>>
  BY DEF Coordinator, User, ReadBoardPid, ReadParentPid, ReadFirstAck, handleUserInput,
     Play, WrongAck, ReadAck, HitReturn, EndParent, EndBoard, quit, pp, bp
<1>2. ppc' \in {ppc, "start"}
  BY DEF Coordinator, User, ReadBoardPid, ReadParentPid, ReadFirstAck, handleUserInput,
     Play, WrongAck, ReadAck, HitReturn, EndParent, EndBoard, quit, pp
<1>3. sigusr1' \in {sigusr1, sigusr1 \cup {PP}} /\ sigusr2' \in {sigusr2, sigusr2 \cup {PP}, sigusr2 \cup {BP}}
  BY DEF Coordinator, User, ReadBoardPid, ReadParentPid, ReadFirstAck, handleUserInput,
     Play, WrongAck, ReadAck, HitReturn, EndParent, EndBoard, quit
<1>4. cpc' \in {"readbp", "readpp", "readack", "prompt", "play", "waitack", "over",
                "terminate", "waitpp", "waitbp", "end"}
  <2>1. CASE handleUserInput
    BY <2>1 DEF handleUserInput
  <2>. QED
    BY <2>1 DEF Coordinator, User, ReadBoardPid, ReadParentPid, ReadFirstAck,
       Play, WrongAck, ReadAck, HitReturn, EndParent, EndBoard, quit
<1>5. inbuf' \in Seq({"next", "autoplay", "quit"}) /\ autoplay' \in BOOLEAN
  <2>0. inbuf \in Seq({"next", "autoplay", "quit"}) /\ autoplay \in BOOLEAN
    BY DEF Typed
  <2>1. CASE handleUserInput
    <3>1. PICK line \in IF inbuf = <<>> THEN Lines ELSE {inbuf} :
            inbuf' = Tail(line) /\ autoplay' = (Head(line) = "autoplay")
      BY <2>1 DEF handleUserInput
    <3>2. line \in Seq({"next", "autoplay", "quit"}) /\ line # <<>>
      BY <2>0, <3>1, LudoAssumption
    <3>. QED
      BY <3>1, <3>2, HeadTailProperties
  <2>2. CASE WrongAck
    BY <2>0, <2>2, EmptySeq DEF WrongAck
  <2>. QED
    BY <2>0, <2>1, <2>2 DEF Coordinator, User, ReadBoardPid, ReadParentPid, ReadFirstAck,
       Play, ReadAck, HitReturn, EndParent, EndBoard, quit
<1>. QED
  BY <1>1, <1>2, <1>3, <1>4, <1>5 DEF Typed, pl, Words

LEMMA ParentTypes ==
  ASSUME Typed, Known, Parent, pipe_p' \in Seq(Words) PROVE Typed'
<1>1. UNCHANGED <<cpc, inbuf, autoplay, to, bpc>>
  BY DEF Parent, SendParentPid, ForkPlayer, parentHandleMove, Advance, HandleQuit,
     terminatePlayers, ParentQuit, cp, pl, bp
<1>2. ppc' \in {"fork", "pause", "advance", "kill", "end"}
  BY DEF Parent, SendParentPid, ForkPlayer, parentHandleMove, Advance, HandleQuit,
     terminatePlayers, ParentQuit
<1>3. sigusr1' \subseteq Players \cup {PP, BP} /\ sigusr2' \subseteq {PP, BP}
  <2>1. CASE parentHandleMove
    <3>1. current \in Players /\ StillPlaying \in [Players -> BOOLEAN]
      BY DEF Known, StillPlaying
    <3>2. current' \in Players
      BY <2>1, <3>1, FirstFromIs DEF parentHandleMove
    <3>. QED
      BY <2>1, <3>2 DEF parentHandleMove, Typed
  <2>. QED
    BY <2>1 DEF Typed, Parent, SendParentPid, ForkPlayer, Advance, HandleQuit,
       terminatePlayers, ParentQuit
<1>4. k' \in 0 .. n
  <2>1. CASE ForkPlayer
    BY <2>1, LudoAssumption DEF ForkPlayer, Known
  <2>2. CASE terminatePlayers
    BY <2>2, LudoAssumption DEF terminatePlayers, Typed
  <2>3. CASE HandleQuit
    BY <2>3, LudoAssumption DEF HandleQuit
  <2>. QED
    BY <2>1, <2>2, <2>3 DEF Typed, Parent, SendParentPid, parentHandleMove, Advance, ParentQuit
<1>5. pc' \in [Players -> PlayerPlaces]
  BY DEF Typed, PlayerPlaces, Parent, SendParentPid, ForkPlayer, parentHandleMove, Advance,
     HandleQuit, terminatePlayers, ParentQuit, pl
<1>. QED
  BY <1>1, <1>2, <1>3, <1>4, <1>5 DEF Typed, Words

LEMMA PlayerTypes ==
  ASSUME Typed, Cells, NEW p \in Players, Player(p), pipe_p' \in Seq(Words) PROVE Typed'
<1>1. UNCHANGED <<cpc, inbuf, autoplay, ppc, k, bpc, sigusr2>>
  BY DEF Player, Throw, Land, Finish, Rank, Tell, cp, pp, bp
<1>2. sigusr1' \subseteq Players \cup {PP, BP}
  BY DEF Typed, Player, Throw, Land, Finish, Rank, Tell
<1>3. pc' \in [Players -> PlayerPlaces]
  <2>1. \E x \in PlayerPlaces : pc' = [pc EXCEPT ![p] = x] \/ pc' = pc
    <3>1. CASE Throw(p)
      <4>1. \E d \in Throws :
               LET c == shm_players[p] + d
               IN  pc' = [pc EXCEPT ![p] =
                       IF c = LastCell THEN "finish"
                       ELSE IF c > LastCell \/ checkOccupied(shm_players, c) THEN "tell"
                       ELSE "land"]
        BY <3>1, Zenon DEF Throw
      <4>. QED
        BY <4>1 DEF PlayerPlaces
    <3>2. CASE Land(p)
      BY <3>2 DEF Land, Goto, PlayerPlaces
    <3>. QED
      BY <3>1, <3>2 DEF Player, Finish, Rank, Tell, Goto, PlayerPlaces
  <2>. QED
    BY <2>1 DEF Typed
<1>4. to' \in [Players -> 0 .. LastCell]
  <2>0. to \in [Players -> 0 .. LastCell] /\ 0 \in 0 .. LastCell /\ LastCell \in Nat
    BY LudoAssumption DEF Typed
  <2>1. CASE Throw(p)
    <3>1. PICK d \in Throws :
            to' = [to EXCEPT ![p] = IF shm_players[p] + d <= LastCell THEN shm_players[p] + d ELSE 0]
      BY <2>1 DEF Throw
    <3>2. shm_players[p] \in Nat /\ d \in Nat
      BY ThrowIsPositive, LudoAssumption DEF Cells
    <3>. QED
      BY <2>0, <3>1, <3>2
  <2>2. CASE Land(p)
    <3>1. to[p] \in 1 .. LastCell - 1 /\ shm_board \in Boards
      BY <2>2 DEF Land, Cells, Landing
    <3>2. to[p] + shm_board[to[p]] \in 0 .. LastCell
      BY <2>0, <3>1, LudoAssumption
    <3>. QED
      BY <2>0, <2>2, <3>2 DEF Land
  <2>3. CASE Tell(p)
    BY <2>0, <2>3 DEF Tell
  <2>. QED
    BY <2>0, <2>1, <2>2, <2>3 DEF Player, Finish, Rank
<1>. QED
  BY <1>1, <1>2, <1>3, <1>4 DEF Typed, Words

LEMMA TypedNext ==
  ASSUME Typed, Baton, Cells, Game, [Next]_vars PROVE Typed'
<1>0. pipe_p' \in Seq(Words)
  BY PipeTypes
<1>1. CASE Board
  BY <1>0, <1>1 DEF Board, SendBoardPid, FirstDraw, BeginDraw, printBoard, sendAck, BoardQuit,
     cp, pp, pl, Typed, Words
<1>2. CASE UNCHANGED vars
  BY <1>0, <1>2 DEF vars, cp, pp, pl, bp, Typed, Words
<1>. QED
  BY <1>0, <1>1, <1>2, CoordinatorTypes, ParentTypes, PlayerTypes DEF Next, Game

(* Every variable keeps to its type, the count of those who play among     *)
(* them: it never falls below zero, although players count themselves out. *)
THEOREM LudoTypes == Spec => []TypeOK
<1>1. Cells /\ Game /\ Counted /\ Typed => TypeOK
  <2>. SUFFICES ASSUME Cells, Game, Counted, Typed PROVE TypeOK
    OBVIOUS
  <2>1. mover \in -1 .. n - 1
    BY LudoAssumption DEF Game, Known, Players
  <2>. QED
    BY <2>1 DEF TypeOK, Cells, Game, Known, Drawn, Counted, Typed
<1>. QED
  BY <1>1, BatonInit, BatonNext, CellsInit, CellsNext, GameInit, GameNext,
     CountedInit, CountedNext, TypedInit, TypedNext, PTL DEF Spec

(* The coordinator looks at the shared count without asking the players    *)
(* (ludo.c:212): when it finds zero there, and ends the game, every player *)
(* is on the last cell.                                                    *)
THEOREM ZeroMeansOver ==
  Spec => [](unfinished = 0 => \A p \in Players : shm_players[p] = LastCell)
<1>1. Counted => (unfinished = 0 => \A p \in Players : shm_players[p] = LastCell)
  <2>. SUFFICES ASSUME Counted, unfinished = 0 PROVE \A p \in Players : shm_players[p] = LastCell
    OBVIOUS
  <2>1. Cardinality(Uncounted) \in Nat /\ Cardinality(Uncounted) <= 0
    BY Finitely, FS_CardinalityType DEF Counted, UnfinishedExact
  <2>2. Uncounted = {}
    BY <2>1, Finitely, FS_EmptySet
  <2>. QED
    BY <2>2 DEF Uncounted
<1>. QED
  BY <1>1, BatonInit, BatonNext, CellsInit, CellsNext, GameInit, GameNext,
     CountedInit, CountedNext, PTL DEF Spec

(* Until the players are told to end, the count is that of the players who *)
(* have not finished or have still to count themselves out.                *)
THEOREM TheCountIsExact == Spec => []UnfinishedExact
<1>1. Counted => UnfinishedExact
  BY DEF Counted
<1>. QED
  BY <1>1, BatonInit, BatonNext, CellsInit, CellsNext, GameInit, GameNext,
     CountedInit, CountedNext, PTL DEF Spec
=============================================================================
