---------------------------- MODULE RunDfa_proofs ----------------------------
(***************************************************************************)
(* The processes of lab 3 are the automaton of the table: for any number   *)
(* of states, any table, any lines, and however slow the states are.       *)
(***************************************************************************)
EXTENDS RunDfa, SequenceTheorems, TLAPS

(* What ends a word and is told of; after QUIT nothing is claimed.         *)
Ends == Letters \ (Symbols \cup {QUIT})

(* A state that is not concerned: it waits for a TRANSITION, or for as     *)
(* long as it was not scheduled it owes the user the end of a word.        *)
Idle(i)  == pc[i] = "loop" /\ pipe_s[i] = <<>>
Owing(i) == pc[i] = "reply" /\ \E m \in Ends : pipe_s[i] = <<m>>
Quiet(i) == Idle(i) \/ Owing(i)

OthersQuiet(i) == \A j \in States : j # i => Quiet(j)

(* Within a word one state is concerned: TRANSITION is on its way to it,   *)
(* perhaps behind the end of another word ...                              *)
Called == /\ pipe_c = <<>> /\ OthersQuiet(At)
          /\ \/ pc[At] = "loop" /\ pipe_s[At] = <<TRANSITION>>
             \/ pc[At] = "reply" /\ \E m \in Ends : pipe_s[At] = <<m, TRANSITION>>

(* ... or it has told its number and waits for the symbol ...              *)
Announced == /\ pipe_c = <<At>> /\ OthersQuiet(At)
             /\ pc[At] = "reply" /\ pipe_s[At] = <<>>

(* ... or it has the symbol.                                               *)
Sent == /\ pipe_c = <<>> /\ OthersQuiet(cur_state) /\ cur_idx > 0
        /\ pc[cur_state] = "reply" /\ pipe_s[cur_state] = <<word[cur_idx]>>
        /\ word[cur_idx] \in Symbols

Types == /\ cpc \in {"prompt", "read"}
         /\ word \in Seq(Letters) /\ cur_idx \in 0 .. Len(word)
         /\ cur_state \in States /\ At \in States
         /\ DOMAIN pc = States /\ DOMAIN pipe_s = States
         /\ typed = <<>> /\ inbuf = <<>>

Orderly == /\ Types
           /\ cpc = "prompt" => pipe_c = <<>> /\ \A i \in States : Quiet(i)
           /\ cpc = "read" => Called \/ Announced \/ Sent

Inv == spoilt \/ Interrupted \/ Orderly
-----------------------------------------------------------------------------
(* What Append does to the short pipes of the invariant. *)
LEMMA Pair == ASSUME NEW a, NEW b PROVE Append(<<a>>, b) = <<a, b>>
<1>. DEFINE T == {a, b}
            s == Append(<<a>>, b)
            u == <<a, b>>
<1>1. <<a>> \in Seq(T) /\ Len(<<a>>) = 1 /\ <<a>>[1] = a /\ b \in T
  OBVIOUS
<1>2. u \in Seq(T) /\ Len(u) = 2 /\ u[1] = a /\ u[2] = b
  OBVIOUS
<1>. HIDE DEF T, u
<1>3. s \in Seq(T) /\ Len(s) = 2 /\ s[1] = a /\ s[2] = b
  BY <1>1, AppendProperties
<1>. HIDE DEF s
<1>4. Len(s) = Len(u) /\ \A i \in 1 .. Len(s) : s[i] = u[i]
  BY <1>2, <1>3
<1>5. s = u
  BY <1>2, <1>3, <1>4, SeqEqual
<1>. QED
  BY <1>5 DEF s, u

LEMMA Short ==
  ASSUME NEW a, NEW b
  PROVE  /\ <<a>> # <<>> /\ <<a, b>> # <<>>
         /\ Head(<<a>>) = a /\ Tail(<<a>>) = <<>>
         /\ Head(<<a, b>>) = a /\ Tail(<<a, b>>) = <<b>>
         /\ Append(<<>>, a) = <<a>> /\ Append(<<a>>, b) = <<a, b>>
<1>1. <<a>> # <<>> /\ <<a, b>> # <<>>
  OBVIOUS
<1>2. Head(<<a>>) = a /\ Tail(<<a>>) = <<>>
  OBVIOUS
<1>3. Head(<<a, b>>) = a /\ Tail(<<a, b>>) = <<b>>
  OBVIOUS
<1>4. Append(<<>>, a) = <<a>>
  OBVIOUS
<1>. QED
  BY <1>1, <1>2, <1>3, <1>4, Pair

(* The constants, as the proofs need them. *)
LEMMA Alphabet ==
  /\ 0 \in States /\ INVALID \notin States
  /\ TRANSITION \notin Symbols /\ EOI \notin Symbols /\ QUIT \notin Symbols
  /\ QUIT \notin Ends /\ TRANSITION # QUIT /\ EOI \in Ends /\ EOI # TRANSITION
  /\ EOI \in Letters /\ TRANSITION \in Letters /\ QUIT \in Letters /\ "?" \in Letters
  /\ \A m \in Ends : m \notin Symbols /\ m \in Letters
  /\ \A m \in Letters : m \in Symbols \/ m = QUIT \/ m \in Ends
  /\ \A i \in States, c \in Symbols : delta[i][c] \in States
BY RunDfaAssumption DEF States, TRANSITION, EOI, QUIT, INVALID, Ends, Letters

(* What is once spoilt or interrupted remains so. *)
LEMMA Stable == Next => (spoilt => spoilt') /\ (Interrupted => Interrupted')
<1> SUFFICES ASSUME Next PROVE (spoilt => spoilt') /\ (Interrupted => Interrupted')
  OBVIOUS
<1>1. CASE Coordinator
  <2>1. CASE SendSymbol
    <3>1. spoilt' = (spoilt \/ symbol = QUIT) /\ cpc = "read"
      BY <2>1 DEF SendSymbol
    <3>. QED
      BY <3>1 DEF Interrupted
  <2>2. CASE Crash
    BY <2>2 DEF Crash, Interrupted
  <2>3. CASE SendQuit \/ Reap
    BY <2>3 DEF SendQuit, Reap, Interrupted
  <2>. QED
    BY <1>1, <2>1, <2>2, <2>3 DEF Coordinator
<1>2. CASE ReadWord
  <2>1. spoilt => spoilt'
    BY <1>2 DEF ReadWord, TypedAhead, LeftInBuffer, Line
  <2>2. ~ Interrupted
    BY <1>2 DEF ReadWord, Interrupted
  <2>. QED
    BY <2>1, <2>2
<1>3. CASE handleInterrupt
  BY <1>3 DEF handleInterrupt, Interrupted
<1>4. ASSUME NEW i \in States, State(i) PROVE (spoilt => spoilt') /\ (Interrupted => Interrupted')
  <2>1. cpc' = cpc
    BY <1>4 DEF State, quit, Announce, Ignore, Answer, Complain, Pass
  <2>2. spoilt => spoilt'
    BY <1>4 DEF State, quit, Announce, Ignore, Answer, Complain, Pass
  <2>. QED
    BY <2>1, <2>2 DEF Interrupted
<1>. QED
  BY <1>1, <1>2, <1>3, <1>4 DEF Next

(* A pipe that is not empty belongs to a state that owes the end of a word *)
(* or to the state that is concerned.                                      *)
LEMMA Pending ==
  ASSUME Orderly, NEW i \in States, pipe_s[i] # <<>>
  PROVE  \/ Owing(i)
         \/ /\ cpc = "read" /\ Called /\ i = At
            /\ \/ pc[i] = "loop" /\ pipe_s[i] = <<TRANSITION>>
               \/ pc[i] = "reply" /\ \E m \in Ends : pipe_s[i] = <<m, TRANSITION>>
         \/ /\ cpc = "read" /\ Sent /\ i = cur_state /\ pc[i] = "reply"
            /\ pipe_s[i] = <<word[cur_idx]>> /\ word[cur_idx] \in Symbols
<1>1. CASE Quiet(i)
  BY <1>1 DEF Quiet, Idle
<1>2. CASE ~ Quiet(i)
  <2>1. cpc = "read"
    BY <1>2 DEF Orderly, Types
  <2>2. CASE Called
    BY <1>2, <2>1, <2>2 DEF Called, OthersQuiet
  <2>3. CASE Announced
    BY <1>2, <2>3 DEF Announced, OthersQuiet
  <2>4. CASE Sent
    BY <1>2, <2>1, <2>4 DEF Sent, OthersQuiet
  <2>. QED
    BY <2>1, <2>2, <2>3, <2>4 DEF Orderly
<1>. QED
  BY <1>1, <1>2

(* Its first message, and what is left of it after that. *)
LEMMA FirstMessage ==
  ASSUME Orderly, NEW i \in States, pipe_s[i] # <<>>
  PROVE  /\ pc[i] \in {"loop", "reply"}
         /\ pc[i] = "loop" =>
              /\ Head(pipe_s[i]) = TRANSITION /\ cpc = "read"
              /\ Called /\ i = At /\ pipe_s[i] = <<TRANSITION>>
         /\ pc[i] = "reply" /\ Head(pipe_s[i]) \in Symbols =>
              /\ cpc = "read" /\ Sent /\ i = cur_state /\ pipe_s[i] = <<word[cur_idx]>>
         /\ pc[i] = "reply" /\ Head(pipe_s[i]) \notin Symbols =>
              /\ Head(pipe_s[i]) \in Ends
              /\ \/ Tail(pipe_s[i]) = <<>> /\ Owing(i)
                 \/ Tail(pipe_s[i]) = <<TRANSITION>> /\ cpc = "read" /\ Called /\ i = At
<1>1. CASE Owing(i)
  <2>1. PICK m \in Ends : pipe_s[i] = <<m>> /\ pc[i] = "reply"
    BY <1>1 DEF Owing
  <2>2. Head(pipe_s[i]) = m /\ Tail(pipe_s[i]) = <<>> /\ m \notin Symbols
    BY <2>1, Short, Alphabet
  <2>. QED
    BY <1>1, <2>1, <2>2
<1>2. CASE cpc = "read" /\ Called /\ i = At /\ pc[i] = "loop" /\ pipe_s[i] = <<TRANSITION>>
  <2>1. Head(pipe_s[i]) = TRANSITION
    BY <1>2, Short
  <2>. QED
    BY <1>2, <2>1
<1>3. CASE /\ cpc = "read" /\ Called /\ i = At
           /\ pc[i] = "reply" /\ \E m \in Ends : pipe_s[i] = <<m, TRANSITION>>
  <2>1. PICK m \in Ends : pipe_s[i] = <<m, TRANSITION>>
    BY <1>3
  <2>2. Head(pipe_s[i]) = m /\ Tail(pipe_s[i]) = <<TRANSITION>> /\ m \notin Symbols
    BY <2>1, Short, Alphabet
  <2>. QED
    BY <1>3, <2>1, <2>2
<1>4. CASE /\ cpc = "read" /\ Sent /\ i = cur_state /\ pc[i] = "reply"
           /\ pipe_s[i] = <<word[cur_idx]>> /\ word[cur_idx] \in Symbols
  <2>1. Head(pipe_s[i]) = word[cur_idx]
    BY <1>4, Short
  <2>. QED
    BY <1>4, <2>1
<1>. QED
  BY <1>1, <1>2, <1>3, <1>4, Pending

LEMMA InvInit == Init => Inv
<1> SUFFICES ASSUME Init PROVE Orderly
  BY DEF Inv
<1>1. word \in Seq(Letters) /\ cur_idx \in 0 .. Len(word)
  BY DEF Init
<1>. QED
  BY <1>1, Alphabet DEF Init, Orderly, Types, At, Quiet, Idle
-----------------------------------------------------------------------------
(* A word of its own line begins: TRANSITION is on its way to state 0. *)
LEMMA ReadWordKeeps == ASSUME Orderly, ReadWord, ~ spoilt' PROVE Orderly'
<1>1. /\ cpc = "prompt" /\ cpc' = "read" /\ cur_idx' = 0 /\ cur_state' = 0
      /\ pc' = pc /\ pipe_c' = pipe_c /\ pipe_c = <<>> /\ \A i \in States : Quiet(i)
      /\ typed = <<>> /\ inbuf = <<>> /\ DOMAIN pc = States /\ DOMAIN pipe_s = States
      /\ pipe_s' = [pipe_s EXCEPT ![0] = Append(@, TRANSITION)]
  BY DEF ReadWord, Orderly, Types, Write
<1>2. Line
  BY <1>1 DEF ReadWord, TypedAhead, LeftInBuffer
<1>3. PICK line \in Lines : word' = Head(line) /\ typed' = Tail(line) /\ (spoilt' = (spoilt \/ typed' # <<>>))
  BY <1>1, <1>2 DEF Line
<1>4. typed' = <<>> /\ inbuf' = <<>>
  BY <1>2, <1>3 DEF Line
<1>5. word' \in Seq(Letters) /\ 0 \in 0 .. Len(word')
  <2>1. line \in Seq(Seq(Letters) \ {<<>>}) /\ line # <<>>
    BY <1>3, RunDfaAssumption
  <2>2. Head(line) \in Seq(Letters) \ {<<>>}
    BY <2>1, HeadTailProperties
  <2>. QED
    BY <1>3, <2>2, LenProperties
<1>6. At' = 0 /\ At' \in States
  BY <1>1, Alphabet DEF At
<1>7. Types'
  BY <1>1, <1>4, <1>5, <1>6, Alphabet DEF Types
<1>8. pipe_s'[0] = Append(pipe_s[0], TRANSITION) /\ \A j \in States : j # 0 => pipe_s'[j] = pipe_s[j]
  BY <1>1, Alphabet
<1>9. OthersQuiet(0)'
  BY <1>1, <1>8 DEF OthersQuiet, Quiet, Idle, Owing
<1>10. \/ pc'[0] = "loop" /\ pipe_s'[0] = <<TRANSITION>>
       \/ pc'[0] = "reply" /\ \E m \in Ends : pipe_s'[0] = <<m, TRANSITION>>
  <2>1. CASE Idle(0)
    BY <2>1, <1>1, <1>8, Short DEF Idle
  <2>2. CASE Owing(0)
    <3>1. PICK m \in Ends : pipe_s[0] = <<m>>
      BY <2>2 DEF Owing
    <3>2. pipe_s'[0] = <<m, TRANSITION>>
      BY <3>1, <1>8, Short
    <3>. QED
      BY <2>2, <3>2, <1>1 DEF Owing
  <2>. QED
    BY <2>1, <2>2, <1>1, Alphabet DEF Quiet
<1>11. Called'
  BY <1>1, <1>6, <1>9, <1>10 DEF Called, OthersQuiet, Quiet, Idle, Owing
<1>. QED
  BY <1>1, <1>7, <1>11 DEF Orderly

(* The coordinator can scan a number only when the state has told it. *)
LEMMA Scanned ==
  ASSUME Orderly, SendSymbol
  PROVE  /\ cpc = "read" /\ Announced /\ cur_state' = At /\ pipe_c' = <<>> /\ inbuf' = <<>>
         /\ pipe_s'[At] = <<symbol>> /\ \A j \in States : j # At => pipe_s'[j] = pipe_s[j]
         /\ DOMAIN pipe_s' = States /\ typed' = <<>> /\ pc' = pc /\ word' = word
<1>1. /\ cpc = "read" /\ typed = <<>> /\ inbuf = <<>> /\ pc' = pc /\ word' = word
      /\ DOMAIN pipe_s = States /\ At \in States /\ ScanState /\ SendTo(cur_state')
  BY DEF SendSymbol, Orderly, Types
<1>2. pipe_c # <<>> /\ typed' = typed
  BY <1>1 DEF ScanState
<1>3. Announced /\ pipe_c = <<At>> /\ pipe_s[At] = <<>>
  BY <1>1, <1>2 DEF Orderly, Called, Announced, Sent
<1>4. Head(pipe_c) = At /\ Tail(pipe_c) = <<>> /\ At # INVALID
  BY <1>1, <1>3, Short, Alphabet
<1>5. cur_state' = At /\ inbuf' = <<>> /\ pipe_c' = <<>>
  BY <1>1, <1>2, <1>4 DEF ScanState
<1>6. pipe_s' = [pipe_s EXCEPT ![At] = Append(@, symbol)]
  BY <1>1, <1>5 DEF SendTo, Write
<1>. QED
  BY <1>1, <1>2, <1>3, <1>5, <1>6, Short

LEMMA CrashNeedsNumber == ASSUME Orderly, Crash PROVE FALSE
<1>1. cpc = "read" /\ typed = <<>> /\ inbuf = <<>> /\ cur_state' \notin States /\ At \in States
  BY DEF Crash, Orderly, Types
<1>2. pipe_c # <<>>
  BY <1>1 DEF Crash, ScanState
<1>3. pipe_c = <<At>>
  BY <1>1, <1>2 DEF Orderly, Called, Announced, Sent
<1>4. Head(pipe_c) = At /\ At # INVALID
  BY <1>1, <1>3, Short, Alphabet
<1>. QED
  BY <1>1, <1>2, <1>4 DEF Crash, ScanState

LEMMA SymbolCases ==
  ASSUME Types
  PROVE  /\ symbol \in Symbols => cur_idx + 1 \in 1 .. Len(word) /\ symbol = word[cur_idx + 1]
         /\ symbol \notin Symbols => symbol \in Ends \/ symbol = QUIT
         /\ symbol \in Letters
<1>1. CASE cur_idx = Len(word)
  BY <1>1, Alphabet DEF symbol
<1>2. CASE cur_idx # Len(word)
  <2>1. cur_idx + 1 \in 1 .. Len(word)
    BY <1>2 DEF Types
  <2>2. word[cur_idx + 1] \in Letters
    BY <2>1, ElementOfSeq DEF Types
  <2>. QED
    BY <1>2, <2>1, <2>2, Alphabet DEF symbol
<1>. QED
  BY <1>1, <1>2

LEMMA SendSymbolKeeps == ASSUME Orderly, SendSymbol, ~ spoilt' PROVE Orderly'
<1>1. Types /\ OthersQuiet(At) /\ pc[At] = "reply" /\ At \in States
  BY Scanned DEF Orderly, Announced, Types
<1>2. CASE symbol \in Symbols
  <2>1. cur_idx' = cur_idx + 1 /\ cpc' = "read" /\ cur_idx' \in 1 .. Len(word) /\ symbol = word'[cur_idx']
    BY <1>1, <1>2, Scanned, SymbolCases DEF SendSymbol
  <2>2. At' = delta[cur_state'][symbol] /\ At' \in States
    <3>1. cur_idx' # 0
      BY <2>1 DEF Types
    <3>. QED
      BY <1>1, <1>2, <2>1, <3>1, Scanned, Alphabet DEF At
  <2>3. Types'
    BY <1>1, <2>1, <2>2, Scanned DEF Types
  <2>4. Sent'
    <3>1. OthersQuiet(cur_state)'
      BY <1>1, Scanned DEF OthersQuiet, Quiet, Idle, Owing
    <3>2. cur_idx' > 0
      BY <2>1 DEF Types
    <3>. QED
      BY <1>1, <1>2, <2>1, <3>1, <3>2, Scanned DEF Sent
  <2>. QED
    BY <2>1, <2>3, <2>4 DEF Orderly
<1>3. CASE symbol \notin Symbols
  <2>1. cpc' = "prompt" /\ cur_idx' = cur_idx /\ symbol \in Ends
    BY <1>1, <1>3, SymbolCases DEF SendSymbol
  <2>2. At' = 0 /\ At' \in States
    BY <2>1, Alphabet DEF At
  <2>3. Types'
    BY <1>1, <2>1, <2>2, Scanned DEF Types
  <2>4. \A i \in States : Quiet(i)'
    <3> TAKE i \in States
    <3>1. CASE i = At
      BY <3>1, <1>1, <2>1, Scanned DEF Quiet, Owing
    <3>2. CASE i # At
      BY <3>2, <1>1, Scanned DEF OthersQuiet, Quiet, Idle, Owing
    <3>. QED
      BY <3>1, <3>2
  <2>. QED
    BY <2>1, <2>3, <2>4, Scanned DEF Orderly
<1>. QED
  BY <1>2, <1>3
-----------------------------------------------------------------------------
(* The coordinator's place in the word does not change with a state's step. *)
LEMMA SamePlace ==
  ASSUME Types, UNCHANGED <<cpc, input>>, DOMAIN pc' = States, DOMAIN pipe_s' = States
  PROVE  Types' /\ At' = At
BY DEF Types, At, input

LEMMA AnnounceKeeps == ASSUME Orderly, NEW i \in States, Announce(i) PROVE Orderly'
<1>1. /\ Types /\ UNCHANGED <<cpc, input>> /\ pc' = [pc EXCEPT ![i] = "reply"]
      /\ pipe_s' = [pipe_s EXCEPT ![i] = Tail(@)] /\ pipe_c' = Append(pipe_c, i)
      /\ pipe_s[i] # <<>> /\ Head(pipe_s[i]) = TRANSITION /\ pc[i] = "loop"
  BY DEF Announce, Receive, Orderly
<1>2. Types' /\ At' = At
  BY <1>1, SamePlace DEF Types
<1>3. cpc = "read" /\ Called /\ i = At /\ pipe_s[i] = <<TRANSITION>>
  BY <1>1, FirstMessage, Alphabet
<1>4. pipe_c' = <<At>> /\ pipe_s'[At] = <<>> /\ pc'[At] = "reply"
  BY <1>1, <1>3, Short DEF Called, Types
<1>5. \A j \in States : j # At => pc'[j] = pc[j] /\ pipe_s'[j] = pipe_s[j]
  BY <1>1, <1>3 DEF Types
<1>6. Announced'
  BY <1>2, <1>3, <1>4, <1>5 DEF Announced, Called, OthersQuiet, Quiet, Idle, Owing
<1>. QED
  BY <1>1, <1>2, <1>3, <1>6 DEF Orderly

LEMMA AnswerKeeps == ASSUME Orderly, NEW i \in States, Answer(i) PROVE Orderly'
<1>1. /\ Types /\ UNCHANGED <<cpc, input, pipe_c>> /\ pc' = [pc EXCEPT ![i] = "loop"]
      /\ pipe_s' = [pipe_s EXCEPT ![i] = Tail(@)]
      /\ pipe_s[i] # <<>> /\ Head(pipe_s[i]) = EOI /\ pc[i] = "reply"
  BY DEF Answer, Receive, Orderly
<1>2. Types' /\ At' = At
  BY <1>1, SamePlace DEF Types
<1>3. \A j \in States : j # i => pc'[j] = pc[j] /\ pipe_s'[j] = pipe_s[j]
  BY <1>1 DEF Types
<1>4. pc'[i] = "loop" /\ pipe_s'[i] = Tail(pipe_s[i])
  BY <1>1 DEF Types
<1>5. CASE Tail(pipe_s[i]) = <<>> /\ Owing(i)
  <2>1. \A j \in States : Quiet(j) => Quiet(j)'
    BY <1>3, <1>4, <1>5 DEF Quiet, Idle, Owing
  <2>2. i # At \/ cpc # "read" \/ ~ Called
    <3> SUFFICES ASSUME i = At, Called PROVE FALSE
      OBVIOUS
    <3>1. PICK m \in Ends : pipe_s[i] = <<m>>
      BY <1>5 DEF Owing
    <3>2. \E l \in Ends : pipe_s[i] = <<l, TRANSITION>>
      BY <1>5 DEF Called, Owing
    <3>3. PICK l \in Ends : pipe_s[i] = <<l, TRANSITION>>
      BY <3>2
    <3>4. Tail(pipe_s[i]) = <<TRANSITION>>
      BY <3>3, Short
    <3>. QED
      BY <1>5, <3>4, Short
  <2>3. CASE cpc = "prompt"
    BY <1>1, <1>2, <2>1, <2>3 DEF Orderly, input
  <2>4. CASE cpc = "read" /\ Called
    <3>1. Called'
      BY <1>1, <1>2, <1>3, <2>1, <2>2, <2>4 DEF Called, OthersQuiet, Types
    <3>. QED
      BY <1>1, <1>2, <2>4, <3>1 DEF Orderly, Types
  <2>5. CASE cpc = "read" /\ Announced
    <3>1. i # At
      BY <1>1, <2>5 DEF Announced
    <3>2. Announced'
      BY <1>1, <1>2, <1>3, <2>1, <2>5, <3>1 DEF Announced, OthersQuiet, Types
    <3>. QED
      BY <1>1, <1>2, <2>5, <3>2 DEF Orderly, Types
  <2>6. CASE cpc = "read" /\ Sent
    <3>1. i # cur_state
      BY <1>1, <2>6, Short, Alphabet DEF Sent
    <3>2. cur_state' = cur_state /\ word' = word /\ cur_idx' = cur_idx
      BY <1>1 DEF input
    <3>3. Sent'
      BY <1>1, <1>3, <2>1, <2>6, <3>1, <3>2 DEF Sent, OthersQuiet, Types
    <3>. QED
      BY <1>1, <1>2, <2>6, <3>3 DEF Orderly, Types
  <2>. QED
    BY <1>1, <2>3, <2>4, <2>5, <2>6 DEF Orderly, Types
<1>6. CASE Tail(pipe_s[i]) = <<TRANSITION>> /\ cpc = "read" /\ Called /\ i = At
  <2>1. Called'
    BY <1>1, <1>2, <1>3, <1>4, <1>6 DEF Called, OthersQuiet, Quiet, Idle, Owing
  <2>. QED
    BY <1>1, <1>2, <1>6, <2>1 DEF Orderly
<1>. QED
  BY <1>1, <1>5, <1>6, FirstMessage, Alphabet

LEMMA PassKeeps == ASSUME Orderly, NEW i \in States, Pass(i) PROVE Orderly'
<1>. DEFINE c == Head(pipe_s[i])
            j == delta[i][c]
<1>1. /\ Types /\ UNCHANGED <<cpc, input, pipe_c>> /\ pc' = [pc EXCEPT ![i] = "loop"]
      /\ pipe_s' = [[pipe_s EXCEPT ![i] = Tail(@)] EXCEPT ![j] = Append(@, TRANSITION)]
      /\ pipe_s[i] # <<>> /\ c \in Symbols /\ pc[i] = "reply"
  BY DEF Pass, Orderly
<1>2. Types' /\ At' = At
  BY <1>1, SamePlace DEF Types
<1>3. cpc = "read" /\ Sent /\ i = cur_state /\ pipe_s[i] = <<word[cur_idx]>>
  BY <1>1, FirstMessage
<1>4. c = word[cur_idx] /\ Tail(pipe_s[i]) = <<>>
  BY <1>3, Short
<1>5. j = At /\ j \in States
  <2>1. cur_idx # 0
    BY <1>1, <1>3 DEF Sent, Types
  <2>2. j \in States
    BY <1>1, Alphabet
  <2>. QED
    BY <1>3, <1>4, <2>1, <2>2 DEF At
<1>. HIDE DEF c, j
<1>6. /\ \A q \in States : q # i => pc'[q] = pc[q]
      /\ pc'[i] = "loop"
      /\ \A q \in States : q # i /\ q # j => pipe_s'[q] = pipe_s[q]
      /\ j # i => pipe_s'[i] = <<>> /\ pipe_s'[j] = Append(pipe_s[j], TRANSITION)
      /\ j = i => pipe_s'[j] = Append(<<>>, TRANSITION)
  BY <1>1, <1>4, <1>5 DEF Types
<1>7. \A q \in States : q # i => Quiet(q)
  BY <1>3 DEF Sent, OthersQuiet
<1>8. \A q \in States : q # j => Quiet(q)'
  BY <1>6, <1>7 DEF Quiet, Idle, Owing
<1>9. \/ pc'[j] = "loop" /\ pipe_s'[j] = <<TRANSITION>>
      \/ pc'[j] = "reply" /\ \E m \in Ends : pipe_s'[j] = <<m, TRANSITION>>
  <2>1. CASE j = i
    BY <2>1, <1>6, Short
  <2>2. CASE j # i /\ Idle(j)
    BY <2>2, <1>5, <1>6, Short DEF Idle
  <2>3. CASE j # i /\ Owing(j)
    <3>1. PICK m \in Ends : pipe_s[j] = <<m>>
      BY <2>3 DEF Owing
    <3>2. pipe_s'[j] = <<m, TRANSITION>>
      BY <2>3, <3>1, <1>6, Short
    <3>. QED
      BY <2>3, <3>2, <1>5, <1>6 DEF Owing
  <2>. QED
    BY <2>1, <2>2, <2>3, <1>5, <1>7 DEF Quiet
<1>10. Called'
  BY <1>1, <1>2, <1>3, <1>5, <1>8, <1>9 DEF Called, Sent, OthersQuiet, Quiet, Idle, Owing
<1>. QED
  BY <1>1, <1>2, <1>3, <1>10 DEF Orderly

LEMMA InvNext == Inv /\ [Next]_vars => Inv'
<1> SUFFICES ASSUME Inv, [Next]_vars, ~ spoilt', ~ Interrupted' PROVE Orderly'
  BY DEF Inv
<1>1. CASE UNCHANGED vars
  <2>1. Orderly
    BY <1>1 DEF Inv, Interrupted, vars
  <2>. QED
    BY <1>1, <2>1 DEF vars, input, Orderly, Types, At, Called, Announced, Sent,
                      OthersQuiet, Quiet, Idle, Owing
<1>2. CASE Next
  <2>1. Orderly
    BY <1>2, Stable DEF Inv
  <2>2. CASE Coordinator
    <3>1. cpc \in {"prompt", "read"}
      BY <2>1 DEF Orderly, Types
    <3>2. SendSymbol
      BY <2>1, <2>2, <3>1, CrashNeedsNumber DEF Coordinator, SendQuit, Reap
    <3>. QED
      BY <2>1, <3>2, SendSymbolKeeps
  <2>3. CASE ReadWord
    BY <2>1, <2>3, ReadWordKeeps
  <2>4. CASE handleInterrupt
    BY <2>4 DEF handleInterrupt, Interrupted
  <2>5. ASSUME NEW i \in States, State(i) PROVE Orderly'
    <3>1. CASE quit(i)
      <4>1. pipe_s[i] # <<>> /\ Head(pipe_s[i]) = QUIT
        BY <3>1 DEF quit, Receive
      <4>. QED
        BY <4>1, <2>1, FirstMessage, Alphabet
    <3>2. CASE Ignore(i)
      <4>1. pipe_s[i] # <<>> /\ Head(pipe_s[i]) # TRANSITION /\ pc[i] = "loop"
        BY <3>2 DEF Ignore, Receive
      <4>. QED
        BY <4>1, <2>1, FirstMessage, Alphabet
    <3>3. CASE Complain(i)
      BY <3>3 DEF Complain
    <3>. QED
      BY <2>1, <2>5, <3>1, <3>2, <3>3, AnnounceKeeps, AnswerKeeps, PassKeeps DEF State
  <2>. QED
    BY <1>2, <2>2, <2>3, <2>4, <2>5 DEF Next
<1>. QED
  BY <1>1, <1>2

(* Until a '#' is in a pipe, a '!' is sent, words are typed ahead or       *)
(* SIGINT comes, one state at a time is concerned with the word:           *)
(* TRANSITION, its number and its symbol follow one another, and nothing   *)
(* else is in any pipe but the ends of words that slow states have not     *)
(* read, a '$' that was typed and other letters that are no symbols among  *)
(* them.                                                                   *)
THEOREM OneStateAtATime == Spec => []Inv
<1>. QED
  BY InvInit, InvNext, PTL DEF Spec
-----------------------------------------------------------------------------
(* A state owes the end of a word while that is the first in its pipe. *)
Owes(i, m) == m \notin Symbols /\ pc[i] = "reply" /\ pipe_s[i] # <<>> /\ Head(pipe_s[i]) = m

LEMMA OwedIs ==
  /\ Owed = [e \in States \X Letters |-> IF Owes(e[1], e[2]) THEN 1 ELSE 0]
  /\ Owed' = [e \in States \X Letters |-> IF Owes(e[1], e[2])' THEN 1 ELSE 0]
BY DEF Owed, Owes

LEMMA OwedSame ==
  ASSUME \A i \in States, m \in Letters : Owes(i, m)' <=> Owes(i, m)
  PROVE  Owed' = Owed
<1>1. \A e \in States \X Letters : Owes(e[1], e[2])' <=> Owes(e[1], e[2])
  OBVIOUS
<1>. QED
  BY <1>1 DEF Owed, Owes

LEMMA OneEntry ==
  ASSUME NEW S, NEW f \in [S -> Int], NEW g \in [S -> Int], NEW e0 \in S, NEW d \in Int,
         g[e0] = f[e0] + d, \A e \in S : e # e0 => g[e] = f[e]
  PROVE  g = [f EXCEPT ![e0] = @ + d]
OBVIOUS

LEMMA OwedEntry ==
  ASSUME NEW i \in States, NEW m \in Letters,
         \A j \in States, l \in Letters : <<j, l>> # <<i, m>> => (Owes(j, l)' <=> Owes(j, l))
  PROVE  /\ ~ Owes(i, m) /\ Owes(i, m)' => Owed' = [Owed EXCEPT ![<<i, m>>] = @ + 1]
         /\ Owes(i, m) /\ ~ Owes(i, m)' =>
              Owed' = [Owed EXCEPT ![<<i, m>>] = @ + (-1)] /\ Owed[<<i, m>>] > 0
<1>. DEFINE S == States \X Letters
<1>1. Owed \in [S -> Int] /\ Owed' \in [S -> Int] /\ <<i, m>> \in S
  BY OwedIs
<1>2. \A e \in S : e # <<i, m>> => Owed'[e] = Owed[e]
  <2> TAKE e \in S
  <2>1. PICK j \in States, l \in Letters : e = <<j, l>>
    OBVIOUS
  <2>. QED
    BY <2>1, OwedIs
<1>3. Owed[<<i, m>>] = (IF Owes(i, m) THEN 1 ELSE 0) /\ Owed'[<<i, m>>] = IF Owes(i, m)' THEN 1 ELSE 0
  BY OwedIs
<1>. HIDE DEF S
<1>4. ASSUME ~ Owes(i, m), Owes(i, m)' PROVE Owed' = [Owed EXCEPT ![<<i, m>>] = @ + 1]
  <2>1. Owed'[<<i, m>>] = Owed[<<i, m>>] + 1
    BY <1>3, <1>4
  <2>. QED
    BY <1>1, <1>2, <2>1, OneEntry
<1>5. ASSUME Owes(i, m), ~ Owes(i, m)'
      PROVE  Owed' = [Owed EXCEPT ![<<i, m>>] = @ + (-1)] /\ Owed[<<i, m>>] > 0
  <2>1. Owed'[<<i, m>>] = Owed[<<i, m>>] + (-1) /\ Owed[<<i, m>>] > 0
    BY <1>3, <1>5
  <2>. QED
    BY <1>1, <1>2, <2>1, OneEntry
<1>. QED
  BY <1>4, <1>5

(* What a pipe with one message more shows to be owed. *)
LEMMA CallOwesNothing ==
  ASSUME NEW i \in States, Quiet(i), pipe_s'[i] = Append(pipe_s[i], TRANSITION), pc'[i] = pc[i]
  PROVE  \A m \in Letters : Owes(i, m)' <=> Owes(i, m)
<1>1. CASE Idle(i)
  <2>1. pc[i] = "loop"
    BY <1>1 DEF Idle
  <2>. QED
    BY <2>1 DEF Owes
<1>2. CASE Owing(i)
  <2>1. PICK m \in Ends : pipe_s[i] = <<m>>
    BY <1>2 DEF Owing
  <2>2. pipe_s'[i] = <<m, TRANSITION>>
    BY <2>1, Short
  <2>3. pipe_s[i] # <<>> /\ pipe_s'[i] # <<>> /\ Head(pipe_s[i]) = m /\ Head(pipe_s'[i]) = m
    BY <2>1, <2>2, Short
  <2>. QED
    BY <2>3 DEF Owes
<1>. QED
  BY <1>1, <1>2 DEF Quiet

(* The mapping of the processes to the automaton, step by step. *)
LEMMA ReadWordBegins == ASSUME Orderly, ReadWord PROVE A!Next
<1>1. /\ cpc = "prompt" /\ cpc' = "read" /\ cur_idx' = 0 /\ screen' = screen
      /\ typed = <<>> /\ inbuf = <<>> /\ DOMAIN pipe_s = States /\ \A i \in States : Quiet(i)
      /\ pipe_s' = [pipe_s EXCEPT ![0] = Append(@, TRANSITION)] /\ pc' = pc
  BY DEF ReadWord, Orderly, Types, Write
<1>2. Line
  BY <1>1 DEF ReadWord, TypedAhead, LeftInBuffer
<1>3. PICK line \in Lines : word' = Head(line)
  BY <1>1, <1>2 DEF Line
<1>4. line # <<>> /\ line \in Seq(Seq(Letters) \ {<<>>})
  BY <1>3, RunDfaAssumption
<1>5. Head(line) = line[1] /\ 1 \in 1 .. Len(line)
  BY <1>4, HeadTailProperties, EmptySeq
<1>6. word' \in UNION {{l[j] : j \in 1 .. Len(l)} : l \in Lines}
  BY <1>3, <1>5
<1>7. ~ Reading /\ Reading' = TRUE /\ At' = 0 /\ At = 0
  BY <1>1 DEF Reading, At
<1>8. Owed' = Owed
  <2>1. \A m \in Letters : Owes(0, m)' <=> Owes(0, m)
    BY <1>1, Alphabet, CallOwesNothing
  <2>2. \A j \in States : j # 0 => pipe_s'[j] = pipe_s[j]
    BY <1>1
  <2>3. \A j \in States, m \in Letters : j # 0 => (Owes(j, m)' <=> Owes(j, m))
    BY <1>1, <2>2 DEF Owes
  <2>. QED
    BY <2>1, <2>3, OwedSame
<1>. QED
  BY <1>1, <1>6, <1>7, <1>8 DEF A!Next, A!Begin

LEMMA SendSymbolReads == ASSUME Orderly, SendSymbol PROVE A!Next
<1>1. /\ Types /\ At \in States /\ cpc = "read" /\ Reading /\ cur_state' = At
      /\ pipe_s'[At] = <<symbol>> /\ \A j \in States : j # At => pipe_s'[j] = pipe_s[j]
      /\ word' = word /\ screen' = screen /\ pipe_s[At] = <<>> /\ pc' = pc /\ pc[At] = "reply"
  BY Scanned DEF Orderly, Types, Reading, Announced, SendSymbol
<1>2. A!symbol = symbol
  BY DEF A!symbol, symbol
<1>3. Head(pipe_s'[At]) = symbol /\ pipe_s'[At] # <<>>
  BY <1>1, Short
<1>4. symbol \in Letters
  BY <1>1, SymbolCases
<1>. DEFINE a == At
            b == At'
<1>5. CASE symbol \in Symbols
  <2>1. cur_idx' = cur_idx + 1 /\ cpc' = "read" /\ cur_idx' # 0 /\ symbol = word'[cur_idx']
    BY <1>1, <1>5, SymbolCases DEF SendSymbol, Types
  <2>2. At' = delta[At][symbol] /\ Reading' = Reading
    BY <1>1, <1>5, <2>1 DEF At, Reading
  <2>3. \A i \in States, m \in Letters : Owes(i, m)' <=> Owes(i, m)
    BY <1>1, <1>3, <1>5 DEF Owes
  <2>4. Owed' = Owed
    BY <2>3, OwedSame
  <2>5. A!Step
    BY <1>1, <1>2, <1>5, <2>1, <2>2, <2>4 DEF A!Step
  <2>. QED
    BY <2>5 DEF A!Next
<1>6. CASE symbol \notin Symbols
  <2>1. cpc' = "prompt" /\ cur_idx' = cur_idx
    BY <1>6 DEF SendSymbol
  <2>2. At' = 0 /\ Reading' = FALSE
    BY <2>1 DEF At, Reading
  <2>3. \A i \in States, m \in Letters :
          /\ <<i, m>> # <<a, symbol>> => (Owes(i, m)' <=> Owes(i, m))
          /\ i = a /\ m = symbol => ~ Owes(i, m) /\ Owes(i, m)'
    BY <1>1, <1>3, <1>6 DEF Owes
  <2>. HIDE DEF a
  <2>4. Owed' = [Owed EXCEPT ![<<a, symbol>>] = @ + 1]
    <3>1. PICK q \in States, m \in Letters : q = a /\ m = symbol
      BY <1>1, <1>4 DEF a
    <3>2. Owed' = [Owed EXCEPT ![<<q, m>>] = @ + 1]
      BY <2>3, <3>1, OwedEntry
    <3>. QED
      BY <3>1, <3>2
  <2>5. A!End
    BY <1>1, <1>2, <1>6, <2>1, <2>2, <2>4 DEF A!End, a
  <2>. QED
    BY <2>5 DEF A!Next
<1>. QED
  BY <1>5, <1>6

(* A state reads the end of a word and tells the user. *)
LEMMA EndIsTold ==
  ASSUME Orderly, NEW i \in States, NEW m \in Ends, pc[i] = "reply", pc' = [pc EXCEPT ![i] = "loop"],
         pipe_s[i] # <<>>, Head(pipe_s[i]) = m, pipe_s' = [pipe_s EXCEPT ![i] = Tail(@)],
         screen' = <<i, IF m # EOI THEN "INVALID" ELSE IF i \in Final THEN "ACCEPT" ELSE "REJECT">>,
         UNCHANGED <<cpc, input>>
  PROVE  A!Next
<1>1. m \in Letters /\ m \notin Symbols
  BY Alphabet
<1>2. /\ \A j \in States : j # i => pipe_s'[j] = pipe_s[j] /\ pc'[j] = pc[j]
      /\ pc'[i] = "loop"
  BY DEF Orderly, Types
<1>3. Owes(i, m)
  BY <1>1 DEF Owes
<1>4. \A l \in Letters : ~ Owes(i, l)'
  BY <1>2 DEF Owes
<1>5. \A j \in States, l \in Letters : <<j, l>> # <<i, m>> => (Owes(j, l)' <=> Owes(j, l))
  <2> SUFFICES ASSUME NEW j \in States, NEW l \in Letters, j # i \/ l # m
               PROVE  Owes(j, l)' <=> Owes(j, l)
    OBVIOUS
  <2>1. CASE j # i
    BY <2>1, <1>2 DEF Owes
  <2>2. CASE j = i
    BY <2>2, <1>4 DEF Owes
  <2>. QED
    BY <2>1, <2>2
<1>6. Owed' = [Owed EXCEPT ![<<i, m>>] = @ + (-1)] /\ Owed[<<i, m>>] > 0
  BY <1>1, <1>3, <1>4, <1>5, OwedEntry
<1>7. Owed[<<i, m>>] + (-1) = Owed[<<i, m>>] - 1
  BY <1>1, OwedIs
<1>8. Owed' = [Owed EXCEPT ![<<i, m>>] = @ - 1]
  BY <1>6, <1>7
<1>9. UNCHANGED <<word, cur_idx, Reading, At>>
  BY DEF Reading, At, input
<1>10. A!Tell(i, m)
  BY <1>6, <1>8, <1>9 DEF A!Tell, A!Told
<1>. QED
  BY <1>1, <1>10 DEF A!Next

LEMMA AnswerTells == ASSUME Orderly, NEW i \in States, Answer(i) PROVE A!Next
<1>1. EOI \in Ends
  BY Alphabet
<1>. QED
  BY <1>1, EndIsTold DEF Answer, Receive, Verdict

LEMMA ComplainTells == ASSUME Orderly, NEW i \in States, Complain(i) PROVE A!Next
<1>1. PICK m \in Letters \ (Symbols \cup {EOI, QUIT}) : Receive(i, m)
  BY DEF Complain
<1>2. m \in Ends /\ m # EOI /\ pc[i] = "reply" /\ pipe_s[i] # <<>> /\ Head(pipe_s[i]) = m
  BY <1>1, Alphabet DEF Complain, Receive
<1>3. /\ pipe_s' = [pipe_s EXCEPT ![i] = Tail(@)] /\ pc' = [pc EXCEPT ![i] = "loop"]
      /\ screen' = <<i, "INVALID">> /\ UNCHANGED <<cpc, input>>
  BY <1>1 DEF Complain, Receive
<1>. QED
  BY <1>2, <1>3, EndIsTold

(* The steps between the states are none of the automaton's. *)
LEMMA AnnounceStutters == ASSUME Orderly, NEW i \in States, Announce(i) PROVE UNCHANGED A!vars
<1>1. /\ UNCHANGED <<cpc, input, screen>> /\ pipe_s' = [pipe_s EXCEPT ![i] = Tail(@)]
      /\ pipe_s[i] # <<>> /\ pc[i] = "loop" /\ pc' = [pc EXCEPT ![i] = "reply"]
      /\ DOMAIN pipe_s = States /\ DOMAIN pc = States
  BY DEF Announce, Receive, Orderly, Types
<1>2. Tail(pipe_s[i]) = <<>>
  BY <1>1, FirstMessage, Alphabet, Short
<1>3. pipe_s'[i] = <<>> /\ \A j \in States : j # i => pipe_s'[j] = pipe_s[j] /\ pc'[j] = pc[j]
  BY <1>1, <1>2
<1>4. \A j \in States, m \in Letters : Owes(j, m)' <=> Owes(j, m)
  <2>1. \A m \in Letters : ~ Owes(i, m)' /\ ~ Owes(i, m)
    BY <1>1, <1>3, Alphabet DEF Owes
  <2>2. \A j \in States, m \in Letters : j # i => (Owes(j, m)' <=> Owes(j, m))
    BY <1>3 DEF Owes
  <2>. QED
    BY <2>1, <2>2
<1>5. Owed' = Owed
  BY <1>4, OwedSame
<1>6. UNCHANGED <<word, cur_idx, Reading, At>>
  BY <1>1 DEF Reading, At, input
<1>. QED
  BY <1>1, <1>5, <1>6 DEF A!vars

LEMMA PassStutters == ASSUME Orderly, NEW i \in States, Pass(i) PROVE UNCHANGED A!vars
<1>. DEFINE c == Head(pipe_s[i])
            j == delta[i][c]
<1>1. /\ UNCHANGED <<cpc, input, screen>> /\ DOMAIN pipe_s = States /\ DOMAIN pc = States
      /\ pipe_s' = [[pipe_s EXCEPT ![i] = Tail(@)] EXCEPT ![j] = Append(@, TRANSITION)]
      /\ pipe_s[i] # <<>> /\ c \in Symbols /\ pc[i] = "reply" /\ pc' = [pc EXCEPT ![i] = "loop"]
  BY DEF Pass, Orderly, Types
<1>2. j \in States
  BY <1>1, Alphabet
<1>3. Sent /\ i = cur_state /\ Tail(pipe_s[i]) = <<>>
  BY <1>1, FirstMessage, Short
<1>4. \A m \in Letters : ~ Owes(i, m)
  BY <1>1 DEF Owes
<1>. HIDE DEF c, j
<1>5. /\ pc'[i] = "loop" /\ \A q \in States : q # i => pc'[q] = pc[q]
      /\ \A q \in States : q # i /\ q # j => pipe_s'[q] = pipe_s[q]
      /\ j # i => pipe_s'[i] = <<>> /\ pipe_s'[j] = Append(pipe_s[j], TRANSITION)
      /\ j = i => pipe_s'[j] = Append(<<>>, TRANSITION)
  BY <1>1, <1>2, <1>3
<1>6. \A m \in Letters : ~ Owes(i, m)'
  BY <1>5 DEF Owes
<1>7. \A q \in States, m \in Letters : q # i => (Owes(q, m)' <=> Owes(q, m))
  <2> SUFFICES ASSUME NEW q \in States, q # i PROVE \A m \in Letters : Owes(q, m)' <=> Owes(q, m)
    OBVIOUS
  <2>1. CASE q = j
    <3>1. Quiet(q)
      BY <1>3 DEF Sent, OthersQuiet
    <3>2. pipe_s'[q] = Append(pipe_s[q], TRANSITION)
      BY <2>1, <1>5
    <3>. QED
      BY <3>1, <3>2, <1>5, CallOwesNothing
  <2>2. CASE q # j
    BY <2>2, <1>5 DEF Owes
  <2>. QED
    BY <2>1, <2>2
<1>8. Owed' = Owed
  BY <1>4, <1>6, <1>7, OwedSame
<1>9. UNCHANGED <<word, cur_idx, Reading, At>>
  BY <1>1 DEF Reading, At, input
<1>. QED
  BY <1>1, <1>8, <1>9 DEF A!vars

LEMMA StepRefines ==
  ASSUME Inv, [Next]_vars
  PROVE  spoilt \/ Interrupted' \/ A!Next \/ UNCHANGED A!vars
<1> SUFFICES ASSUME ~ spoilt, ~ Interrupted' PROVE A!Next \/ UNCHANGED A!vars
  OBVIOUS
<1>1. CASE UNCHANGED vars
  BY <1>1 DEF vars, input, A!vars, Reading, At, Owed
<1>2. CASE Next
  <2>1. Orderly
    BY <1>2, Stable DEF Inv
  <2>2. CASE Coordinator
    <3>1. SendSymbol
      BY <2>1, <2>2, CrashNeedsNumber DEF Coordinator, SendQuit, Reap, Orderly, Types
    <3>. QED
      BY <2>1, <3>1, SendSymbolReads
  <2>3. CASE ReadWord
    BY <2>1, <2>3, ReadWordBegins
  <2>4. CASE handleInterrupt
    BY <2>4 DEF handleInterrupt, Interrupted
  <2>5. ASSUME NEW i \in States, State(i) PROVE A!Next \/ UNCHANGED A!vars
    <3>1. CASE quit(i)
      <4>1. pipe_s[i] # <<>> /\ Head(pipe_s[i]) = QUIT
        BY <3>1 DEF quit, Receive
      <4>. QED
        BY <4>1, <2>1, FirstMessage, Alphabet
    <3>2. CASE Ignore(i)
      <4>1. pipe_s[i] # <<>> /\ Head(pipe_s[i]) # TRANSITION /\ pc[i] = "loop"
        BY <3>2 DEF Ignore, Receive
      <4>. QED
        BY <4>1, <2>1, FirstMessage, Alphabet
    <3>. QED
      BY <2>1, <2>5, <3>1, <3>2, AnnounceStutters, AnswerTells, ComplainTells, PassStutters DEF State
  <2>. QED
    BY <1>2, <2>2, <2>3, <2>4, <2>5 DEF Next
<1>. QED
  BY <1>1, <1>2

LEMMA InitRefines == Init => A!Init
<1> SUFFICES ASSUME Init PROVE A!Init
  OBVIOUS
<1>1. Reading = FALSE /\ At = 0 /\ word = <<>> /\ cur_idx = 0 /\ screen = <<0, "START">>
  BY DEF Init, Reading, At
<1>2. \A i \in States, m \in Letters : ~ Owes(i, m)
  BY DEF Init, Owes
<1>4. Owed = [e \in States \X Letters |-> 0]
  <2>1. \A e \in States \X Letters : ~ Owes(e[1], e[2])
    BY <1>2
  <2>. QED
    BY <2>1, OwedIs
<1>. QED
  BY <1>1, <1>4 DEF A!Init

(* Until a '#' is in a pipe, a '!' is sent, words are typed ahead or       *)
(* SIGINT comes, the processes of rundfa.cpp are the automaton of the      *)
(* table: whatever the table and the lines, however many states, and       *)
(* however slow each is.                                                   *)
THEOREM RunDfaIsAutomaton == Spec => Refines
<1>1. Inv /\ [Next]_vars => [spoilt \/ Interrupted' \/ A!Next]_(A!vars)
  BY StepRefines
<1>. QED
  BY <1>1, InitRefines, OneStateAtATime, PTL DEF Spec, Refines
-----------------------------------------------------------------------------
(* Types, for spoilt words and after SIGINT as well.  The handler counts   *)
(* no further than the states: it waits for the one it has told to quit.   *)
Numbers  == States \cup {INVALID}
Reaped   == cpc = "waitpid" => k < n
Ahead    == Seq(Letters) \ {<<>>}
TypeInv  == TypeOK /\ Reaped

LEMMA TypeInit == Init => TypeInv
<1>. SUFFICES ASSUME Init PROVE TypeInv
  OBVIOUS
<1>1. n \in Nat /\ 0 \in States /\ 0 \in 0 .. n /\ 0 \in 0 .. MaxWords
  BY RunDfaAssumption DEF States
<1>. QED
  BY <1>1 DEF Init, TypeInv, TypeOK, Reaped

(* A message is added to a pipe, or the first one is taken from it.        *)
LEMMA Written ==
  ASSUME pipe_s \in [States -> Seq(Letters)], NEW i \in States, NEW m \in Letters, Write(i, m)
  PROVE  pipe_s' \in [States -> Seq(Letters)]
<1>1. Append(pipe_s[i], m) \in Seq(Letters)
  BY AppendProperties
<1>. QED
  BY <1>1 DEF Write

LEMMA Taken ==
  ASSUME pipe_s \in [States -> Seq(Letters)], NEW i \in States, NEW m, Receive(i, m)
  PROVE  m \in Letters /\ pipe_s' \in [States -> Seq(Letters)]
<1>1. Head(pipe_s[i]) \in Letters /\ Tail(pipe_s[i]) \in Seq(Letters)
  BY HeadTailProperties DEF Receive
<1>. QED
  BY <1>1 DEF Receive

LEMMA ReadWordTypes == TypeInv /\ ReadWord => TypeInv'
<1>. SUFFICES ASSUME TypeInv, ReadWord PROVE TypeInv'
  OBVIOUS
<1>1. /\ cpc = "prompt" /\ cpc' = "read" /\ words < MaxWords /\ words' = words + 1
      /\ cur_idx' = 0 /\ cur_state' = 0 /\ Write(0, TRANSITION)
      /\ UNCHANGED <<k, pc, pipe_c, screen>>
  BY DEF ReadWord
<1>2. pipe_s' \in [States -> Seq(Letters)]
  <2>1. 0 \in States /\ TRANSITION \in Letters
    BY Alphabet 
  <2>. QED
    BY <1>1, <2>1, Written DEF TypeInv, TypeOK
<1>3. /\ word' \in Seq(Letters) /\ typed' \in Seq(Ahead)
      /\ inbuf' \in Seq(Numbers) /\ spoilt' \in BOOLEAN /\ (spoilt' \/ typed' = <<>>)
  <2>0. /\ typed \in Seq(Ahead) /\ inbuf \in Seq(Numbers) /\ spoilt \in BOOLEAN
        /\ <<"?">> \in Seq(Letters) /\ (spoilt \/ typed = <<>>)
    BY Alphabet DEF TypeInv, TypeOK, Numbers, Ahead
  <2>1. CASE TypedAhead
    <3>1. Head(typed) \in Ahead /\ Tail(typed) \in Seq(Ahead)
      BY <2>0, <2>1, HeadTailProperties DEF TypedAhead
    <3>. QED
      BY <2>0, <2>1, <3>1 DEF TypedAhead, Ahead
  <2>2. CASE LeftInBuffer
    <3>1. PICK i \in 1 .. Len(inbuf) : inbuf' = SubSeq(inbuf, i + 1, Len(inbuf))
      BY <2>2 DEF LeftInBuffer
    <3>2. inbuf' \in Seq(Numbers)
      BY <2>0, <3>1
    <3>. QED
      BY <2>0, <2>2, <3>2 DEF LeftInBuffer
  <2>3. CASE Line
    <3>1. PICK line \in Lines : /\ word' = IF inbuf = <<>> THEN Head(line) ELSE <<"?">>
                                /\ typed' = Tail(line)
                                /\ spoilt' = (spoilt \/ typed' # <<>>)
      BY <2>3 DEF Line
    <3>2. line \in Seq(Ahead) /\ line # <<>>
      BY RunDfaAssumption DEF Ahead
    <3>3. Head(line) \in Seq(Letters) /\ Tail(line) \in Seq(Ahead)
      BY <3>2, HeadTailProperties DEF Ahead
    <3>4. inbuf' = <<>>
      BY <2>3 DEF Line
    <3>5. word' \in Seq(Letters)
      BY <2>0, <3>1, <3>3
    <3>6. spoilt' \in BOOLEAN /\ (spoilt' \/ typed' = <<>>)
      BY <3>1
    <3>. QED
      BY <3>1, <3>3, <3>4, <3>5, <3>6
  <2>. QED
    BY <2>1, <2>2, <2>3 DEF ReadWord
<1>4. words' \in 0 .. MaxWords /\ 0 \in 0 .. Len(word') /\ 0 \in States
  <2>1. words \in 0 .. MaxWords /\ MaxWords \in Nat
    BY RunDfaAssumption DEF TypeInv, TypeOK
  <2>2. Len(word') \in Nat
    BY <1>3, LenProperties
  <2>. QED
    BY <1>1, <2>1, <2>2, Alphabet
<1>5. cur_state' \in Int /\ cpc' # "crash" /\ cpc' # "waitpid"
  BY <1>1
<1>6. /\ k \in 0 .. n /\ pc \in [States -> {"loop", "reply", "dead"}] /\ pipe_c \in Seq(Numbers)
      /\ screen \in States \X {"START", "ACCEPT", "REJECT", "INVALID"}
  BY DEF TypeInv, TypeOK, Numbers
<1>. QED
  BY <1>1, <1>2, <1>3, <1>4, <1>5, <1>6 DEF TypeInv, TypeOK, Reaped, Numbers, Ahead

(* Whatever scanf("%d") finds; only with words ahead is it no state. *)
LEMMA ScanStateTypes ==
  ASSUME TypeInv, ScanState
  PROVE  /\ cur_state' \in Int /\ typed' \in Seq(Ahead)
         /\ inbuf' \in Seq(Numbers) /\ pipe_c' \in Seq(Numbers)
         /\ spoilt \/ (cur_state' \in States /\ typed' = <<>>)
<1>. DEFINE got == IF inbuf = <<>> THEN pipe_c ELSE inbuf
            first == Head(typed)
<1>1. /\ cur_state \in Int /\ inbuf \in Seq(Numbers) /\ pipe_c \in Seq(Numbers)
      /\ typed \in Seq(Ahead) /\ <<>> \in Seq(Numbers)
      /\ spoilt \/ (cur_state \in States /\ typed = <<>>)
  BY DEF TypeInv, TypeOK, Numbers, Ahead
<1>2. CASE UNCHANGED <<cur_state, typed, inbuf, pipe_c>>
  BY <1>1, <1>2
<1>3. CASE typed # <<>> /\ Head(first) \in Numerals /\ cur_state' = value[Head(first)]
           /\ typed' = (IF Tail(first) = <<>> THEN <<>> ELSE <<Tail(first)>>) \o Tail(typed)
           /\ UNCHANGED <<inbuf, pipe_c>>
  <2>1. value[Head(first)] \in Int
    BY <1>3, RunDfaAssumption
  <2>2. first \in Seq(Letters) /\ first # <<>> /\ Tail(typed) \in Seq(Ahead)
    BY <1>1, <1>3, HeadTailProperties DEF Ahead
  <2>3. Tail(first) \in Seq(Letters)
    BY <2>2, HeadTailProperties
  <2>. HIDE DEF first
  <2>4. (IF Tail(first) = <<>> THEN <<>> ELSE <<Tail(first)>>) \in Seq(Ahead)
    <3>1. CASE Tail(first) = <<>>
      BY <3>1
    <3>2. CASE Tail(first) # <<>>
      <4>. DEFINE rest == Tail(first)
      <4>1. rest \in Ahead
        BY <2>3, <3>2 DEF Ahead
      <4>. HIDE DEF rest
      <4>2. <<rest>> \in Seq(Ahead)
        BY <4>1
      <4>. QED
        BY <3>2, <4>2 DEF rest
    <3>. QED
      BY <3>1, <3>2
  <2>5. typed' \in Seq(Ahead)
    BY <1>3, <2>2, <2>4, ConcatProperties
  <2>. QED
    BY <1>1, <1>3, <2>1, <2>5
<1>4. CASE /\ typed = <<>> /\ UNCHANGED typed /\ got # <<>>
           /\ pipe_c' = IF inbuf = <<>> THEN <<>> ELSE pipe_c
           /\ IF Head(got) = INVALID THEN inbuf' = got /\ UNCHANGED cur_state
              ELSE inbuf' = Tail(got) /\ cur_state' = Head(got)
  <2>1. got \in Seq(Numbers)
    BY <1>1
  <2>. HIDE DEF got
  <2>2. Head(got) \in Numbers /\ Tail(got) \in Seq(Numbers)
    BY <1>4, <2>1, HeadTailProperties
  <2>3. States \subseteq Int
    BY RunDfaAssumption DEF States
  <2>. QED
    BY <1>1, <1>4, <2>1, <2>2, <2>3 DEF Numbers
<1>. QED
  BY <1>2, <1>3, <1>4 DEF ScanState

(* The index of the word, and what it holds. *)
LEMMA SymbolTypes ==
  ASSUME TypeInv
  PROVE  symbol \in Letters /\ (symbol \in Symbols => cur_idx + 1 \in 0 .. Len(word))
<1>1. word \in Seq(Letters) /\ Len(word) \in Nat /\ cur_idx \in 0 .. Len(word)
  BY LenProperties DEF TypeInv, TypeOK
<1>2. CASE cur_idx = Len(word)
  BY <1>2, Alphabet DEF symbol
<1>3. CASE cur_idx # Len(word)
  <2>1. cur_idx + 1 \in 1 .. Len(word)
    BY <1>1, <1>3
  <2>2. word[cur_idx + 1] \in Letters
    BY <1>1, <2>1, ElementOfSeq
  <2>. QED
    BY <1>3, <2>1, <2>2 DEF symbol
<1>. QED
  BY <1>2, <1>3

LEMMA SendSymbolTypes == TypeInv /\ SendSymbol => TypeInv'
<1>. SUFFICES ASSUME TypeInv, SendSymbol PROVE TypeInv'
  OBVIOUS
<1>1. /\ ScanState /\ SendTo(cur_state') /\ cpc = "read"
      /\ UNCHANGED <<word, words, k, pc, screen>> /\ spoilt' = (spoilt \/ symbol = QUIT)
  BY DEF SendSymbol
<1>2. pipe_s' \in [States -> Seq(Letters)]
  <2>1. pipe_s \in [States -> Seq(Letters)] /\ symbol \in Letters
    BY SymbolTypes DEF TypeInv, TypeOK
  <2>. QED
    BY <1>1, <2>1, Written DEF SendTo
<1>3. cpc' \in {"prompt", "read"} /\ cur_idx' \in 0 .. Len(word)
  BY SymbolTypes DEF SendSymbol, TypeInv, TypeOK
<1>4. spoilt' \in BOOLEAN /\ (spoilt => spoilt')
  BY <1>1
<1>. QED
  BY <1>1, <1>2, <1>3, <1>4, ScanStateTypes DEF TypeInv, TypeOK, Reaped, Numbers, Ahead

LEMMA CrashTypes == TypeInv /\ Crash => TypeInv'
<1>. SUFFICES ASSUME TypeInv, Crash PROVE TypeInv'
  OBVIOUS
<1>1. /\ ScanState /\ cur_state' \notin States /\ cpc' = "crash"
      /\ UNCHANGED <<word, cur_idx, words, k, pc, pipe_s, screen, spoilt>>
  BY DEF Crash
<1>. QED
  BY <1>1, ScanStateTypes DEF TypeInv, TypeOK, Reaped, Numbers, Ahead

LEMMA EndTypes == TypeInv /\ (handleInterrupt \/ SendQuit \/ Reap) => TypeInv'
<1>1. ASSUME TypeInv, handleInterrupt PROVE TypeInv'
  BY <1>1 DEF handleInterrupt, TypeInv, TypeOK, Reaped, input
<1>2. ASSUME TypeInv, SendQuit PROVE TypeInv'
  <2>1. k \in States /\ QUIT \in Letters /\ k < n
    BY <1>2, RunDfaAssumption, Alphabet DEF SendQuit, TypeInv, TypeOK, States
  <2>2. pipe_s' \in [States -> Seq(Letters)]
    BY <1>2, <2>1, Written DEF SendQuit, TypeInv, TypeOK
  <2>. QED
    BY <1>2, <2>1, <2>2 DEF SendQuit, TypeInv, TypeOK, Reaped, input
<1>3. ASSUME TypeInv, Reap PROVE TypeInv'
  <2>1. k' \in 0 .. n /\ cpc' \in {"interrupt", "end"}
    BY <1>3, RunDfaAssumption DEF Reap, TypeInv, TypeOK, Reaped
  <2>. QED
    BY <1>3, <2>1 DEF Reap, TypeInv, TypeOK, Reaped, input
<1>. QED
  BY <1>1, <1>2, <1>3

LEMMA StateTypes == ASSUME TypeInv, NEW i \in States, State(i) PROVE TypeInv'
<1>0. /\ pipe_s \in [States -> Seq(Letters)] /\ pc \in [States -> {"loop", "reply", "dead"}]
      /\ pipe_c \in Seq(Numbers) /\ i \in Numbers /\ INVALID \in Numbers
      /\ screen \in States \X {"START", "ACCEPT", "REJECT", "INVALID"} /\ spoilt \in BOOLEAN
  BY DEF TypeInv, TypeOK, Numbers
<1>1. pipe_s' \in [States -> Seq(Letters)]
  <2>1. CASE Pass(i)
    <3>. DEFINE m == Head(pipe_s[i])
                q == [pipe_s EXCEPT ![i] = Tail(@)]
    <3>1. /\ pipe_s[i] # <<>> /\ m \in Symbols
          /\ pipe_s' = [q EXCEPT ![delta[i][m]] = Append(@, TRANSITION)]
      BY <2>1 DEF Pass
    <3>2. delta[i][m] \in States /\ TRANSITION \in Letters
      BY <3>1, Alphabet 
    <3>3. Tail(pipe_s[i]) \in Seq(Letters)
      BY <1>0, <3>1, HeadTailProperties
    <3>4. q \in [States -> Seq(Letters)]
      BY <1>0, <3>3
    <3>. HIDE DEF q, m
    <3>5. Append(q[delta[i][m]], TRANSITION) \in Seq(Letters)
      BY <3>2, <3>4, AppendProperties
    <3>. QED
      BY <3>1, <3>2, <3>4, <3>5
  <2>2. CASE \E m \in Letters : Receive(i, m)
    BY <1>0, <2>2, Taken
  <2>. QED
    BY <2>1, <2>2 DEF State, quit, Announce, Ignore, Answer, Complain, Letters
<1>2. pc' \in [States -> {"loop", "reply", "dead"}]
  <2>1. CASE quit(i)
    BY <1>0, <2>1 DEF quit
  <2>2. CASE ~ quit(i)
    BY <1>0, <2>2 DEF State, Announce, Ignore, Answer, Complain, Pass
  <2>. QED
    BY <2>1, <2>2
<1>3. pipe_c' \in Seq(Numbers)
  <2>1. Append(pipe_c, i) \in Seq(Numbers) /\ Append(pipe_c, INVALID) \in Seq(Numbers)
    BY <1>0, AppendProperties
  <2>. QED
    BY <1>0, <2>1 DEF State, quit, Announce, Ignore, Answer, Complain, Pass
<1>4. /\ screen' \in States \X {"START", "ACCEPT", "REJECT", "INVALID"}
      /\ spoilt' \in BOOLEAN /\ (spoilt => spoilt')
  <2>1. /\ screen' = screen \/ screen' = <<i, Verdict(i)>> \/ screen' = <<i, "INVALID">>
        /\ spoilt' = spoilt \/ spoilt' = TRUE
    BY DEF State, quit, Announce, Ignore, Answer, Complain, Pass
  <2>2. Verdict(i) \in {"ACCEPT", "REJECT"}
    BY DEF Verdict
  <2>3. spoilt' \in BOOLEAN /\ (spoilt => spoilt')
    <3>1. CASE spoilt' = spoilt
      BY <1>0, <3>1
    <3>2. CASE spoilt' = TRUE
      BY <3>2
    <3>. QED
      BY <2>1, <3>1, <3>2
  <2>4. screen' \in States \X {"START", "ACCEPT", "REJECT", "INVALID"}
    <3>1. /\ <<i, Verdict(i)>> \in States \X {"START", "ACCEPT", "REJECT", "INVALID"}
          /\ <<i, "INVALID">> \in States \X {"START", "ACCEPT", "REJECT", "INVALID"}
      BY <2>2
    <3>. QED
      BY <1>0, <2>1, <3>1, Zenon
  <2>. QED
    BY <2>3, <2>4
<1>5. UNCHANGED <<cpc, input, k>>
  BY DEF State, quit, Announce, Ignore, Answer, Complain, Pass
<1>. QED
  BY <1>1, <1>2, <1>3, <1>4, <1>5 DEF TypeInv, TypeOK, Reaped, input, Numbers

(* Whatever is typed, and when, every variable keeps to its type: no index *)
(* leaves its word, the handler of SIGINT counts the states it reaps, and  *)
(* cur_state is the number of a state until words were typed ahead ('#' or *)
(* '!' sent): only then may it index pipe_s out of range, and crash the    *)
(* coordinator.                                                            *)
THEOREM AutomatonTypes == Spec => []TypeOK
<1>1. Init => TypeInv
  BY TypeInit
<1>2. TypeInv /\ [Next]_vars => TypeInv'
  <2>. SUFFICES ASSUME TypeInv, [Next]_vars PROVE TypeInv'
    OBVIOUS
  <2>1. CASE UNCHANGED vars
    BY <2>1 DEF vars, input, TypeInv, TypeOK, Reaped
  <2>. QED
    BY <2>1, ReadWordTypes, SendSymbolTypes, CrashTypes, EndTypes, StateTypes DEF Next, Coordinator
<1>3. TypeInv => TypeOK
  BY DEF TypeInv
<1>. QED
  BY <1>1, <1>2, <1>3, PTL DEF Spec
=============================================================================
