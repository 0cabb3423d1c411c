------------------------- MODULE WatchStreamProofs --------------------------
(***************************************************************************)
(* One stream of /watch, for any set of frames and any number of them: its *)
(* types, FramesDispatched and CutInventsNothing.                          *)
(*                                                                         *)
(* The model's loops are functions defined by recursion.  What their       *)
(* definitions say is proved first, by an induction over sets of numbers.  *)
(* Then one call of emitWatchEvent is shown to do what its lines stand     *)
(* for, and no part of a frame that agrees with itself to stand for        *)
(* another event.  The inductive invariant, StreamInv, numbers the lines   *)
(* of the stream: it says where the reader is in them, that the fields it  *)
(* holds are those of the lines it has read of one frame, and that it has  *)
(* sent what the frames before that one stand for.                         *)
(***************************************************************************)
EXTENDS WatchStream, SequenceTheorems, WellFoundedInduction, TLAPS

(* A set of numbers that has 0 and with each number the next is all of Nat. *)
LEMMA Induction ==
    ASSUME NEW S, 0 \in S, \A n \in Nat : n \in S => n + 1 \in S
    PROVE  Nat \subseteq S
<1> DEFINE T == Nat \ S
<1>1. SUFFICES ASSUME T # {} PROVE FALSE
  OBVIOUS
<1>2. PICK n \in T : \A m \in T : ~(<<m, n>> \in OpToRel(<, Nat))
  BY <1>1, WFMin, NatLessThanWellFounded
<1>3. \A m \in T : ~(m < n)
  BY <1>2 DEF OpToRel
<1>4. n # 0 /\ n - 1 \in Nat /\ n - 1 < n /\ n = (n - 1) + 1
  OBVIOUS
<1>5. n - 1 \in S
  BY <1>3, <1>4
<1> QED
  BY <1>4, <1>5

(* A function defined by recursion on the numbers up to n exists, and its  *)
(* values are where its steps lead.                                        *)
Steps(n, S) == [1..n -> [S -> S]]
Leads(f, n, S, b, step) ==
    f \in [0..n -> S] /\ f[0] = b /\ \A i \in 1..n : f[i] = step[i][f[i-1]]

LEMMA Recursion ==
    ASSUME NEW n \in Nat, NEW S, NEW b \in S, NEW step \in Steps(n, S)
    PROVE  \E f : Leads(f, n, S, b, step)
<1> DEFINE P == {m \in Nat : m <= n => \E f : Leads(f, m, S, b, step)}
<1>1. 0 \in P
  <2>1. Leads([i \in 0..0 |-> b], 0, S, b, step)
    BY DEF Leads
  <2> QED
    BY <2>1
<1>2. ASSUME NEW m \in Nat, m \in P PROVE m + 1 \in P
  <2>1. SUFFICES ASSUME m + 1 <= n PROVE \E f : Leads(f, m + 1, S, b, step)
    OBVIOUS
  <2>2. PICK f : Leads(f, m, S, b, step)
    BY <1>2, <2>1
  <2> DEFINE g == [i \in 0..m+1 |-> IF i = m + 1 THEN step[i][f[m]] ELSE f[i]]
  <2>3. step[m+1] \in [S -> S] /\ f[m] \in S
    BY <2>1, <2>2 DEF Leads, Steps
  <2>4. g \in [0..m+1 -> S]
    BY <2>2, <2>3 DEF Leads
  <2>5. ASSUME NEW i \in 1..m+1 PROVE g[i] = step[i][g[i-1]]
    <3>1. CASE i = m + 1
      BY <3>1
    <3>2. CASE i # m + 1
      <4>1. i \in 1..m /\ g[i] = f[i] /\ i - 1 \in 0..m /\ g[i-1] = f[i-1]
        BY <3>2
      <4>2. f[i] = step[i][f[i-1]]
        BY <2>2, <4>1 DEF Leads
      <4> QED
        BY <4>1, <4>2
    <3> QED
      BY <3>1, <3>2
  <2>6. g[0] = b
    BY <2>2 DEF Leads
  <2>7. Leads(g, m + 1, S, b, step)
    BY <2>4, <2>5, <2>6 DEF Leads
  <2> QED
    BY <2>7
<1>3. n \in P
  BY <1>1, <1>2, Induction
<1> QED
  BY <1>3

(* Whatever follows the steps has those values.                            *)
LEMMA RecursionTyped ==
    ASSUME NEW n \in Nat, NEW S, NEW step \in Steps(n, S),
           NEW f, f[0] \in S,
           \A i \in 1..n : f[i-1] \in S => f[i] = step[i][f[i-1]]
    PROVE  \A i \in 0..n : f[i] \in S
<1> DEFINE P == {m \in Nat : m <= n => f[m] \in S}
<1>1. 0 \in P
  OBVIOUS
<1>2. ASSUME NEW m \in Nat, m \in P PROVE m + 1 \in P
  <2>1. SUFFICES ASSUME m + 1 <= n PROVE f[m+1] \in S
    OBVIOUS
  <2>2. m + 1 \in 1..n /\ (m + 1) - 1 = m /\ f[m] \in S
    BY <1>2, <2>1
  <2>3. f[m+1] = step[m+1][f[m]]
    BY <2>2
  <2> QED
    BY <2>2, <2>3 DEF Steps
<1>3. Nat \subseteq P
  BY <1>1, <1>2, Induction
<1> QED
  BY <1>3

-----------------------------------------------------------------------------
(* The loops: each is a function on the prefixes of a sequence, and what   *)
(* its definition says of it is true.                                      *)

LEMMA NotBlankLoop ==
    ASSUME NEW T, NEW data \in Seq(T)
    PROVE  /\ NotBlank(data) \in [0..Len(data) -> Seq(T)]
           /\ NotBlank(data)[0] = <<>>
           /\ \A n \in 1..Len(data) : NotBlank(data)[n] =
                 IF data[n] = "blank" THEN NotBlank(data)[n-1]
                 ELSE Append(NotBlank(data)[n-1], data[n])
<1> DEFINE N == Len(data)
           S == Seq(T)
           Step(n, k) == IF data[n] = "blank" THEN k ELSE Append(k, data[n])
           step == [n \in 1..N |-> [k \in S |-> Step(n, k)]]
           first == <<>>
           Loop(f) == f = [n \in 0..N |-> IF n = 0 THEN first ELSE Step(n, f[n-1])]
           kept == NotBlank(data)
<1>1. N \in Nat /\ first \in S
  OBVIOUS
<1>2. \A n \in 1..N, k \in S : Step(n, k) \in S
  <2>1. \A n \in 1..N : data[n] \in T
    OBVIOUS
  <2>2. \A n \in 1..N, k \in S : Append(k, data[n]) \in S
    BY <2>1
  <2> QED
    BY <2>2
<1>3. kept = CHOOSE f : Loop(f)
  BY DEF NotBlank
<1> HIDE DEF S, Step, N, kept, first
<1>4. step \in Steps(N, S) /\ \A n \in 1..N, k \in S : step[n][k] = Step(n, k)
  BY <1>2 DEF Steps
<1> HIDE DEF step
<1>5. PICK f : Leads(f, N, S, first, step)
  BY <1>1, <1>4, Recursion
<1>6. Loop(f)
  <2>1. \A n \in 1..N : n - 1 \in 0..N /\ f[n-1] \in S
    BY <1>1, <1>5 DEF Leads
  <2>2. \A n \in 1..N : f[n] = Step(n, f[n-1])
    BY <1>4, <1>5, <2>1 DEF Leads
  <2> QED
    BY <1>1, <1>5, <2>2 DEF Leads
<1>7. Loop(kept)
  BY <1>3, <1>6
<1>8. /\ kept = [n \in 0..N |-> kept[n]] /\ kept[0] = first
      /\ \A n \in 1..N : kept[n] = Step(n, kept[n-1])
  <2>1. kept = [n \in 0..N |-> kept[n]] /\ 0 \in 0..N
    BY <1>1, <1>7
  <2>2. \A n \in 0..N : kept[n] = IF n = 0 THEN first ELSE Step(n, kept[n-1])
    BY <1>7
  <2>3. \A n \in 1..N : n \in 0..N /\ n # 0
    OBVIOUS
  <2> QED
    BY <2>1, <2>2, <2>3
<1>9. \A n \in 0..N : kept[n] \in S
  <2>1. \A n \in 1..N : kept[n-1] \in S => kept[n] = step[n][kept[n-1]]
    BY <1>4, <1>8
  <2> QED
    BY <1>1, <1>4, <1>8, <2>1, RecursionTyped
<1> QED
  BY <1>8, <1>9 DEF S, N, kept, first, Step

Collections(Names, Data) == [name : Names, id : Values, data : Seq(Data)]

LEMMA CollectTyped ==
    ASSUME NEW Names, NEW Data, NEW c \in Collections(Names, Data), NEW l \in Lines,
           l.field = "event" => l.value \in Names,
           l.field = "data"  => l.value \in Data
    PROVE  Collect(c, l) \in Collections(Names, Data)
<1>1. l.value \in Values
  BY DEF Lines
<1>2. CASE l.field = "data"
  <2>1. Append(c.data, l.value) \in Seq(Data)
    BY <1>2 DEF Collections
  <2>2. Collect(c, l) = [c EXCEPT !.data = Append(@, l.value)]
    BY <1>2 DEF Collect
  <2> QED
    BY <2>1, <2>2 DEF Collections
<1>3. CASE l.field # "data"
  BY <1>1, <1>3 DEF Collect, Collections
<1> QED
  BY <1>2, <1>3

(* The names and the data that are collected are those of the lines.       *)
LEMMA CollectedLoop ==
    ASSUME NEW lines \in Seq(Lines), NEW Names, NEW Data, "blank" \in Names,
           \A n \in 1..Len(lines) :
              /\ lines[n].field = "event" => lines[n].value \in Names
              /\ lines[n].field = "data"  => lines[n].value \in Data
    PROVE  /\ Collected(lines) \in [0..Len(lines) -> Collections(Names, Data)]
           /\ Collected(lines)[0] = NoFields
           /\ \A n \in 1..Len(lines) :
                 Collected(lines)[n] = Collect(Collected(lines)[n-1], lines[n])
<1> DEFINE N == Len(lines)
           S == Collections(Names, Data)
           Step(n, c) == Collect(c, lines[n])
           step == [n \in 1..N |-> [c \in S |-> Step(n, c)]]
           first == NoFields
           Loop(f) == f = [n \in 0..N |-> IF n = 0 THEN first ELSE Step(n, f[n-1])]
           upTo == Collected(lines)
<1>1. N \in Nat /\ first \in S
  BY DEF NoFields, Collections, Values
<1>2. \A n \in 1..N, c \in S : Step(n, c) \in S
  <2>1. \A n \in 1..N : lines[n] \in Lines
    OBVIOUS
  <2> QED
    BY <2>1, CollectTyped
<1>3. upTo = CHOOSE f : Loop(f)
  BY DEF Collected
<1> HIDE DEF S, Step, N, upTo, first
<1>4. step \in Steps(N, S) /\ \A n \in 1..N, c \in S : step[n][c] = Step(n, c)
  BY <1>2 DEF Steps
<1> HIDE DEF step
<1>5. PICK f : Leads(f, N, S, first, step)
  BY <1>1, <1>4, Recursion
<1>6. Loop(f)
  <2>1. \A n \in 1..N : n - 1 \in 0..N /\ f[n-1] \in S
    BY <1>1, <1>5 DEF Leads
  <2>2. \A n \in 1..N : f[n] = Step(n, f[n-1])
    BY <1>4, <1>5, <2>1 DEF Leads
  <2> QED
    BY <1>1, <1>5, <2>2 DEF Leads
<1>7. Loop(upTo)
  BY <1>3, <1>6
<1>8. /\ upTo = [n \in 0..N |-> upTo[n]] /\ upTo[0] = first
      /\ \A n \in 1..N : upTo[n] = Step(n, upTo[n-1])
  <2>1. upTo = [n \in 0..N |-> upTo[n]] /\ 0 \in 0..N
    BY <1>1, <1>7
  <2>2. \A n \in 0..N : upTo[n] = IF n = 0 THEN first ELSE Step(n, upTo[n-1])
    BY <1>7
  <2>3. \A n \in 1..N : n \in 0..N /\ n # 0
    OBVIOUS
  <2> QED
    BY <2>1, <2>2, <2>3
<1>9. \A n \in 0..N : upTo[n] \in S
  <2>1. \A n \in 1..N : upTo[n-1] \in S => upTo[n] = step[n][upTo[n-1]]
    BY <1>4, <1>8
  <2> QED
    BY <1>1, <1>4, <1>8, <2>1, RecursionTyped
<1> QED
  BY <1>8, <1>9 DEF S, N, upTo, first, Step

LEMMA MeantLoop ==
    ASSUME NEW fs \in Seq(SidecarFrames)
    PROVE  /\ MeantBy(fs) \in [0..Len(fs) -> Seq(SidecarFrames)]
           /\ MeantBy(fs)[0] = <<>>
           /\ \A n \in 1..Len(fs) : MeantBy(fs)[n] =
                 IF fs[n].type = "ignored" \/ \E i \in 1..n : fs[i].type = "bad"
                 THEN MeantBy(fs)[n-1] ELSE Append(MeantBy(fs)[n-1], fs[n])
<1> DEFINE N == Len(fs)
           S == Seq(SidecarFrames)
           Step(n, m) == IF fs[n].type = "ignored" \/ \E i \in 1..n : fs[i].type = "bad"
                         THEN m ELSE Append(m, fs[n])
           step == [n \in 1..N |-> [m \in S |-> Step(n, m)]]
           first == <<>>
           Loop(f) == f = [n \in 0..N |-> IF n = 0 THEN first ELSE Step(n, f[n-1])]
           meant == MeantBy(fs)
<1>1. N \in Nat /\ first \in S
  OBVIOUS
<1>2. \A n \in 1..N, m \in S : Step(n, m) \in S
  <2>1. \A n \in 1..N : fs[n] \in SidecarFrames
    OBVIOUS
  <2>2. \A n \in 1..N, m \in S : Append(m, fs[n]) \in S
    BY <2>1
  <2> QED
    BY <2>2
<1>3. meant = CHOOSE f : Loop(f)
  BY DEF MeantBy
<1> HIDE DEF S, Step, N, meant, first
<1>4. step \in Steps(N, S) /\ \A n \in 1..N, m \in S : step[n][m] = Step(n, m)
  BY <1>2 DEF Steps
<1> HIDE DEF step
<1>5. PICK f : Leads(f, N, S, first, step)
  BY <1>1, <1>4, Recursion
<1>6. Loop(f)
  <2>1. \A n \in 1..N : n - 1 \in 0..N /\ f[n-1] \in S
    BY <1>1, <1>5 DEF Leads
  <2>2. \A n \in 1..N : f[n] = Step(n, f[n-1])
    BY <1>4, <1>5, <2>1 DEF Leads
  <2> QED
    BY <1>1, <1>5, <2>2 DEF Leads
<1>7. Loop(meant)
  BY <1>3, <1>6
<1>8. /\ meant = [n \in 0..N |-> meant[n]] /\ meant[0] = first
      /\ \A n \in 1..N : meant[n] = Step(n, meant[n-1])
  <2>1. meant = [n \in 0..N |-> meant[n]] /\ 0 \in 0..N
    BY <1>1, <1>7
  <2>2. \A n \in 0..N : meant[n] = IF n = 0 THEN first ELSE Step(n, meant[n-1])
    BY <1>7
  <2>3. \A n \in 1..N : n \in 0..N /\ n # 0
    OBVIOUS
  <2> QED
    BY <2>1, <2>2, <2>3
<1>9. \A n \in 0..N : meant[n] \in S
  <2>1. \A n \in 1..N : meant[n-1] \in S => meant[n] = step[n][meant[n-1]]
    BY <1>4, <1>8
  <2> QED
    BY <1>1, <1>4, <1>8, <2>1, RecursionTyped
<1> QED
  BY <1>8, <1>9 DEF S, N, meant, first, Step

-----------------------------------------------------------------------------
(* The decoder, frame by frame.                                            *)

LEMMA JoinFacts ==
    ASSUME NEW data \in Seq(Values)
    PROVE  LET text == joinDataLines(data)
           IN /\ text \in Seq(Values)
              /\ \/ text = <<"whole">> /\ "tail" \in ToSet(data)
                 \/ \A i \in 1..Len(text) : text[i] \in ToSet(data)
<1> DEFINE pieces == NotBlank(data)[Len(data)]
<1>1. data \in Seq(ToSet(data)) /\ Len(data) \in 0..Len(data)
  BY DEF ToSet
<1>2. pieces \in Seq(ToSet(data)) /\ pieces \in Seq(Values)
  BY <1>1, NotBlankLoop
<1>3. CASE pieces = <<"head", "tail">>
  <2>1. pieces[2] \in ToSet(data) /\ pieces[2] = "tail"
    BY <1>2, <1>3
  <2>2. joinDataLines(data) = <<"whole">>
    BY <1>3 DEF joinDataLines
  <2>3. <<"whole">> \in Seq(Values)
    BY DEF Values
  <2> QED
    BY <2>1, <2>2, <2>3
<1>4. CASE pieces # <<"head", "tail">>
  <2>1. joinDataLines(data) = pieces
    BY <1>4 DEF joinDataLines
  <2> QED
    BY <1>2, <2>1
<1> QED
  BY <1>3, <1>4

(* What Unmarshal leaves of a document is what the document says.          *)
LEMMA DecodedFacts ==
    ASSUME NEW text \in Seq(Values)
    PROVE  /\ Decoded(text).event = Field(text, "event")
           /\ Decoded(text).message = "ok" <=> Greets(text)
<1>1. CASE IsDocument(text)
  <2>1. /\ Decoded(text).event = Field(text, "event")
        /\ Decoded(text).message = Field(text, "message")
    BY <1>1 DEF Decoded, Unmarshal, Field, Payload, Cleared
  <2> QED
    BY <1>1, <2>1 DEF Greets
<1>2. CASE ~IsDocument(text)
  <2>1. Decoded(text).event = "blank" /\ Field(text, "event") = "blank"
    BY <1>2 DEF Decoded, Field
  <2>2. Decoded(text).message = IF Len(text) = 1 THEN text[1]
                      ELSE IF text = <<>> THEN "blank" ELSE "part"
    BY <1>2 DEF Decoded
  <2>3. text = <<"ok">> <=> Len(text) = 1 /\ text[1] = "ok"
    OBVIOUS
  <2> QED
    BY <1>2, <2>1, <2>2, <2>3 DEF Greets
<1> QED
  BY <1>1, <1>2

(* emitWatchEvent does with a frame what its lines stand for.              *)
LEMMA EmitsDecodes ==
    ASSUME NEW name, NEW id, NEW data \in Seq(Values), NEW next,
           Emits(name, id, data, next)
    PROVE  \/ /\ StandsFor(name, data) = "bad"
              /\ pc' = "returned" /\ result' = "watch_event_parse"
              /\ UNCHANGED <<then, event>>
           \/ /\ StandsFor(name, data) = "ignored"
              /\ IF next = "read" THEN pc' = "read" /\ UNCHANGED result
                                  ELSE pc' = "returned" /\ result' = next
              /\ UNCHANGED <<then, event>>
           \/ /\ StandsFor(name, data) \in Alive
              /\ pc' = "send" /\ then' = next /\ UNCHANGED result
              /\ event'.type = StandsFor(name, data) /\ event'.id = id
<1> DEFINE text == joinDataLines(data)
           e == EventOf(name, id, data)
           named == IF Field(text, "event") # "blank" THEN Field(text, "event") ELSE name
<1>1. CASE BadFrame(data)
  BY <1>1 DEF Emits, Returns, StandsFor
<1>2. CASE ~BadFrame(data)
  <2>1. /\ Decoded(text).event = Field(text, "event")
        /\ Decoded(text).message = "ok" <=> Greets(text)
    BY JoinFacts, DecodedFacts
  <2>2. e.id = id /\ e.type = LET type == IF named = "blank" THEN "message" ELSE named
                  IN IF type = "message" /\ Greets(text) THEN "connected" ELSE type
    BY <2>1 DEF EventOf
  <2>3. StandsFor(name, data) = IF e.type \in Alive THEN e.type ELSE "ignored"
    BY <1>2, <2>2 DEF StandsFor, Alive
  <2>4. CASE Ignored(e)
    BY <1>2, <2>3, <2>4 DEF Emits, Returns, Ignored, Alive
  <2>5. CASE ~Ignored(e)
    BY <1>2, <2>2, <2>3, <2>5 DEF Emits, Ignored, Alive
  <2> QED
    BY <2>4, <2>5
<1> QED
  BY <1>1, <1>2

-----------------------------------------------------------------------------
(* Half a frame.                                                           *)

(* What a cut line adds, and what the lines of a frame hold.               *)
Torn == {"blank", "head", "part"}
ValuesOf(lines, field) ==
    {v \in Values : \E i \in 1..Len(lines) :
                       lines[i].field = field /\ lines[i].value = v}

LEMMA LineSays ==
    ASSUME NEW lines \in Seq(Lines), NEW data \in Seq(Values),
           ToSet(data) \subseteq Torn \cup ValuesOf(lines, "data"),
           IsDocument(joinDataLines(data)) \/ Greets(joinDataLines(data))
    PROVE  \E l \in ToSet(lines) :
             /\ Field(joinDataLines(data), "event") \in Says(l)
             /\ Greets(joinDataLines(data)) => "connected" \in Says(l)
<1> DEFINE text == joinDataLines(data)
           Text(l) == IF l.value = "tail" THEN <<"whole">> ELSE <<l.value>>
<1>1. /\ text \in Seq(Values)
      /\ \/ text = <<"whole">> /\ "tail" \in ToSet(data)
         \/ \A i \in 1..Len(text) : text[i] \in ToSet(data)
  BY JoinFacts
<1> HIDE DEF text
<1>2. /\ text = <<text[1]>> /\ Len(text) = 1
      /\ text[1] \in DOMAIN Documents \cup {"ok"}
  BY <1>1 DEF IsDocument, Greets, text
<1>3. /\ text[1] \notin Torn \cup {"tail"} /\ "tail" \notin Torn
  BY <1>2, WatchStreamAssumption DEF Torn
<1>4. \E v \in ValuesOf(lines, "data") :
        text = IF v = "tail" THEN <<"whole">> ELSE <<v>>
  <2>1. CASE text = <<"whole">> /\ "tail" \in ToSet(data)
    BY <1>3, <2>1
  <2>2. CASE text[1] \in ToSet(data)
    BY <1>2, <1>3, <2>2
  <2> QED
    BY <1>1, <1>2, <2>1, <2>2
<1>5. PICK i \in 1..Len(lines) : lines[i].field = "data" /\ text = Text(lines[i])
  BY <1>4 DEF ValuesOf
<1>6. lines[i] \in ToSet(lines)
  BY DEF ToSet
<1>7. Says(lines[i]) = {Field(text, "event")}
                       \cup (IF Greets(text) THEN {"connected"} ELSE {})
  BY <1>5 DEF Says
<1> QED
  BY <1>6, <1>7 DEF text

(* Of a frame that agrees with itself no part stands for another event.    *)
LEMMA PartsAgree ==
    ASSUME NEW f, f.lines \in Seq(Lines), Agrees(f),
           NEW name, name \in Torn \cup ValuesOf(f.lines, "event"),
           NEW data \in Seq(Values),
           ToSet(data) \subseteq Torn \cup ValuesOf(f.lines, "data"),
           StandsFor(name, data) \in Alive
    PROVE  StandsFor(name, data) = f.type
<1> DEFINE text == joinDataLines(data)
           named == IF Field(text, "event") # "blank" THEN Field(text, "event") ELSE name
<1>1. \/ StandsFor(name, data) = named
      \/ StandsFor(name, data) = "connected" /\ Greets(text)
  BY DEF StandsFor, Alive
<1>2. SUFFICES \E l \in ToSet(f.lines) : StandsFor(name, data) \in Says(l)
  BY DEF Agrees
<1>3. CASE StandsFor(name, data) = "connected" /\ Greets(text)
  BY <1>3, LineSays
<1>4. CASE StandsFor(name, data) = named /\ Field(text, "event") # "blank"
  <2>1. IsDocument(text)
    BY <1>4 DEF Field
  <2> QED
    BY <1>4, <2>1, LineSays
<1>5. CASE StandsFor(name, data) = name
  <2>1. name \notin Torn
    BY <1>5 DEF Alive, Torn
  <2>2. PICK i \in 1..Len(f.lines) :
          f.lines[i].field = "event" /\ f.lines[i].value = name
    BY <2>1 DEF ValuesOf
  <2>3. f.lines[i] \in ToSet(f.lines) /\ Says(f.lines[i]) = {name}
    BY <2>2 DEF ToSet, Says
  <2> QED
    BY <1>5, <2>3
<1> QED
  BY <1>1, <1>3, <1>4, <1>5

-----------------------------------------------------------------------------
(* Types.                                                                  *)

Types ==
    /\ TypeOK
    /\ unread \in Seq(Lines) /\ rest \in Lines \cup {None}
    /\ dataLines \in Seq(Values)
    /\ \E E : sent \in Seq(E)
    /\ pc = "send" => event.type \in Alive

LEMMA TypesFirst == Init => Types
<1>1. Init => Len(frames) = 0 /\ ToSet(sent) = {} /\ 0 <= MaxFrames
  BY WatchStreamAssumption DEF Init, ToSet
<1> QED
  BY <1>1 DEF Init, Types, TypeOK, Results

LEMMA FrameFacts ==
    ASSUME NEW frame \in SidecarFrames
    PROVE  /\ frame.lines \in Seq(Lines) /\ Len(frame.lines) \in Nat \ {0}
           /\ frame.lines[Len(frame.lines)] = Blank /\ frame # NoFrame
           /\ \A i \in 1..Len(frame.lines) : frame.lines[i] \in Lines
           /\ \A i \in 1..Len(frame.lines) - 1 : frame.lines[i].field # "blank"
BY WatchStreamAssumption DEF NoFrame, Last

LEMMA RemainsTyped ==
    ASSUME NEW line \in Lines, NEW r \in Remains(line)
    PROVE  r \in Lines \cup {None}
BY DEF Remains, Lines, Values

(* What the reader does with one line, whatever the kind of the line.      *)
ReadsLine(line, err) ==
    /\ Reads(line, err)
    /\ CASE line.field = "blank"   -> ReadsBlank(err)
         [] line.field = "comment" -> ReadsComment
         [] OTHER                  -> ReadsField(line, err)

LEMMA ReadsTyped ==
    ASSUME Types, pc = "read", NEW line \in NextLines,
           NEW err \in {"none", "eof", "failed"}, Reads(line, err)
    PROVE  /\ line \in Lines
           /\ unread' \in Seq(Lines) /\ rest' \in Lines \cup {None}
<1>1. CASE unread # <<>>
  <2>1. line = Head(unread) /\ unread' = Tail(unread) /\ rest' = rest
    BY <1>1 DEF Reads
  <2> QED
    BY <1>1, <2>1 DEF Types
<1>2. CASE unread = <<>>
  <2>1. unread' = unread /\ rest' = None /\ line \in {rest, Blank} \ {None}
    BY <1>2 DEF Reads, NextLines
  <2>2. Blank \in Lines
    BY DEF Blank, Lines, Values
  <2> QED
    BY <2>1, <2>2 DEF Types
<1> QED
  BY <1>1, <1>2

(* The frame variables and the outcome after one line.                     *)
LEMMA LineTyped ==
    ASSUME Types, pc = "read", NEW line \in Lines,
           NEW err \in {"none", "eof", "failed"}, ReadsLine(line, err)
    PROVE  /\ dataLines' \in Seq(Values)
           /\ pc' \in {"read", "send", "returned"} /\ then' \in {"read"} \cup Results
           /\ result' \in {"none"} \cup Results
           /\ pc' = "returned" <=> result' # "none"
           /\ pc' = "send" => event'.type \in Alive
<1>1. /\ result = "none" /\ then \in {"read"} \cup Results
      /\ dataLines \in Seq(Values) /\ line.value \in Values
  BY DEF Types, TypeOK, Lines
<1>2. ASSUME NEW name, NEW id, NEW data \in Seq(Values),
             NEW next \in {"read", "watch_stream_closed", "runtime_error"},
             Emits(name, id, data, next)
      PROVE  /\ pc' \in {"read", "send", "returned"} /\ then' \in {"read"} \cup Results
             /\ result' \in {"none"} \cup Results
             /\ pc' = "returned" <=> result' # "none"
             /\ pc' = "send" => event'.type \in Alive
  BY <1>1, <1>2, EmitsDecodes DEF Results
<1>3. CASE line.field = "blank"
  <2>1. ReadsBlank(err)
    BY <1>3 DEF ReadsLine
  <2>2. dataLines' = <<>>
    BY <2>1 DEF ReadsBlank, Clear
  <2>3. PICK next \in {"read", "watch_stream_closed", "runtime_error"} :
          Emits(currentEventName, currentEventID, dataLines, next)
    BY <2>1 DEF ReadsBlank
  <2> QED
    BY <1>1, <1>2, <2>2, <2>3
<1>4. CASE line.field = "comment"
  BY <1>1, <1>4 DEF ReadsLine, ReadsComment, frameVars
<1>5. CASE line.field \notin {"blank", "comment"}
  <2>1. ReadsField(line, err)
    BY <1>5 DEF ReadsLine
  <2>2. dataLines' \in Seq(Values)
    BY <1>1, <2>1 DEF ReadsField
  <2>3. CASE err = "none"
    BY <1>1, <2>1, <2>2, <2>3 DEF ReadsField
  <2>4. CASE err = "failed"
    BY <1>1, <2>1, <2>2, <2>4 DEF ReadsField, Returns, Results
  <2>5. CASE err = "eof"
    <3>1. Emits(currentEventName', currentEventID', dataLines', "watch_stream_closed")
      BY <2>1, <2>5 DEF ReadsField
    <3> QED
      BY <1>2, <2>2, <3>1
  <2> QED
    BY <2>3, <2>4, <2>5
<1> QED
  BY <1>3, <1>4, <1>5

LEMMA TypesKept ==
    ASSUME Types, [Next]_vars
    PROVE  Types'
<1> USE DEF sidecarVars, frameVars
<1>1. ASSUME NEW frame \in SidecarFrames, SidecarWrites(frame)
      PROVE  Types'
  <2>1. /\ frames' \in Seq(SidecarFrames) /\ Len(frames') <= MaxFrames
        /\ unread' \in Seq(Lines)
    BY <1>1, FrameFacts, WatchStreamAssumption DEF SidecarWrites, Types, TypeOK
  <2> QED
    BY <1>1, <2>1 DEF SidecarWrites, Types, TypeOK
<1>2. ASSUME NEW how \in {"eof", "failed"}, ConnectionEnds(how)
      PROVE  Types'
  <2>1. CASE UNCHANGED <<unread, rest, cut>>
    BY <1>2, <2>1 DEF ConnectionEnds, Types, TypeOK
  <2>2. CASE \E frame \in SidecarFrames : \E n \in 1..Len(frame.lines) :
             /\ cut' = frame
             /\ unread' = unread \o SubSeq(frame.lines, 1, n - 1)
             /\ rest' \in Remains(frame.lines[n])
    <3>0. PICK frame \in SidecarFrames : \E n \in 1..Len(frame.lines) :
             /\ cut' = frame
             /\ unread' = unread \o SubSeq(frame.lines, 1, n - 1)
             /\ rest' \in Remains(frame.lines[n])
      BY <2>2
    <3>1. PICK n \in 1..Len(frame.lines) :
             /\ cut' = frame
             /\ unread' = unread \o SubSeq(frame.lines, 1, n - 1)
             /\ rest' \in Remains(frame.lines[n])
      BY <3>0
    <3>2. SubSeq(frame.lines, 1, n - 1) \in Seq(Lines)
      BY FrameFacts
    <3>3. unread' \in Seq(Lines)
      BY <3>1, <3>2 DEF Types
    <3>4. rest' \in Lines \cup {None}
      BY <3>1, FrameFacts, RemainsTyped
    <3> QED
      BY <1>2, <3>1, <3>3, <3>4 DEF ConnectionEnds, Types, TypeOK
  <2> QED
    BY <1>2, <2>1, <2>2 DEF ConnectionEnds
<1>3. CASE ContextEnds
  BY <1>3 DEF ContextEnds, Types, TypeOK
<1>4. CASE ReaderReads
  <2>1. PICK line \in NextLines, err \in {"none", "eof", "failed"} :
           ReadsLine(line, err)
    BY <1>4 DEF ReaderReads, ReadsLine
  <2>2. /\ pc = "read" /\ UNCHANGED <<ctx, connection, frames, cut, sent>>
    BY <1>4 DEF ReaderReads
  <2>3. line \in Lines /\ unread' \in Seq(Lines) /\ rest' \in Lines \cup {None}
    BY <2>1, <2>2, ReadsTyped DEF ReadsLine
  <2>4. /\ dataLines' \in Seq(Values)
        /\ pc' \in {"read", "send", "returned"} /\ then' \in {"read"} \cup Results
        /\ result' \in {"none"} \cup Results
        /\ pc' = "returned" <=> result' # "none"
        /\ pc' = "send" => event'.type \in Alive
    BY <2>1, <2>2, <2>3, LineTyped
  <2> QED
    BY <2>2, <2>3, <2>4 DEF Types, TypeOK
<1>5. CASE ReaderSends
  <2>1. PICK E : sent \in Seq(E)
    BY DEF Types
  <2>2. sent \in Seq(E \cup {event}) /\ sent' = Append(sent, event)
    BY <1>5, <2>1 DEF ReaderSends
  <2>3. /\ sent' \in Seq(E \cup {event})
        /\ \A e \in ToSet(sent') : e \in ToSet(sent) \/ e = event
    BY <2>2 DEF ToSet
  <2>4. event.type \in Alive
    BY <1>5 DEF ReaderSends, Types
  <2>5. \A e \in ToSet(sent') : e.type \in {"connected", "heartbeat"}
    BY <2>3, <2>4 DEF Types, TypeOK, Alive
  <2> QED
    BY <1>5, <2>3, <2>5 DEF ReaderSends, Types, TypeOK, Results
<1>6. CASE ReaderAborts
  BY <1>6 DEF ReaderAborts, Types, TypeOK, Results
<1>7. CASE UNCHANGED vars
  BY <1>7 DEF vars, Types, TypeOK
<1> QED
  BY <1>1, <1>2, <1>3, <1>4, <1>5, <1>6, <1>7 DEF Next

(* The events of a stream are connected and heartbeat, watchOnce returns   *)
(* once, with one of the three errors (watch_source.go:218-290).           *)
THEOREM StreamTypes == Spec => []TypeOK
<1>1. Types => TypeOK
  BY DEF Types
<1> QED
  BY <1>1, TypesFirst, TypesKept, PTL DEF Spec

-----------------------------------------------------------------------------
(* The numbered lines of the stream: those of frame i come after at[i-1],  *)
(* those of the frame that was cut last; read of them are read, k frames   *)
(* to their end.                                                           *)
FrameAt(i) == IF i <= Len(frames) THEN frames[i] ELSE cut
Numbered(at) ==
    /\ at \in [0..Len(frames)+1 -> Nat] /\ at[0] = 0
    /\ \A i \in 1..Len(frames) : at[i] = at[i-1] + Len(frames[i].lines)
    /\ \A i \in 0..Len(frames) : at[i] <= at[Len(frames)+1]
CutLines(at) == at[Len(frames)+1] - at[Len(frames)]
CutAt(n) ==
    /\ n <= Len(cut.lines) /\ (cut # NoFrame => n < Len(cut.lines))
    /\ rest # None => cut # NoFrame /\ rest \in Remains(cut.lines[n+1])
Position(at, read, k) ==
    /\ k \in 0..Len(frames) /\ read \in at[k]..at[k+1]
    /\ k < Len(frames) => read < at[k+1]
Coming(at, read) ==
    /\ Len(unread) = at[Len(frames)+1] - read
    /\ \A i \in 1..Len(frames)+1 : \A l \in 1..at[i] - at[i-1] :
          at[i-1] + l > read => unread[at[i-1] + l - read] = FrameAt(i).lines[l]
Reading(at, read, k) ==
    /\ Numbered(at) /\ CutAt(CutLines(at))
    /\ Position(at, read, k) /\ Coming(at, read)

(* While it reads, watchOnce holds the fields of the lines of one frame,   *)
(* and has sent what the frames before it stand for, none of them bad.     *)
Holds(c) == currentEventName = c.name /\ currentEventID = c.id /\ dataLines = c.data
GoodTo(k) == \A i \in 1..k : frames[i].type # "bad"
Collecting(at, read, k) ==
    /\ pc = "read" /\ Holds(Collected(FrameAt(k+1).lines)[read - at[k]])
    /\ Len(sent) = Len(MeantBy(frames)[k])
Sending(at, read, k) ==
    /\ pc = "send" /\ then = "read" /\ k > 0 /\ read = at[k] /\ Holds(NoFields)
    /\ frames[k].type \in Alive /\ Means(event, frames[k])
    /\ Len(sent) = Len(MeantBy(frames)[k-1])
Ending ==
    /\ pc = "send" /\ then # "read" /\ connection # "open" /\ cut # NoFrame
    /\ Len(sent) = Len(Meant) /\ GoodTo(Len(frames))
    /\ Agrees(cut) => event.type = cut.type

InStream ==
    \E at, read, k :
       /\ Reading(at, read, k) /\ GoodTo(k)
       /\ Collecting(at, read, k) \/ Sending(at, read, k)

StreamInv ==
    /\ Types
    /\ connection = "open" =>
          cut = NoFrame /\ rest = None /\ result # "watch_stream_closed"
    /\ pc # "returned" => InStream \/ Ending
    /\ FramesDispatched /\ CutInventsNothing

-----------------------------------------------------------------------------
(* What the frames stand for, as more of them count and are written.       *)

LEMMA MeantGrows ==
    ASSUME NEW fs \in Seq(SidecarFrames), NEW m \in 0..Len(fs), NEW n \in m..Len(fs)
    PROVE  /\ Len(MeantBy(fs)[m]) <= Len(MeantBy(fs)[n])
           /\ \A i \in 1..Len(MeantBy(fs)[m]) : MeantBy(fs)[n][i] = MeantBy(fs)[m][i]
<1> DEFINE M == MeantBy(fs)
           Below(j) == /\ Len(M[m]) <= Len(M[j])
                       /\ \A i \in 1..Len(M[m]) : M[j][i] = M[m][i]
           P == {d \in Nat : m + d <= Len(fs) => Below(m + d)}
<1>1. \A j \in 0..Len(fs) : M[j] \in Seq(SidecarFrames)
  BY MeantLoop
<1>2. \A j \in 1..Len(fs) :
         M[j] = M[j-1] \/ M[j] = Append(M[j-1], fs[j])
  BY MeantLoop
<1> HIDE DEF M
<1>3. 0 \in P
  BY <1>1
<1>4. ASSUME NEW d \in Nat, d \in P PROVE d + 1 \in P
  <2>1. SUFFICES ASSUME m + (d + 1) <= Len(fs) PROVE Below(m + (d + 1))
    OBVIOUS
  <2>2. /\ Below(m + d) /\ m + d \in 0..Len(fs) /\ m + (d + 1) \in 1..Len(fs)
        /\ (m + (d + 1)) - 1 = m + d
    BY <1>4, <2>1
  <2>3. CASE M[m + (d + 1)] = M[m + d]
    BY <2>2, <2>3
  <2>4. CASE M[m + (d + 1)] = Append(M[m + d], fs[m + (d + 1)])
    <3>1. M[m + d] \in Seq(SidecarFrames) /\ M[m] \in Seq(SidecarFrames)
      BY <1>1, <2>2
    <3>2. /\ Len(M[m + (d + 1)]) = Len(M[m + d]) + 1
          /\ \A i \in 1..Len(M[m + d]) : M[m + (d + 1)][i] = M[m + d][i]
      BY <2>4, <3>1
    <3> QED
      BY <2>2, <3>1, <3>2
  <2> QED
    BY <1>2, <2>2, <2>3, <2>4
<1>5. Nat \subseteq P
  BY <1>3, <1>4, Induction
<1>6. n - m \in Nat /\ m + (n - m) = n /\ n <= Len(fs)
  OBVIOUS
<1>7. Below(n)
  BY <1>5, <1>6
<1> QED
  BY <1>7 DEF M

LEMMA MeantStable ==
    ASSUME NEW fs \in Seq(SidecarFrames), NEW f \in SidecarFrames,
           NEW n \in 0..Len(fs)
    PROVE  MeantBy(Append(fs, f))[n] = MeantBy(fs)[n]
<1> DEFINE gs == Append(fs, f)
           Skips(hs, j) == hs[j].type = "ignored" \/ \E i \in 1..j : hs[i].type = "bad"
           A == MeantBy(gs)
           B == MeantBy(fs)
           P == {j \in Nat : j <= Len(fs) => A[j] = B[j]}
<1>1. /\ gs \in Seq(SidecarFrames) /\ Len(gs) = Len(fs) + 1
      /\ \A j \in 1..Len(fs) : gs[j] = fs[j]
  OBVIOUS
<1>2. /\ A[0] = <<>> /\ B[0] = <<>>
      /\ \A j \in 1..Len(gs) : A[j] = IF Skips(gs, j) THEN A[j-1] ELSE Append(A[j-1], gs[j])
      /\ \A j \in 1..Len(fs) : B[j] = IF Skips(fs, j) THEN B[j-1] ELSE Append(B[j-1], fs[j])
  BY <1>1, MeantLoop
<1>3. \A j \in 1..Len(fs) : Skips(gs, j) = Skips(fs, j) /\ gs[j] = fs[j] /\ j \in 1..Len(gs)
  BY <1>1
<1> HIDE DEF A, B, gs, Skips
<1>4. 0 \in P
  BY <1>2
<1>5. ASSUME NEW j \in Nat, j \in P PROVE j + 1 \in P
  <2>1. SUFFICES ASSUME j + 1 <= Len(fs) PROVE A[j + 1] = B[j + 1]
    OBVIOUS
  <2>2. A[j] = B[j] /\ j + 1 \in 1..Len(fs) /\ (j + 1) - 1 = j
    BY <1>5, <2>1
  <2> QED
    BY <1>2, <1>3, <2>2
<1>6. Nat \subseteq P
  BY <1>4, <1>5, Induction
<1>7. A[n] = B[n]
  BY <1>6
<1> QED
  BY <1>7 DEF A, B, gs

LEMMA MeantNext ==
    ASSUME frames \in Seq(SidecarFrames), NEW k \in 1..Len(frames)
    PROVE  /\ frames[k].type = "ignored" => MeantBy(frames)[k] = MeantBy(frames)[k-1]
           /\ GoodTo(k) /\ frames[k].type \in Alive =>
                MeantBy(frames)[k] = Append(MeantBy(frames)[k-1], frames[k])
BY MeantLoop DEF GoodTo, Alive

LEMMA LinesOfFrame ==
    ASSUME Types, NEW i \in 1..Len(frames)+1
    PROVE  /\ FrameAt(i).lines \in Seq(Lines)
           /\ Collected(FrameAt(i).lines)[0] = NoFields
<1>1. FrameAt(i) \in SidecarFrames \/ FrameAt(i).lines = <<>>
  BY DEF Types, TypeOK, FrameAt, NoFrame
<1> DEFINE ls == FrameAt(i).lines
<1>2. ls \in Seq(Lines)
  <2>1. CASE FrameAt(i) \in SidecarFrames
    BY <2>1, FrameFacts
  <2>2. CASE ls = <<>>
    BY <2>2
  <2> QED
    BY <1>1, <2>1, <2>2
<1> HIDE DEF ls
<1>3. "blank" \in Values /\ \A n \in 1..Len(ls) : ls[n] \in Lines
  BY <1>2 DEF Values
<1>4. \A n \in 1..Len(ls) : ls[n].value \in Values
  BY <1>3 DEF Lines
<1>5. Collected(ls)[0] = NoFields
  BY <1>2, <1>3, <1>4, CollectedLoop
<1> QED
  BY <1>2, <1>5 DEF ls

(* A blank line adds nothing, so a frame stands for the lines before it.   *)
LEMMA WholeFrame ==
    ASSUME NEW f \in SidecarFrames
    PROVE  LET c == Collected(f.lines)[Len(f.lines) - 1]
           IN /\ c.data \in Seq(Values) /\ f.type = StandsFor(c.name, c.data)
              /\ f.type \in Alive => f.id = c.id
<1> DEFINE n == Len(f.lines)
<1>1. /\ f.lines \in Seq(Lines) /\ n \in 1..n /\ n - 1 \in 0..n /\ f.lines[n] = Blank
      /\ \A i \in 1..n : f.lines[i] \in Lines
  BY FrameFacts
<1>4. "blank" \in Values /\ \A i \in 1..n : f.lines[i].value \in Values
  BY <1>1 DEF Lines, Values
<1>2. /\ Collected(f.lines) \in [0..n -> Collections(Values, Values)]
      /\ Collected(f.lines)[n] = Collect(Collected(f.lines)[n-1], f.lines[n])
  BY <1>1, <1>4, CollectedLoop
<1>3. Collected(f.lines)[n] = Collected(f.lines)[n-1]
  BY <1>1, <1>2 DEF Collect, Blank
<1>5. Collected(f.lines)[n-1].data \in Seq(Values)
  BY <1>1, <1>2 DEF Collections
<1> QED
  BY <1>3, <1>5, FramesAssumption

(* What is collected of a frame comes from its own lines.                  *)
LEMMA PartOfFrame ==
    ASSUME NEW f \in SidecarFrames, NEW n \in 0..Len(f.lines)
    PROVE  LET c == Collected(f.lines)[n]
           IN /\ c.name \in {"blank"} \cup ValuesOf(f.lines, "event")
              /\ c.data \in Seq(ValuesOf(f.lines, "data"))
<1> DEFINE Names == {"blank"} \cup ValuesOf(f.lines, "event")
           Data  == ValuesOf(f.lines, "data")
<1>1. /\ f.lines \in Seq(Lines)
      /\ \A i \in 1..Len(f.lines) : f.lines[i] \in Lines
  BY FrameFacts
<1>2. \A i \in 1..Len(f.lines) :
         /\ f.lines[i].field = "event" => f.lines[i].value \in Names
         /\ f.lines[i].field = "data"  => f.lines[i].value \in Data
  BY <1>1 DEF ValuesOf, Lines
<1> HIDE DEF Names, Data
<1>3. Collected(f.lines) \in [0..Len(f.lines) -> Collections(Names, Data)]
  BY <1>1, <1>2, CollectedLoop DEF Names
<1> QED
  BY <1>3 DEF Collections, Names, Data

-----------------------------------------------------------------------------
(* One line.                                                               *)

LEMMA ReadingTypes ==
    ASSUME Types, NEW at, NEW read, NEW k, Reading(at, read, k)
    PROVE  /\ Len(frames) \in Nat /\ k \in 0..Len(frames) /\ read \in Nat
           /\ at \in [0..Len(frames)+1 -> Nat] /\ at[k] \in Nat /\ at[k+1] \in Nat
           /\ \A i \in 0..Len(frames)+1 : at[i] \in Nat /\ at[i] <= at[Len(frames)+1]
           /\ \A i \in 1..Len(frames) : at[i] = at[i-1] + Len(frames[i].lines)
           /\ \A i \in 1..Len(frames) : frames[i] \in SidecarFrames
           /\ \A i \in 1..Len(frames) : Len(frames[i].lines) \in Nat \ {0}
<1>1. Len(frames) \in Nat /\ \A i \in 1..Len(frames) : frames[i] \in SidecarFrames
  BY DEF Types, TypeOK
<1>2. k \in 0..Len(frames) /\ read \in at[k]..at[k+1]
  BY DEF Reading, Position
<1>3. at \in [0..Len(frames)+1 -> Nat]
  BY DEF Reading, Numbered
<1>4. \A i \in 0..Len(frames)+1 : at[i] \in Nat
  BY <1>3
<1>5. \A i \in 0..Len(frames)+1 : at[i] <= at[Len(frames)+1]
  BY <1>1, <1>4 DEF Reading, Numbered
<1>6. \A i \in 1..Len(frames) : at[i] = at[i-1] + Len(frames[i].lines)
  BY DEF Reading, Numbered
<1>7. \A i \in 1..Len(frames) : Len(frames[i].lines) \in Nat \ {0}
  BY <1>1, FrameFacts
<1>8. at[k] \in Nat /\ at[k+1] \in Nat /\ read \in Nat
  BY <1>1, <1>2, <1>4
<1> QED
  BY <1>1, <1>2, <1>3, <1>4, <1>5, <1>6, <1>7, <1>8

LEMMA HeadOfUnread ==
    ASSUME Types, NEW at, NEW read, NEW k, Reading(at, read, k), unread # <<>>
    PROVE  LET l == read - at[k] + 1
           IN /\ l \in 1..Len(FrameAt(k+1).lines) /\ read < at[k+1]
              /\ Head(unread) = FrameAt(k+1).lines[l]
              /\ k = Len(frames) => cut # NoFrame /\ l < Len(cut.lines)
              /\ k < Len(frames) => at[k+1] = at[k] + Len(frames[k+1].lines)
<1> DEFINE N == Len(frames)
           l == read - at[k] + 1
<1>1. /\ N \in Nat /\ k \in 0..N /\ read \in Nat
      /\ at[k] \in Nat /\ at[k+1] \in Nat /\ at[N+1] \in Nat
  BY ReadingTypes
<1>2. Len(unread) > 0 /\ Head(unread) = unread[1]
  BY DEF Types
<1>3. read < at[k+1]
  BY <1>1, <1>2 DEF Reading, Position, Coming
<1>4. l \in 1..at[k+1] - at[k] /\ k + 1 \in 1..N+1 /\ (k + 1) - 1 = k
  <2>1. at[k] <= read
    BY <1>1 DEF Reading, Position
  <2>2. l \in 1..at[k+1] - at[k]
    <3>1. read \in Nat /\ at[k] \in Nat /\ at[k+1] \in Nat
      BY <1>1
    <3> QED
      BY <1>3, <2>1, <3>1
  <2>3. k + 1 \in 1..N+1 /\ (k + 1) - 1 = k
    BY <1>1
  <2> QED
    BY <2>2, <2>3
<1>5. \A j \in 1..at[k+1] - at[k] :
         at[k] + j > read => unread[at[k] + j - read] = FrameAt(k+1).lines[j]
  BY <1>4 DEF Reading, Coming
<1>6. at[k] + l - read = 1 /\ at[k] + l > read
  BY <1>1
<1>7. Head(unread) = FrameAt(k+1).lines[l]
  BY <1>2, <1>4, <1>5, <1>6
<1>8. CASE k < N
  <2>1. k + 1 \in 1..N /\ FrameAt(k+1) = frames[k+1]
    BY <1>1, <1>8 DEF FrameAt
  <2>2. at[k+1] = at[k] + Len(frames[k+1].lines) /\ Len(frames[k+1].lines) \in Nat
    BY <1>4, <2>1, ReadingTypes
  <2>3. l \in 1..Len(FrameAt(k+1).lines)
    <3>1. at[k+1] - at[k] = Len(FrameAt(k+1).lines)
      BY <1>1, <2>1, <2>2
    <3> QED
      BY <1>4, <3>1
  <2>4. k # N
    BY <1>1, <1>8
  <2> QED
    BY <1>3, <1>7, <2>2, <2>3, <2>4
<1>9. CASE k = N
  <2>1. FrameAt(k+1) = cut
    BY <1>1, <1>9 DEF FrameAt
  <2>2. /\ at[k+1] - at[k] <= Len(cut.lines)
        /\ cut # NoFrame => at[k+1] - at[k] < Len(cut.lines)
    BY <1>9 DEF Reading, CutAt, CutLines
  <2>3. Len(NoFrame.lines) = 0
    BY DEF NoFrame
  <2>4. Len(cut.lines) \in Nat
    BY <1>1, <1>4, <2>1, LinesOfFrame
  <2>5. cut # NoFrame
    <3>1. SUFFICES ASSUME cut = NoFrame PROVE FALSE
      OBVIOUS
    <3>2. at[k+1] - at[k] <= 0
      BY <2>2, <2>3, <3>1
    <3>3. 1..at[k+1] - at[k] = {}
      BY <1>1, <3>2
    <3> QED
      BY <1>4, <3>3
  <2>6. l \in 1..Len(cut.lines) /\ l < Len(cut.lines)
    <3>1. at[k+1] - at[k] < Len(cut.lines)
      BY <2>2, <2>5
    <3>2. at[k] \in Nat /\ at[k+1] \in Nat
      BY <1>1
    <3> QED
      BY <1>4, <2>4, <3>1, <3>2
  <2>7. ~(k < N)
    BY <1>1, <1>9
  <2> QED
    BY <1>3, <1>7, <2>1, <2>5, <2>6, <2>7
<1> QED
  BY <1>1, <1>8, <1>9

LEMMA Index ==
    ASSUME NEW a \in Nat, NEW b \in Nat, NEW end \in Nat, NEW read \in Nat,
           NEW l \in 1..b - a, a + l > read + 1, b <= end
    PROVE  a + l - (read + 1) \in 1..(end - read) - 1
OBVIOUS

LEMMA Beyond ==
    ASSUME NEW a \in Nat, NEW b \in Nat, NEW l \in Nat, NEW c, c = a
    PROVE  c + l - b = (a - b) + l
OBVIOUS

LEMMA Within ==
    ASSUME NEW a \in Nat, NEW b \in Nat, NEW end \in Nat, NEW read \in Nat,
           NEW l \in 1..b - a, a + l > read, b <= end
    PROVE  a + l - read \in 1..end - read
OBVIOUS

(* The reader takes the next line.                                         *)
LEMMA ReadingTail ==
    ASSUME Types, NEW at, NEW read, NEW k, Reading(at, read, k), unread # <<>>,
           unread' = Tail(unread), UNCHANGED <<frames, cut, rest>>
    PROVE  /\ read + 1 < at[k+1] \/ k = Len(frames) => Reading(at, read + 1, k)'
           /\ read + 1 = at[k+1] /\ k < Len(frames) => Reading(at, read + 1, k + 1)'
<1> DEFINE N == Len(frames)
<1>1. /\ N \in Nat /\ k \in 0..N /\ read \in Nat
      /\ at[k] \in Nat /\ at[k+1] \in Nat /\ at[N+1] \in Nat
  BY ReadingTypes
<1>2. read < at[k+1]
  BY HeadOfUnread
<1>3. Numbered(at)' /\ CutAt(CutLines(at))'
  BY DEF Reading, Numbered, CutAt, CutLines
<1>4. Coming(at, read + 1)'
  <2>1. Len(unread') = Len(unread) - 1 /\ \A j \in 1..Len(unread) - 1 : unread'[j] = unread[j+1]
    BY DEF Types
  <2>2. Len(unread) = at[N+1] - read
    BY DEF Reading, Coming
  <2>3. ASSUME NEW i \in 1..N+1, NEW l \in 1..at[i] - at[i-1], at[i-1] + l > read + 1
        PROVE  unread'[at[i-1] + l - (read + 1)] = FrameAt(i).lines[l]
    <3>1. at[i] <= at[N+1] /\ at[i] \in Nat /\ at[i-1] \in Nat
      <4>1. i \in 0..N+1 /\ i - 1 \in 0..N+1
        BY <1>1
      <4> QED
        BY <4>1, ReadingTypes
    <3>2. at[i-1] + l > read
      BY <1>1, <2>3, <3>1
    <3>3. unread[at[i-1] + l - read] = FrameAt(i).lines[l]
      <4>1. Coming(at, read)
        BY DEF Reading
      <4>2. \A j \in 1..at[i] - at[i-1] :
               at[i-1] + j > read => unread[at[i-1] + j - read] = FrameAt(i).lines[j]
        BY <4>1 DEF Coming
      <4> QED
        BY <3>2, <4>2
    <3>4. at[i-1] + l - (read + 1) \in 1..Len(unread) - 1
      BY <1>1, <2>2, <2>3, <3>1, Index
    <3>5. (at[i-1] + l - (read + 1)) + 1 = at[i-1] + l - read
      BY <1>1, <3>1
    <3> QED
      BY <2>1, <3>3, <3>4, <3>5
  <2>4. \A i \in 1..N+1 : FrameAt(i)' = FrameAt(i)
    BY DEF FrameAt
  <2>5. Len(unread') = at[N+1] - (read + 1)
    <3>1. at[N+1] \in Nat /\ read \in Nat
      BY <1>1
    <3>2. (at[N+1] - read) - 1 = at[N+1] - (read + 1)
      BY <3>1
    <3> QED
      BY <2>1, <2>2, <3>2
  <2> QED
    BY <2>3, <2>4, <2>5 DEF Coming
<1>5. CASE read + 1 < at[k+1] \/ k = N
  <2>1. Position(at, read + 1, k)'
    BY <1>1, <1>2, <1>5 DEF Reading, Position
  <2> QED
    BY <1>1, <1>3, <1>4, <1>5, <2>1 DEF Reading
<1>6. CASE read + 1 = at[k+1] /\ k < N
  <2>1. k + 1 \in 0..N /\ (k + 1) + 1 \in 0..N+1 /\ at[(k+1)+1] \in Nat
    <3>1. k + 1 \in 0..N /\ (k + 1) + 1 \in 0..N+1
      BY <1>1, <1>6
    <3>2. at[(k+1)+1] \in Nat
      BY <3>1, ReadingTypes
    <3> QED
      BY <3>1, <3>2
  <2>2. k + 1 < N => at[(k+1)+1] > at[k+1]
    <3>1. SUFFICES ASSUME k + 1 < N PROVE at[(k+1)+1] > at[k+1]
      OBVIOUS
    <3>2. (k + 1) + 1 \in 1..N /\ ((k + 1) + 1) - 1 = k + 1
      BY <1>1, <3>1
    <3>3. /\ at[(k+1)+1] = at[k+1] + Len(frames[(k+1)+1].lines)
          /\ Len(frames[(k+1)+1].lines) \in Nat \ {0}
      BY <3>2, ReadingTypes
    <3>4. at[k+1] \in Nat
      BY <1>1
    <3>5. at[k+1] + Len(frames[(k+1)+1].lines) > at[k+1]
      BY <3>3, <3>4
    <3> QED
      BY <3>3, <3>5
  <2>3. k + 1 = N => at[k+1] <= at[(k+1)+1]
    BY <2>1, ReadingTypes
  <2>4. Position(at, read + 1, k + 1)'
    BY <1>1, <1>6, <2>1, <2>2, <2>3 DEF Position
  <2> QED
    BY <1>1, <1>3, <1>4, <1>6, <2>4 DEF Reading
<1> QED
  BY <1>5, <1>6

LEMMA CollectedStep ==
    ASSUME Types, NEW i \in 1..Len(frames)+1, NEW l \in 1..Len(FrameAt(i).lines)
    PROVE  /\ Collected(FrameAt(i).lines)[l-1] \in Collections(Values, Values)
           /\ Collected(FrameAt(i).lines)[l] =
                 Collect(Collected(FrameAt(i).lines)[l-1], FrameAt(i).lines[l])
<1> DEFINE ls == FrameAt(i).lines
<1>1. ls \in Seq(Lines)
  BY LinesOfFrame
<1> HIDE DEF ls
<1>2. "blank" \in Values /\ \A n \in 1..Len(ls) : ls[n] \in Lines
  BY <1>1 DEF Values
<1>3. \A n \in 1..Len(ls) : ls[n].value \in Values
  BY <1>2 DEF Lines
<1>4. /\ Collected(ls) \in [0..Len(ls) -> Collections(Values, Values)]
      /\ \A n \in 1..Len(ls) : Collected(ls)[n] = Collect(Collected(ls)[n-1], ls[n])
  BY <1>1, <1>2, <1>3, CollectedLoop
<1>5. l - 1 \in 0..Len(ls) /\ l \in 1..Len(ls)
  BY <1>1 DEF ls
<1> QED
  BY <1>4, <1>5 DEF ls

Collects(c) ==
    currentEventName' = c.name /\ currentEventID' = c.id /\ dataLines' = c.data

(* A field is collected, a comment or noise is not.                        *)
LEMMA LineCollected ==
    ASSUME NEW c \in Collections(Values, Values), Holds(c), NEW line \in Lines, line.field # "blank",
           ReadsLine(line, "none"), pc = "read"
    PROVE  Collects(Collect(c, line)) /\ pc' = "read" /\ UNCHANGED result
<1>1. CASE line.field = "comment"
  <2>1. Collect(c, line) = c
    BY <1>1 DEF Collect
  <2> QED
    BY <1>1, <2>1 DEF ReadsLine, ReadsComment, Holds, Collects, frameVars
<1>2. CASE line.field # "comment"
  <2>1. ReadsField(line, "none")
    BY <1>2 DEF ReadsLine
  <2>2. /\ pc' = "read" /\ UNCHANGED result
        /\ currentEventName' = IF line.field = "event" THEN line.value ELSE c.name
        /\ currentEventID' = IF line.field = "id" THEN line.value ELSE c.id
        /\ dataLines' = IF line.field = "data" THEN Append(c.data, line.value) ELSE c.data
    BY <2>1 DEF ReadsField, Holds
  <2>3. /\ Collect(c, line).name = IF line.field = "event" THEN line.value ELSE c.name
        /\ Collect(c, line).id = IF line.field = "id" THEN line.value ELSE c.id
        /\ Collect(c, line).data = IF line.field = "data" THEN Append(c.data, line.value)
                                                          ELSE c.data
    BY DEF Collect, Collections
  <2> QED
    BY <2>2, <2>3 DEF Collects
<1> QED
  BY <1>1, <1>2

(* The next line belongs to the frame that is being read: it is collected, *)
(* or it ends the frame and the frame is dispatched.                       *)
LEMMA ReadsUnread ==
    ASSUME Types, NEW at, NEW read, NEW k, Reading(at, read, k), GoodTo(k),
           Collecting(at, read, k), unread # <<>>, unread' = Tail(unread),
           UNCHANGED <<frames, cut, rest, sent>>, ReadsLine(Head(unread), "none")
    PROVE  /\ pc' # "returned" => InStream'
           /\ result' # "watch_stream_closed"
<1> DEFINE N == Len(frames)
           ls == FrameAt(k+1).lines
           l == read - at[k] + 1
           c == Collected(ls)[l-1]
           line == Head(unread)
<1>1. /\ N \in Nat /\ k \in 0..N /\ read \in Nat /\ at[k] \in Nat /\ at[k+1] \in Nat
      /\ l \in 1..Len(ls) /\ line = ls[l] /\ read < at[k+1]
      /\ k = N => cut # NoFrame /\ l < Len(cut.lines)
      /\ k < N => at[k+1] = at[k] + Len(frames[k+1].lines)
  BY ReadingTypes, HeadOfUnread
<1>2. l - 1 = read - at[k] /\ (read + 1) - at[k] = l
      /\ k + 1 \in 1..N+1 /\ (k < N => k + 1 \in 1..N)
  <2>1. read \in Nat /\ at[k] \in Nat /\ k \in 0..N /\ N \in Nat
    BY <1>1
  <2>2. l - 1 = read - at[k] /\ (read + 1) - at[k] = l
    BY <2>1
  <2>3. k + 1 \in 1..N+1 /\ (k < N => k + 1 \in 1..N)
    BY <2>1
  <2> QED
    BY <2>2, <2>3
<1> HIDE DEF l
<1>3. /\ ls \in Seq(Lines) /\ line \in Lines
      /\ c \in Collections(Values, Values)
      /\ Collected(FrameAt(k+1).lines)[l] = Collect(c, line)
  <2>1. k + 1 \in 1..Len(frames)+1 /\ l \in 1..Len(FrameAt(k+1).lines)
    BY <1>1, <1>2
  <2>2. ls \in Seq(Lines) /\ c \in Collections(Values, Values)
    BY <2>1, LinesOfFrame, CollectedStep
  <2>3. line \in Lines
    BY <1>1, <2>2
  <2>4. Collected(ls)[l] = Collect(c, line)
    <3>1. line = ls[l]
      BY <1>1
    <3> QED
      BY <2>1, <3>1, CollectedStep
  <2> QED
    BY <2>2, <2>3, <2>4
<1>4. /\ Holds(c) /\ pc = "read" /\ Len(sent) = Len(MeantBy(frames)[k])
      /\ result = "none"
  BY <1>2 DEF Collecting, Types, TypeOK
<1>5. /\ k < N => ls = frames[k+1].lines /\ frames[k+1] \in SidecarFrames
      /\ k = N => ls = cut.lines /\ (cut \in SidecarFrames \/ cut = NoFrame)
  <2>1. k < N => k + 1 <= Len(frames) /\ k + 1 \in 1..Len(frames)
    BY <1>1
  <2>2. k = N => ~(k + 1 <= Len(frames))
    BY <1>1
  <2>3. cut \in SidecarFrames \/ cut = NoFrame
    BY DEF Types, TypeOK
  <2>4. k < N => frames[k+1] \in SidecarFrames
    BY <2>1, ReadingTypes
  <2> QED
    BY <2>1, <2>2, <2>3, <2>4 DEF FrameAt
<1>6. /\ ReadsLine(line, "none") /\ GoodTo(k)'
      /\ \A i \in 1..N+1 : FrameAt(i)' = FrameAt(i)
  BY DEF FrameAt, GoodTo
<1> HIDE DEF ls, c, line
<1>7. CASE line.field # "blank"
  <2>1. Collects(Collect(c, line)) /\ pc' = "read" /\ UNCHANGED result
    BY <1>3, <1>4, <1>6, <1>7, LineCollected
  <2>2. Collecting(at, read + 1, k)'
    <3>1. Collected(FrameAt(k+1).lines)' = Collected(FrameAt(k+1).lines)
      BY <1>2, <1>6
    <3>2. Collected(FrameAt(k+1).lines)'[(read + 1) - at[k]] = Collect(c, line)
      BY <1>2, <1>3, <3>1
    <3>3. Len(sent') = Len(MeantBy(frames')[k])
      BY <1>4
    <3> QED
      BY <2>1, <3>2, <3>3 DEF Collecting, Collects, Holds
  <2>3. read + 1 < at[k+1] \/ k = N
    <3>1. SUFFICES ASSUME k < N PROVE read + 1 < at[k+1]
      BY <1>1
    <3>2. ls[Len(ls)] = Blank /\ Len(ls) \in Nat
      BY <1>5, <3>1, FrameFacts
    <3>3. l # Len(ls)
      BY <1>1, <1>7, <3>2 DEF Blank
    <3>4. at[k+1] = at[k] + Len(ls)
      BY <1>1, <1>5, <3>1
    <3>5. read \in Nat /\ at[k] \in Nat /\ read = at[k] + l - 1
      BY <1>1, <1>2
    <3>6. l \in 1..Len(ls)
      BY <1>1
    <3> QED
      BY <3>2, <3>3, <3>4, <3>5, <3>6
  <2>4. Reading(at, read + 1, k)'
    BY <2>3, ReadingTail
  <2> QED
    BY <1>4, <1>6, <2>1, <2>2, <2>4 DEF InStream
<1>8. CASE line.field = "blank"
  <2>1. k < N /\ l = Len(ls) /\ frames[k+1] \in SidecarFrames /\ ls = frames[k+1].lines
    <3>1. k < N
      <4>1. SUFFICES ASSUME k = N PROVE FALSE
        BY <1>1
      <4>2. cut \in SidecarFrames /\ ls = cut.lines /\ l < Len(ls)
        BY <1>1, <1>5, <4>1
      <4>3. Len(ls) \in Nat /\ \A i \in 1..Len(ls) - 1 : ls[i].field # "blank"
        BY <4>2, FrameFacts
      <4>4. l \in 1..Len(ls) - 1
        BY <1>1, <4>2, <4>3
      <4> QED
        BY <1>1, <1>8, <4>3, <4>4
    <3>2. Len(ls) \in Nat /\ \A i \in 1..Len(ls) - 1 : ls[i].field # "blank"
      BY <1>5, <3>1, FrameFacts
    <3>3. l \notin 1..Len(ls) - 1
      BY <1>1, <1>8, <3>2
    <3> QED
      BY <1>1, <1>5, <3>1, <3>2, <3>3
  <2> DEFINE f == frames[k+1]
  <2>2. /\ c.data \in Seq(Values) /\ f.type = StandsFor(c.name, c.data)
        /\ f.type \in Alive => f.id = c.id
    <3>1. c = Collected(f.lines)[Len(f.lines) - 1]
      BY <2>1 DEF c, ls
    <3> QED
      BY <2>1, <3>1, WholeFrame
  <2>3. ReadsBlank("none")
    BY <1>6, <1>8 DEF ReadsLine
  <2>4. Holds(NoFields)' /\ Emits(c.name, c.id, c.data, "read")
    <3>1. Emits(currentEventName, currentEventID, dataLines, "read")
      BY <2>3 DEF ReadsBlank
    <3>2. Holds(NoFields)'
      BY <2>3 DEF ReadsBlank, Clear, Holds, NoFields
    <3> QED
      BY <1>4, <3>1, <3>2 DEF Holds
  <2>5. Reading(at, read + 1, k + 1)' /\ read + 1 = at[k+1]
    <3>1. read + 1 = at[k+1]
      BY <1>1, <1>2, <2>1
    <3> QED
      BY <2>1, <3>1, ReadingTail
  <2>6. /\ k + 1 \in 1..N /\ (k + 1) - 1 = k /\ (k + 1) + 1 \in 1..N+1
        /\ (read + 1) - at[k+1] = 0 /\ k + 1 > 0
    <3>1. k + 1 \in 1..N /\ (k + 1) - 1 = k /\ (k + 1) + 1 \in 1..N+1 /\ k + 1 > 0
      <4>1. N \in Nat /\ k \in 0..N /\ k < N
        BY <1>1, <2>1
      <4> QED
        BY <4>1
    <3>2. (read + 1) - at[k+1] = 0
      BY <1>1, <2>5
    <3> QED
      BY <3>1, <3>2
  <2>7. f.type # "bad" => GoodTo(k + 1) /\ GoodTo(k + 1)'
    <3>1. k \in Nat
      BY <1>1
    <3>2. \A i \in 1..k + 1 : i \in 1..k \/ i = k + 1
      BY <3>1
    <3> QED
      BY <3>2 DEF GoodTo
  <2>8. CASE f.type = "bad"
    BY <1>4, <2>2, <2>4, <2>8, EmitsDecodes DEF Alive
  <2>9. CASE f.type = "ignored"
    <3>1. pc' = "read" /\ UNCHANGED result
      BY <2>2, <2>4, <2>9, EmitsDecodes DEF Alive
    <3>2. MeantBy(frames)[k+1] = MeantBy(frames)[k]
      BY <2>6, <2>9, MeantNext DEF Types, TypeOK
    <3>3. Collected(FrameAt((k+1)+1).lines)[0] = NoFields
      BY <2>6, LinesOfFrame
    <3>4. Collecting(at, read + 1, k + 1)'
      BY <1>4, <1>6, <2>4, <2>6, <3>1, <3>2, <3>3 DEF Collecting
    <3> QED
      BY <1>4, <2>5, <2>7, <2>9, <3>1, <3>4 DEF InStream
  <2>10. CASE f.type \in Alive
    <3>1. pc' = "send" /\ then' = "read" /\ UNCHANGED result /\ Means(event', f)
      BY <2>2, <2>4, <2>10, EmitsDecodes DEF Alive, Means
    <3>2. Sending(at, read + 1, k + 1)'
      BY <1>4, <2>4, <2>5, <2>6, <2>10, <3>1 DEF Sending, Means
    <3> QED
      BY <1>4, <2>5, <2>7, <2>10, <3>1, <3>2 DEF InStream, Alive
  <2> QED
    BY <2>2, <2>4, <2>8, <2>9, <2>10, EmitsDecodes
<1> QED
  BY <1>7, <1>8

LEMMA NothingIsIgnored == StandsFor("blank", <<>>) = "ignored"
<1>1. NotBlank(<<>>)[0] = <<>> /\ Len(<<>>) = 0
  <2>1. <<>> \in Seq(Values)
    OBVIOUS
  <2> QED
    BY <2>1, NotBlankLoop
<1>2. joinDataLines(<<>>) = <<>>
  BY <1>1 DEF joinDataLines
<1>3. ~IsDocument(<<>>) /\ ~BadFrame(<<>>)
  BY <1>2 DEF IsDocument, BadFrame, looksLikeJSON
<1>4. Field(<<>>, "event") = "blank" /\ ~Greets(<<>>)
  BY <1>3 DEF Field, Greets
<1> QED
  BY <1>2, <1>3, <1>4 DEF StandsFor, Alive

(* Of a field, a cut leaves the value or something torn.                   *)
LEMMA RemainsTorn ==
    ASSUME NEW line \in Lines, line.field = "blank" => line = Blank,
           NEW r \in Remains(line), r # None
    PROVE  /\ r \in Lines /\ r.field # "blank"
           /\ \A field \in {"event", "data"} : r.field = field =>
                 r.value \in Torn \/ (line.field = field /\ r.value = line.value)
<1>1. r \in Lines
  BY RemainsTyped
<1>2. line.field # "blank"
  BY DEF Remains, Blank
<1>3. CASE line.field \in {"comment", "noise"}
  BY <1>2, <1>3 DEF Remains, Blank
<1>4. CASE line.field \notin {"comment", "noise"}
  <2>1. \/ r = line
        \/ r.field = "noise"
        \/ r.field = line.field /\ r.value \in Torn
    BY <1>2, <1>4 DEF Remains, Torn, Blank
  <2> QED
    BY <1>1, <1>2, <2>1
<1> QED
  BY <1>1, <1>2, <1>3, <1>4

(* At the end of the stream, what a cut left of a frame is dispatched as   *)
(* far as it stands for something.                                         *)
LEMMA EmitsAtEnd ==
    ASSUME Types, NEW name, NEW id, NEW data \in Seq(Values),
           NEW next \in {"watch_stream_closed", "runtime_error"},
           Emits(name, id, data, next),
           UNCHANGED <<connection, frames, cut, sent>>, connection # "open",
           pc = "read", GoodTo(Len(frames)), Len(sent) = Len(Meant),
           cut = NoFrame => name = "blank" /\ data = <<>>,
           cut # NoFrame => /\ name \in Torn \cup ValuesOf(cut.lines, "event")
                            /\ ToSet(data) \subseteq Torn \cup ValuesOf(cut.lines, "data")
    PROVE  pc' = "returned" \/ Ending'
<1>1. CASE StandsFor(name, data) \notin Alive
  BY <1>1, EmitsDecodes
<1>2. CASE StandsFor(name, data) \in Alive
  <2>1. cut \in SidecarFrames /\ cut # NoFrame
    BY <1>2, NothingIsIgnored DEF Alive, Types, TypeOK
  <2>2. pc' = "send" /\ then' = next /\ event'.type = StandsFor(name, data)
    BY <1>2, EmitsDecodes DEF Alive
  <2>3. Agrees(cut) => StandsFor(name, data) = cut.type
    BY <1>2, <2>1, FrameFacts, PartsAgree
  <2>4. Meant' = Meant /\ Agrees(cut)' = Agrees(cut) /\ GoodTo(Len(frames))'
    BY DEF Meant, Agrees, GoodTo
  <2> QED
    BY <2>1, <2>2, <2>3, <2>4 DEF Ending
<1> QED
  BY <1>1, <1>2

LEMMA ReadsAtEnd ==
    ASSUME Types, NEW at, NEW read, NEW k, Reading(at, read, k), GoodTo(k),
           Collecting(at, read, k), unread = <<>>, connection # "open",
           NEW line \in Lines, line = (IF rest = None THEN Blank ELSE rest),
           NEW err \in {"eof", "failed"}, rest' = None,
           UNCHANGED <<connection, unread, frames, cut, sent>>, ReadsLine(line, err)
    PROVE  /\ pc' # "returned" => InStream' \/ Ending'
           /\ result' = "watch_stream_closed" => Len(sent) = Len(Meant)
<1> DEFINE N == Len(frames)
           n == CutLines(at)
           c == Collected(cut.lines)[n]
<1>1. /\ N \in Nat /\ k \in 0..N /\ read \in Nat /\ at[k] \in Nat /\ at[k+1] \in Nat
      /\ at[N] \in Nat /\ at[N+1] \in Nat /\ at[k+1] <= at[N+1]
  <2>1. N \in Nat /\ k \in 0..N
    BY ReadingTypes
  <2>2. k + 1 \in 0..N+1 /\ N \in 0..N+1 /\ N + 1 \in 0..N+1
    BY <2>1
  <2> QED
    BY <2>1, <2>2, ReadingTypes
<1>2. read = at[N+1]
  BY <1>1 DEF Reading, Coming
<1>3. k = N
  BY <1>1, <1>2 DEF Reading, Position
<1>4. n = read - at[k] /\ n \in Nat
  BY <1>1, <1>2, <1>3 DEF CutLines, Reading, Position
<1>5. FrameAt(k+1) = cut
  BY <1>1, <1>3 DEF FrameAt
<1>6. /\ Holds(c) /\ pc = "read" /\ Len(sent) = Len(Meant) /\ GoodTo(N)
      /\ result = "none"
  BY <1>3, <1>4, <1>5 DEF Collecting, Meant, Types, TypeOK
<1>7. /\ n <= Len(cut.lines) /\ (cut # NoFrame => n < Len(cut.lines))
      /\ rest # None => cut # NoFrame /\ rest \in Remains(cut.lines[n+1])
  BY DEF Reading, CutAt
<1> HIDE DEF n
<1>8. cut \in SidecarFrames \/ cut = NoFrame
  BY DEF Types, TypeOK
<1>9. cut = NoFrame => rest = None /\ c = NoFields
  <2>1. SUFFICES ASSUME cut = NoFrame PROVE rest = None /\ c = NoFields
    OBVIOUS
  <2>2. Len(NoFrame.lines) = 0
    BY DEF NoFrame
  <2>3. n = 0
    BY <1>4, <1>7, <2>1, <2>2
  <2>4. Collected(FrameAt(N+1).lines)[0] = NoFields
    BY <1>1, LinesOfFrame
  <2> QED
    BY <1>3, <1>5, <1>7, <2>1, <2>3, <2>4
<1>10. cut # NoFrame =>
          /\ n \in 0..Len(cut.lines) /\ c.name \in {"blank"} \cup ValuesOf(cut.lines, "event")
          /\ c.data \in Seq(ValuesOf(cut.lines, "data"))
  <2>1. SUFFICES ASSUME cut \in SidecarFrames, cut # NoFrame
                 PROVE  n \in 0..Len(cut.lines)
    BY <1>8, PartOfFrame
  <2>2. Len(cut.lines) \in Nat
    BY <2>1, FrameFacts
  <2> QED
    BY <1>4, <1>7, <2>1, <2>2
<1>11. dataLines \in Seq(Values) /\ line.value \in Values
  BY DEF Types, Lines
<1>12. CASE line.field = "blank"
  <2>1. ReadsBlank(err)
    BY <1>12 DEF ReadsLine
  <2>2. PICK next \in {"watch_stream_closed", "runtime_error"} :
          Emits(currentEventName, currentEventID, dataLines, next)
    BY <2>1 DEF ReadsBlank
  <2>3. cut = NoFrame => currentEventName = "blank" /\ dataLines = <<>>
    BY <1>6, <1>9 DEF Holds, NoFields
  <2>4. cut # NoFrame =>
           /\ currentEventName \in Torn \cup ValuesOf(cut.lines, "event")
           /\ ToSet(dataLines) \subseteq Torn \cup ValuesOf(cut.lines, "data")
    BY <1>6, <1>10 DEF Holds, Torn, ToSet
  <2>5. pc' = "returned" \/ Ending'
    BY <1>6, <1>11, <2>2, <2>3, <2>4, EmitsAtEnd
  <2> QED
    BY <1>6, <2>5
<1>13. CASE line.field = "comment"
  <2>1. pc' = "read" /\ UNCHANGED <<frameVars, result>>
    BY <1>13 DEF ReadsLine, ReadsComment
  <2>2. Reading(at, read, k)'
    BY <1>7 DEF Reading, Numbered, CutAt, CutLines, Position, Coming, FrameAt
  <2>3. Collecting(at, read, k)'
    <3>1. FrameAt(k+1)' = FrameAt(k+1)
      BY DEF FrameAt
    <3> QED
      BY <2>1, <3>1 DEF Collecting, Holds, frameVars
  <2>4. GoodTo(k)'
    BY DEF GoodTo
  <2>5. InStream'
    BY <2>2, <2>3, <2>4 DEF InStream
  <2> QED
    BY <1>6, <2>5
<1>14. CASE line.field \notin {"blank", "comment"}
  <2>1. ReadsField(line, err)
    BY <1>14 DEF ReadsLine
  <2>2. /\ rest # None /\ line = rest /\ cut \in SidecarFrames /\ cut # NoFrame
        /\ rest \in Remains(cut.lines[n+1])
    BY <1>7, <1>8, <1>14 DEF Blank
  <2>3. /\ cut.lines[n+1] \in Lines
        /\ cut.lines[n+1].field = "blank" => cut.lines[n+1] = Blank
        /\ n + 1 \in 1..Len(cut.lines)
    <3>1. n + 1 \in 1..Len(cut.lines) /\ (n + 1 = Len(cut.lines) \/ n + 1 \in 1..Len(cut.lines) - 1)
      BY <1>4, <1>7, <2>2, FrameFacts
    <3> QED
      BY <2>2, <3>1, FrameFacts
  <2>4. \A field \in {"event", "data"} : line.field = field =>
           line.value \in Torn \cup ValuesOf(cut.lines, field)
    BY <1>11, <2>2, <2>3, RemainsTorn DEF ValuesOf
  <2>5. CASE err = "failed"
    BY <2>1, <2>5 DEF ReadsField, Returns
  <2>6. CASE err = "eof"
    <3>1. Emits(currentEventName', currentEventID', dataLines', "watch_stream_closed")
      BY <2>1, <2>6 DEF ReadsField
    <3>2. currentEventName' = IF line.field = "event" THEN line.value ELSE c.name
      BY <1>6, <2>1 DEF ReadsField, Holds
    <3>3. currentEventName' \in Torn \cup ValuesOf(cut.lines, "event")
      BY <1>10, <2>2, <2>4, <3>2 DEF Torn
    <3>4. dataLines' = IF line.field = "data" THEN Append(c.data, line.value) ELSE c.data
      BY <1>6, <2>1 DEF ReadsField, Holds
    <3>5. c.data \in Seq(Torn \cup ValuesOf(cut.lines, "data"))
      BY <1>10, <2>2
    <3>6. dataLines' \in Seq(Torn \cup ValuesOf(cut.lines, "data"))
      BY <2>4, <3>4, <3>5
    <3>7. ToSet(dataLines') \subseteq Torn \cup ValuesOf(cut.lines, "data")
      BY <3>6 DEF ToSet
    <3>8. dataLines' \in Seq(Values)
      <4>1. Torn \cup ValuesOf(cut.lines, "data") \subseteq Values
        BY DEF Torn, ValuesOf, Values
      <4> QED
        BY <3>6, <4>1
    <3>9. pc' = "returned" \/ Ending'
      BY <1>6, <2>2, <3>1, <3>3, <3>7, <3>8, EmitsAtEnd
    <3> QED
      BY <1>6, <3>9
  <2> QED
    BY <2>5, <2>6
<1> QED
  BY <1>12, <1>13, <1>14

-----------------------------------------------------------------------------
(* The stream, step by step.                                               *)

LEMMA StreamFirst == Init => StreamInv
<1>1. SUFFICES ASSUME Init PROVE StreamInv
  OBVIOUS
<1>2. Types
  BY <1>1, TypesFirst
<1>3. /\ frames = <<>> /\ cut = NoFrame /\ sent = <<>> /\ unread = <<>>
      /\ rest = None /\ connection = "open" /\ result = "none" /\ pc = "read"
      /\ Len(frames) = 0
  BY <1>1 DEF Init
<1>4. MeantBy(frames)[0] = <<>> /\ Meant = <<>>
  BY <1>2, <1>3, MeantLoop DEF Meant, Types, TypeOK
<1> DEFINE at == [i \in 0..1 |-> 0]
<1>5. Reading(at, 0, 0)
  <2>1. Numbered(at) /\ CutLines(at) = 0
    BY <1>3 DEF Numbered, CutLines
  <2>2. CutAt(CutLines(at))
    BY <1>3, <2>1 DEF CutAt, NoFrame
  <2>3. Position(at, 0, 0) /\ Coming(at, 0)
    BY <1>3 DEF Position, Coming
  <2> QED
    BY <2>1, <2>2, <2>3 DEF Reading
<1>6. Collecting(at, 0, 0)
  <2>1. Collected(FrameAt(0+1).lines)[0] = NoFields
    <3>1. 0 + 1 \in 1..Len(frames)+1
      BY <1>3
    <3> QED
      BY <1>2, <3>1, LinesOfFrame
  <2>2. Holds(NoFields)
    BY <1>1 DEF Init, Holds, NoFields
  <2> QED
    BY <1>3, <1>4, <2>1, <2>2 DEF Collecting
<1>7. InStream
  BY <1>5, <1>6 DEF InStream, GoodTo
<1>8. FramesDispatched /\ CutInventsNothing
  BY <1>3, <1>4 DEF FramesDispatched, CutInventsNothing
<1> QED
  BY <1>2, <1>3, <1>7, <1>8 DEF StreamInv

(* More frames are written: what was meant stays the beginning of it.      *)
LEMMA WritesMeans ==
    ASSUME Types, NEW frame \in SidecarFrames, SidecarWrites(frame)
    PROVE  /\ \A k \in 0..Len(frames) : MeantBy(frames')[k] = MeantBy(frames)[k]
           /\ Len(Meant) <= Len(Meant') /\ Len(Meant) \in Nat /\ Len(Meant') \in Nat
           /\ \A i \in 1..Len(Meant) : Meant'[i] = Meant[i]
<1>1. /\ frames \in Seq(SidecarFrames) /\ frames' = Append(frames, frame)
      /\ frames' \in Seq(SidecarFrames) /\ Len(frames') = Len(frames) + 1
  BY DEF Types, TypeOK, SidecarWrites
<1>2. \A k \in 0..Len(frames) : MeantBy(frames')[k] = MeantBy(frames)[k]
  BY <1>1, MeantStable
<1>3. Len(frames) \in 0..Len(frames') /\ Len(frames') \in Len(frames)..Len(frames')
  BY <1>1
<1>4. /\ Len(MeantBy(frames')[Len(frames)]) <= Len(MeantBy(frames')[Len(frames')])
      /\ \A i \in 1..Len(MeantBy(frames')[Len(frames)]) :
            MeantBy(frames')[Len(frames')][i] = MeantBy(frames')[Len(frames)][i]
  BY <1>1, <1>3, MeantGrows
<1>5. /\ Meant = MeantBy(frames')[Len(frames)] /\ Meant' = MeantBy(frames')[Len(frames')]
      /\ Meant \in Seq(SidecarFrames) /\ Meant' \in Seq(SidecarFrames)
  <2>1. Len(frames) \in 0..Len(frames) /\ Len(frames') \in 0..Len(frames')
    BY <1>1
  <2> QED
    BY <1>1, <1>2, <2>1, MeantLoop DEF Meant
<1> QED
  BY <1>2, <1>4, <1>5

LEMMA WritesReading ==
    ASSUME Types, NEW frame \in SidecarFrames, SidecarWrites(frame), cut = NoFrame,
           rest = None, NEW at, NEW read, NEW k, Reading(at, read, k)
    PROVE  \E to : /\ \A i \in 0..Len(frames) : to[i] = at[i]
                   /\ Reading(to, read, k)'
                   /\ \A i \in 1..Len(frames) : FrameAt(i)' = FrameAt(i)
                   /\ k = Len(frames) => read = at[k]
<1>1. PICK N \in Nat : N = Len(frames)
  BY ReadingTypes
<1>2. /\ N \in Nat /\ k \in 0..N /\ read \in Nat /\ N = Len(frames)
      /\ at[N] \in Nat /\ at[N+1] \in Nat /\ Len(frame.lines) \in Nat \ {0}
      /\ at[N] <= at[N+1]
  <2>1. N \in 0..N+1 /\ N + 1 \in 0..N+1
    OBVIOUS
  <2> QED
    BY <1>1, <2>1, ReadingTypes, FrameFacts
<1>3. frames' = Append(frames, frame) /\ unread' = unread \o frame.lines
  BY DEF SidecarWrites
<1>4. /\ Len(frames') = N + 1 /\ frames'[N+1] = frame
      /\ \A i \in 1..N : frames'[i] = frames[i]
  BY <1>2, <1>3 DEF Types, TypeOK
<1>5. UNCHANGED <<cut, rest>>
  BY DEF SidecarWrites
<1>6. at[N+1] = at[N]
  <2>1. at[N+1] - at[N] <= Len(NoFrame.lines) /\ Len(NoFrame.lines) = 0
    BY <1>2 DEF Reading, CutAt, CutLines, NoFrame
  <2> QED
    BY <1>2, <2>1
<1>7. \A i \in 0..N+1 : at[i] \in Nat /\ at[i] <= at[N]
  BY <1>2, <1>6, ReadingTypes
<1>8. PICK to :
      /\ \A i \in 0..N : to[i] = at[i] /\ to[i] \in Nat
      /\ to[N+1] = at[N] + Len(frame.lines) /\ to[N+2] = to[N+1]
      /\ to \in [0..N+2 -> Nat]
  <2> DEFINE g == [i \in 0..N+2 |-> IF i <= N THEN at[i] ELSE at[N] + Len(frame.lines)]
  <2>1. /\ \A i \in 0..N : g[i] = at[i] /\ g[i] \in Nat
        /\ g[N+1] = at[N] + Len(frame.lines) /\ g[N+2] = g[N+1]
        /\ g \in [0..N+2 -> Nat]
    <3>1. at[N] + Len(frame.lines) \in Nat
      BY <1>2
    <3>2. \A i \in 0..N : g[i] = at[i] /\ g[i] \in Nat
      <4>1. \A i \in 0..N : at[i] \in Nat
        BY <1>7
      <4>2. \A i \in 0..N : g[i] = at[i]
        OBVIOUS
      <4> QED
        BY <4>1, <4>2
    <3>3. g[N+1] = at[N] + Len(frame.lines) /\ g[N+2] = at[N] + Len(frame.lines)
      OBVIOUS
    <3>4. g \in [0..N+2 -> Nat]
      BY <1>7, <3>1
    <3> QED
      BY <3>2, <3>3, <3>4
  <2> QED
    BY <2>1
<1>9. \A i \in 1..N : FrameAt(i)' = FrameAt(i) /\ FrameAt(i) = frames[i]
  BY <1>2, <1>4 DEF FrameAt
<1>10. FrameAt(N+1)' = frame
  BY <1>2, <1>4 DEF FrameAt
<1>11. Numbered(to)'
  <2>1. to \in [0..Len(frames')+1 -> Nat]
    <3>1. (N + 1) + 1 = N + 2
      BY <1>2
    <3> QED
      BY <1>4, <1>8, <3>1
  <2>2. to[0] = 0
    BY <1>2, <1>8 DEF Reading, Numbered
  <2>3. ASSUME NEW i \in 1..Len(frames') PROVE to[i] = to[i-1] + Len(frames'[i].lines)
    <3>1. CASE i = N + 1
      <4>1. i - 1 \in 0..N /\ i - 1 = N
        BY <1>2, <3>1
      <4> QED
        BY <1>4, <1>8, <3>1, <4>1
    <3>2. CASE i # N + 1
      <4>1. i \in 1..N /\ i \in 0..N /\ i - 1 \in 0..N
        BY <1>2, <1>4, <3>2
      <4> QED
        <5>1. at[i] = at[i-1] + Len(frames[i].lines)
          BY <1>2, <4>1, ReadingTypes
        <5> QED
          BY <1>4, <1>8, <4>1, <5>1
    <3> QED
      BY <3>1, <3>2
  <2>4. ASSUME NEW i \in 0..Len(frames') PROVE to[i] <= to[Len(frames')+1]
    <3>1. Len(frames') + 1 = N + 2 /\ (i \in 0..N \/ i = N + 1)
      BY <1>2, <1>4
    <3>2. to[N+2] = at[N] + Len(frame.lines) /\ to[N+2] = to[N+1]
      BY <1>8
    <3>3. \A j \in 0..N : to[j] = at[j] /\ at[j] \in Nat /\ at[j] <= at[N]
      <4>1. \A j \in 0..N : at[j] \in Nat /\ at[j] <= at[N]
        BY <1>7
      <4>2. \A j \in 0..N : to[j] = at[j]
        BY <1>8
      <4> QED
        BY <4>1, <4>2
    <3>4. to[i] <= to[N+2]
      <4>1. at[N] \in Nat /\ Len(frame.lines) \in Nat
        BY <1>2
      <4>2. CASE i = N + 1
        BY <3>2, <4>1, <4>2
      <4>3. CASE i \in 0..N
        BY <3>2, <3>3, <4>1, <4>3
      <4> QED
        BY <3>1, <4>2, <4>3
    <3> QED
      BY <3>1, <3>4
  <2> QED
    BY <2>1, <2>2, <2>3, <2>4 DEF Numbered
<1>12. CutAt(CutLines(to))'
  <2>1. Len(frames') + 1 = N + 2
    BY <1>2, <1>4
  <2>2. to[Len(frames')+1] - to[Len(frames')] = 0
    BY <1>2, <1>4, <1>8, <2>1
  <2> QED
    BY <1>5, <2>2 DEF CutAt, CutLines, NoFrame, SidecarWrites
<1>13. Position(to, read, k)' /\ (k = N => read = at[k])
  <2>1. CASE k < N
    <3>1. k \in 0..N /\ k + 1 \in 0..N
      BY <1>2, <2>1
    <3>2. read \in to[k]..to[k+1] /\ read < to[k+1]
      <4>1. read \in at[k]..at[k+1] /\ read < at[k+1]
        BY <1>2, <2>1 DEF Reading, Position
      <4> QED
        BY <1>8, <3>1, <4>1
    <3> QED
      BY <1>2, <1>4, <2>1, <3>2 DEF Position
  <2>2. CASE k = N
    <3>1. read \in at[k]..at[k+1]
      BY DEF Reading, Position
    <3>2. read = at[N] /\ N \in 0..N
      BY <1>2, <1>6, <2>2, <3>1
    <3>3. read \in to[k]..to[k+1] /\ read < to[k+1]
      BY <1>2, <1>8, <2>2, <3>2
    <3> QED
      BY <1>2, <1>4, <2>2, <3>2, <3>3 DEF Position
  <2> QED
    BY <1>2, <2>1, <2>2
<1>14. Coming(to, read)'
  <2>1. /\ Len(unread) = at[N] - read /\ Len(unread) \in Nat
        /\ Len(unread') = Len(unread) + Len(frame.lines)
        /\ \A j \in 1..Len(unread) : unread'[j] = unread[j]
        /\ \A j \in 1..Len(frame.lines) : unread'[Len(unread) + j] = frame.lines[j]
    <3>1. Len(unread) = at[N] - read
      BY <1>2, <1>6 DEF Reading, Coming
    <3>2. unread \in Seq(Lines) /\ frame.lines \in Seq(Lines)
      BY FrameFacts DEF Types
    <3>3. /\ Len(unread) \in Nat /\ Len(unread') = Len(unread) + Len(frame.lines)
          /\ \A j \in 1..Len(unread) : unread'[j] = unread[j]
      BY <1>3, <3>2
    <3>4. \A j \in 1..Len(frame.lines) : unread'[Len(unread) + j] = frame.lines[j]
      BY <1>3, <3>2
    <3> QED
      BY <3>1, <3>3, <3>4
  <2>2. Len(unread') = to[Len(frames')+1] - read
    <3>1. Len(frames') + 1 = N + 2
      BY <1>2, <1>4
    <3>2. to[N+2] = at[N] + Len(frame.lines)
      BY <1>8
    <3> QED
      <4>1. at[N] \in Nat /\ read \in Nat /\ Len(frame.lines) \in Nat
        BY <1>2
      <4>2. Len(unread') = (at[N] - read) + Len(frame.lines)
        BY <2>1
      <4>3. (at[N] - read) + Len(frame.lines) = (at[N] + Len(frame.lines)) - read
        BY <4>1
      <4> QED
        BY <3>1, <3>2, <4>2, <4>3
  <2>3. ASSUME NEW i \in 1..Len(frames')+1, NEW l \in 1..to[i] - to[i-1],
               to[i-1] + l > read
        PROVE  unread'[to[i-1] + l - read] = FrameAt(i)'.lines[l]
    <3>1. CASE i \in 1..N
      <4>1. to[i] = at[i] /\ to[i-1] = at[i-1] /\ at[i] \in Nat /\ at[i-1] \in Nat
            /\ at[i] <= at[N]
        <5>1. i \in 0..N /\ i - 1 \in 0..N /\ i \in 0..N+1 /\ i - 1 \in 0..N+1
          BY <3>1
        <5> QED
          BY <1>7, <1>8, <5>1
      <4>2. unread[at[i-1] + l - read] = FrameAt(i).lines[l]
        <5>1. Coming(at, read)
          BY DEF Reading
        <5>2. i \in 1..Len(frames)+1
          BY <1>2, <3>1
        <5>3. \A j \in 1..at[i] - at[i-1] :
                 at[i-1] + j > read => unread[at[i-1] + j - read] = FrameAt(i).lines[j]
          BY <5>1, <5>2 DEF Coming
        <5> QED
          BY <2>3, <4>1, <5>3
      <4>3. at[i-1] + l - read \in 1..Len(unread)
        <5>1. l \in 1..at[i] - at[i-1] /\ at[i-1] + l > read
          BY <2>3, <4>1
        <5>2. at[N] \in Nat /\ read \in Nat
          BY <1>2
        <5>3. at[i-1] + l - read \in 1..at[N] - read
          BY <4>1, <5>1, <5>2, Within
        <5> QED
          BY <2>1, <5>3
      <4> QED
        BY <1>9, <2>1, <3>1, <4>1, <4>2, <4>3
    <3>2. CASE i = N + 1
      <4>1. i - 1 \in 0..N /\ i - 1 = N
        BY <1>2, <3>2
      <4>2. to[i-1] = at[N] /\ l \in 1..Len(frame.lines)
        <5>1. to[i-1] = at[N] /\ to[i] = at[N] + Len(frame.lines)
          BY <1>8, <3>2, <4>1
        <5>2. (at[N] + Len(frame.lines)) - at[N] = Len(frame.lines)
          BY <1>2
        <5> QED
          BY <5>1, <5>2
      <4>3. to[i-1] + l - read = Len(unread) + l
        <5>1. at[N] \in Nat /\ read \in Nat /\ l \in Nat
          BY <1>2, <4>2
        <5>2. to[i-1] + l - read = (at[N] - read) + l
          BY <4>2, <5>1, Beyond
        <5> QED
          BY <2>1, <5>2
      <4> QED
        BY <1>10, <2>1, <3>2, <4>2, <4>3
    <3>3. CASE i = N + 2
      <4>1. i - 1 = N + 1
        BY <1>2, <3>3
      <4>2. to[i] - to[i-1] = 0
        <5>1. to[i] = at[N] + Len(frame.lines) /\ to[i-1] = at[N] + Len(frame.lines)
          BY <1>8, <3>3, <4>1
        <5>2. at[N] + Len(frame.lines) \in Nat
          BY <1>2
        <5> QED
          BY <5>1, <5>2
      <4> QED
        BY <4>2
    <3>4. i \in 1..N \/ i = N + 1 \/ i = N + 2
      <4>1. Len(frames') = N + 1
        BY <1>2, <1>4
      <4>2. Len(frames') + 1 = N + 2
        BY <4>1
      <4>3. i \in 1..N + 2
        BY <4>2
      <4> QED
        BY <4>3
    <3> QED
      BY <3>1, <3>2, <3>3, <3>4
  <2> QED
    BY <2>2, <2>3 DEF Coming
<1>15. Reading(to, read, k)'
  BY <1>11, <1>12, <1>13, <1>14 DEF Reading
<1> QED
  BY <1>2, <1>8, <1>9, <1>13, <1>15

(* The stream is cut in line n of a frame.                                 *)
LEMMA CutReading ==
    ASSUME Types, NEW frame \in SidecarFrames, NEW n \in 1..Len(frame.lines),
           cut = NoFrame, cut' = frame, UNCHANGED frames,
           unread' = unread \o SubSeq(frame.lines, 1, n - 1),
           rest' \in Remains(frame.lines[n]),
           NEW at, NEW read, NEW k, Reading(at, read, k)
    PROVE  \E to : /\ \A i \in 0..Len(frames) : to[i] = at[i]
                   /\ Reading(to, read, k)'
                   /\ \A i \in 1..Len(frames) : FrameAt(i)' = FrameAt(i)
                   /\ k = Len(frames) => read = at[k]
<1>1. PICK N \in Nat : N = Len(frames)
  BY ReadingTypes
<1>2. PICK m \in Nat : m = n - 1 /\ m < Len(frame.lines) /\ m + 1 = n
  <2>1. Len(frame.lines) \in Nat /\ n \in 1..Len(frame.lines)
    BY FrameFacts
  <2> QED
    BY <2>1
<1>3. /\ N \in Nat /\ k \in 0..N /\ read \in Nat /\ N = Len(frames) /\ N = Len(frames')
      /\ at[N] \in Nat /\ at[N+1] \in Nat /\ Len(frame.lines) \in Nat \ {0}
      /\ at[N] <= at[N+1]
  <2>1. N \in 0..N+1 /\ N + 1 \in 0..N+1
    OBVIOUS
  <2>2. Len(frame.lines) \in Nat \ {0}
    BY FrameFacts
  <2> QED
    BY <1>1, <2>1, <2>2, ReadingTypes
<1>4. at[N+1] = at[N]
  <2>1. at[N+1] - at[N] <= Len(NoFrame.lines) /\ Len(NoFrame.lines) = 0
    BY <1>3 DEF Reading, CutAt, CutLines, NoFrame
  <2> QED
    BY <1>3, <2>1
<1>5. \A i \in 0..N+1 : at[i] \in Nat /\ at[i] <= at[N]
  BY <1>3, <1>4, ReadingTypes
<1>6. PICK to :
      /\ \A i \in 0..N : to[i] = at[i] /\ to[i] \in Nat
      /\ to[N+1] = at[N] + m /\ to \in [0..N+1 -> Nat]
  <2> DEFINE g == [i \in 0..N+1 |-> IF i <= N THEN at[i] ELSE at[N] + m]
  <2>1. /\ \A i \in 0..N : g[i] = at[i] /\ g[i] \in Nat
        /\ g[N+1] = at[N] + m /\ g \in [0..N+1 -> Nat]
    <3>1. at[N] \in Nat /\ m \in Nat
      BY <1>3
    <3>2. \A i \in 0..N : g[i] = at[i] /\ g[i] \in Nat
      <4>1. \A i \in 0..N : at[i] \in Nat
        BY <1>5
      <4>2. \A i \in 0..N : g[i] = at[i]
        OBVIOUS
      <4> QED
        BY <4>1, <4>2
    <3>3. g[N+1] = at[N] + m
      OBVIOUS
    <3>4. g \in [0..N+1 -> Nat]
      BY <1>5, <3>1
    <3> QED
      BY <3>2, <3>3, <3>4
  <2> QED
    BY <2>1
<1>7. \A i \in 1..N : FrameAt(i)' = FrameAt(i)
  BY <1>3 DEF FrameAt
<1>8. FrameAt(N+1)' = frame
  BY <1>3 DEF FrameAt
<1>9. Numbered(to)'
  <2>1. to \in [0..Len(frames')+1 -> Nat] /\ to[0] = 0
    BY <1>3, <1>6 DEF Reading, Numbered
  <2>2. ASSUME NEW i \in 1..Len(frames') PROVE to[i] = to[i-1] + Len(frames'[i].lines)
    <3>1. i \in 0..N /\ i - 1 \in 0..N /\ i \in 1..Len(frames)
      <4>1. Len(frames') = N /\ Len(frames) = N
        BY <1>3
      <4> QED
        BY <4>1
    <3>2. at[i] = at[i-1] + Len(frames[i].lines)
      BY <3>1, ReadingTypes
    <3> QED
      BY <1>6, <3>1, <3>2
  <2>3. ASSUME NEW i \in 0..Len(frames') PROVE to[i] <= to[Len(frames')+1]
    <3>1. i \in 0..N /\ at[i] \in Nat /\ at[i] <= at[N] /\ to[i] = at[i]
      <4>1. i \in 0..N
        BY <1>3
      <4>2. i \in 0..N+1
        BY <4>1
      <4> QED
        BY <1>5, <1>6, <4>1, <4>2
    <3>2. to[N+1] = at[N] + m
      BY <1>6
    <3>3. to[i] <= to[N+1]
      BY <1>3, <3>1, <3>2
    <3> QED
      BY <1>3, <3>3
  <2> QED
    BY <2>1, <2>2, <2>3 DEF Numbered
<1>10. CutAt(CutLines(to))'
  <2>1. to[Len(frames')+1] - to[Len(frames')] = m /\ m + 1 = n
    <3>1. N \in 0..N /\ to[N] = at[N] /\ to[N+1] = at[N] + m
      <4>1. N \in 0..N
        OBVIOUS
      <4> QED
        BY <1>6, <4>1
    <3>2. to[N+1] - to[N] = m /\ m + 1 = n
      BY <1>3, <1>2, <3>1
    <3> QED
      BY <1>3, <3>2
  <2> QED
    BY <1>3, <1>2, <2>1, FrameFacts DEF CutAt, CutLines
<1>11. Position(to, read, k)' /\ (k = N => read = at[k])
  <2>1. CASE k < N
    <3>1. k \in 0..N /\ k + 1 \in 0..N
      BY <1>3, <2>1
    <3>2. read \in at[k]..at[k+1] /\ read < at[k+1]
      BY <1>3, <2>1 DEF Reading, Position
    <3>3. read \in to[k]..to[k+1] /\ read < to[k+1]
      BY <1>6, <3>1, <3>2
    <3> QED
      BY <1>3, <2>1, <3>3 DEF Position
  <2>2. CASE k = N
    <3>1. read \in at[k]..at[k+1]
      BY DEF Reading, Position
    <3>2. read = at[N] /\ N \in 0..N
      BY <1>3, <1>4, <2>2, <3>1
    <3>3. to[k] = at[N] /\ to[k+1] = at[N] + m
      BY <1>6, <2>2, <3>2
    <3>4. read \in to[k]..to[k+1]
      <4>1. at[N] \in at[N]..at[N] + m
        BY <1>3
      <4> QED
        BY <3>2, <3>3, <4>1
    <3>5. k \in 0..Len(frames') /\ ~(k < Len(frames'))
      <4>1. Len(frames') = N
        BY <1>3
      <4> QED
        BY <2>2, <4>1
    <3> QED
      BY <2>2, <3>2, <3>4, <3>5 DEF Position
  <2> QED
    BY <1>3, <2>1, <2>2
<1>12. Coming(to, read)'
  <2> DEFINE part == SubSeq(frame.lines, 1, m)
  <2>1. /\ Len(unread) = at[N] - read /\ Len(unread) \in Nat
        /\ Len(unread') = Len(unread) + m
        /\ \A j \in 1..Len(unread) : unread'[j] = unread[j]
        /\ \A j \in 1..m : unread'[Len(unread) + j] = frame.lines[j]
    <3>1. Len(unread) = at[N] - read
      BY <1>3, <1>4 DEF Reading, Coming
    <3>2. unread \in Seq(Lines) /\ frame.lines \in Seq(Lines)
      BY FrameFacts DEF Types
    <3>3. /\ part \in Seq(Lines) /\ Len(part) = m
          /\ \A j \in 1..m : part[j] = frame.lines[j]
      <4>1. m \in 0..Len(frame.lines) /\ m <= Len(frame.lines)
        BY <1>2, <3>2
      <4> QED
        BY <3>2, <4>1
    <3> HIDE DEF part
    <3>4. /\ Len(unread) \in Nat /\ Len(unread') = Len(unread) + Len(part)
          /\ \A j \in 1..Len(unread) : unread'[j] = unread[j]
          /\ \A j \in 1..Len(part) : unread'[Len(unread) + j] = part[j]
      BY <1>2, <3>2, <3>3 DEF part
    <3> QED
      BY <3>1, <3>3, <3>4
  <2>2. Len(unread') = to[Len(frames')+1] - read
    <3>1. to[N+1] = at[N] + m
      BY <1>6
    <3> QED
      BY <1>3, <2>1, <3>1
  <2>3. ASSUME NEW i \in 1..Len(frames')+1, NEW l \in 1..to[i] - to[i-1],
               to[i-1] + l > read
        PROVE  unread'[to[i-1] + l - read] = FrameAt(i)'.lines[l]
    <3>1. CASE i \in 1..N
      <4>1. to[i] = at[i] /\ to[i-1] = at[i-1] /\ at[i] \in Nat /\ at[i-1] \in Nat
            /\ at[i] <= at[N]
        <5>1. i \in 0..N /\ i - 1 \in 0..N /\ i \in 0..N+1 /\ i - 1 \in 0..N+1
          BY <3>1
        <5> QED
          BY <1>5, <1>6, <5>1
      <4>2. unread[at[i-1] + l - read] = FrameAt(i).lines[l]
        <5>1. Coming(at, read)
          BY DEF Reading
        <5>2. i \in 1..Len(frames)+1
          BY <1>3, <3>1
        <5>3. \A j \in 1..at[i] - at[i-1] :
                 at[i-1] + j > read => unread[at[i-1] + j - read] = FrameAt(i).lines[j]
          BY <5>1, <5>2 DEF Coming
        <5> QED
          BY <2>3, <4>1, <5>3
      <4>3. at[i-1] + l - read \in 1..Len(unread)
        <5>1. l \in 1..at[i] - at[i-1] /\ at[i-1] + l > read
          BY <2>3, <4>1
        <5>2. at[N] \in Nat /\ read \in Nat
          BY <1>3
        <5>3. at[i-1] + l - read \in 1..at[N] - read
          BY <4>1, <5>1, <5>2, Within
        <5> QED
          BY <2>1, <5>3
      <4> QED
        BY <1>7, <2>1, <3>1, <4>1, <4>2, <4>3
    <3>2. CASE i = N + 1
      <4>1. N \in 0..N /\ i - 1 = N
        BY <1>3, <3>2
      <4>2. to[i-1] = at[N] /\ to[i] = at[N] + m
        BY <1>6, <3>2, <4>1
      <4>3. l \in 1..m
        BY <1>3, <4>2
      <4>4. to[i-1] + l - read = Len(unread) + l
        <5>1. at[N] \in Nat /\ read \in Nat /\ l \in Nat
          BY <1>3, <4>3
        <5>2. to[i-1] + l - read = (at[N] - read) + l
          BY <4>2, <5>1, Beyond
        <5> QED
          BY <2>1, <5>2
      <4> QED
        BY <1>8, <2>1, <3>2, <4>3, <4>4
    <3>3. Len(frames') + 1 = N + 1 /\ (i \in 1..N \/ i = N + 1)
      <4>1. Len(frames') = N
        BY <1>3
      <4> QED
        BY <4>1
    <3> QED
      BY <3>1, <3>2, <3>3
  <2> QED
    BY <2>2, <2>3 DEF Coming
<1>13. Reading(to, read, k)'
  BY <1>9, <1>10, <1>11, <1>12 DEF Reading
<1> QED
  BY <1>3, <1>6, <1>7, <1>11, <1>13

LEMMA NothingCollected ==
    ASSUME NEW f \in SidecarFrames
    PROVE  Collected(f.lines)[0] = NoFields
<1>1. "blank" \in Values /\ f.lines \in Seq(Lines)
  BY FrameFacts DEF Values
<1>2. \A n \in 1..Len(f.lines) : f.lines[n].value \in Values
  BY FrameFacts DEF Lines
<1> QED
  BY <1>1, <1>2, CollectedLoop

(* What the sidecar and the connection do leaves the reader where it is.   *)
LEMMA Onwards ==
    ASSUME Types, NEW at, NEW read, NEW k, Reading(at, read, k), GoodTo(k),
           Collecting(at, read, k) \/ Sending(at, read, k),
           UNCHANGED <<pc, then, frameVars, event, sent>>,
           NEW to, Reading(to, read, k)', \A i \in 0..Len(frames) : to[i] = at[i],
           \A i \in 1..Len(frames) : FrameAt(i)' = FrameAt(i) /\ frames'[i] = frames[i],
           \A j \in 0..Len(frames) : MeantBy(frames')[j] = MeantBy(frames)[j],
           k = Len(frames) => read = at[k] /\ FrameAt(k+1)' \in SidecarFrames
    PROVE  InStream'
<1>1. /\ Len(frames) \in Nat /\ k \in 0..Len(frames) /\ read \in Nat /\ at[k] \in Nat
      /\ to[k] = at[k]
  BY ReadingTypes
<1>2. MeantBy(frames')[k] = MeantBy(frames)[k] /\ GoodTo(k)'
  BY <1>1 DEF GoodTo
<1>3. CASE Collecting(at, read, k)
  <2>1. Collected(FrameAt(k+1)'.lines)[read - to[k]] = Collected(FrameAt(k+1).lines)[read - at[k]]
    <3>1. CASE k < Len(frames)
      <4>1. k + 1 \in 1..Len(frames)
        BY <1>1, <3>1
      <4> QED
        BY <1>1, <4>1
    <3>2. CASE k = Len(frames)
      <4>1. read - at[k] = 0 /\ k + 1 \in 1..Len(frames)+1
        BY <1>1, <3>2
      <4>2. Collected(FrameAt(k+1).lines)[0] = NoFields
        BY <4>1, LinesOfFrame
      <4>3. Collected(FrameAt(k+1)'.lines)[0] = NoFields
        BY <3>2, NothingCollected
      <4> QED
        BY <1>1, <4>1, <4>2, <4>3
    <3> QED
      BY <1>1, <3>1, <3>2
  <2>2. /\ pc = "read" /\ Len(sent) = Len(MeantBy(frames)[k])
        /\ Holds(Collected(FrameAt(k+1).lines)[read - at[k]])
    BY <1>3 DEF Collecting
  <2>3. Collecting(to, read, k)'
    BY <1>2, <2>1, <2>2 DEF Collecting, Holds, frameVars
  <2> QED
    BY <1>2, <2>3 DEF InStream
<1>4. CASE Sending(at, read, k)
  <2>1. k \in 1..Len(frames) /\ k - 1 \in 0..Len(frames)
    BY <1>1, <1>4 DEF Sending
  <2>2. MeantBy(frames')[k-1] = MeantBy(frames)[k-1] /\ frames'[k] = frames[k]
    BY <2>1
  <2>3. Sending(to, read, k)'
    BY <1>1, <1>4, <2>2 DEF Sending, Means, Holds, frameVars
  <2> QED
    BY <1>2, <2>3 DEF InStream
<1> QED
  BY <1>3, <1>4

LEMMA EndsReading ==
    ASSUME Types, NEW how \in {"eof", "failed"}, ConnectionEnds(how),
           cut = NoFrame, rest = None, InStream
    PROVE  InStream'
<1>1. UNCHANGED <<frames, pc, then, frameVars, event, sent>>
  BY DEF ConnectionEnds
<1>2. PICK at, read, k :
         /\ Reading(at, read, k) /\ GoodTo(k)
         /\ Collecting(at, read, k) \/ Sending(at, read, k)
  BY DEF InStream
<1>3. CASE UNCHANGED <<unread, rest, cut>>
  <2>1. Reading(at, read, k)' /\ GoodTo(k)'
    BY <1>1, <1>2, <1>3 DEF Reading, Numbered, CutAt, CutLines, Position, Coming,
                            FrameAt, GoodTo
  <2>2. FrameAt(k+1)' = FrameAt(k+1)
    BY <1>1, <1>3 DEF FrameAt
  <2>3. Collecting(at, read, k) => Collecting(at, read, k)'
    BY <1>1, <2>2 DEF Collecting, Holds, frameVars
  <2>4. Sending(at, read, k) => Sending(at, read, k)'
    BY <1>1 DEF Sending, Means, Holds, frameVars
  <2> QED
    BY <1>2, <2>1, <2>3, <2>4 DEF InStream
<1>4. CASE \E frame \in SidecarFrames : \E n \in 1..Len(frame.lines) :
             /\ cut' = frame
             /\ unread' = unread \o SubSeq(frame.lines, 1, n - 1)
             /\ rest' \in Remains(frame.lines[n])
  <2>1. PICK frame \in SidecarFrames : \E n \in 1..Len(frame.lines) :
             /\ cut' = frame
             /\ unread' = unread \o SubSeq(frame.lines, 1, n - 1)
             /\ rest' \in Remains(frame.lines[n])
    BY <1>4
  <2>2. PICK n \in 1..Len(frame.lines) :
             /\ cut' = frame
             /\ unread' = unread \o SubSeq(frame.lines, 1, n - 1)
             /\ rest' \in Remains(frame.lines[n])
    BY <2>1
  <2>3. PICK to : /\ \A i \in 0..Len(frames) : to[i] = at[i]
                  /\ Reading(to, read, k)'
                  /\ \A i \in 1..Len(frames) : FrameAt(i)' = FrameAt(i)
                  /\ k = Len(frames) => read = at[k]
    BY <1>1, <1>2, <2>2, CutReading
  <2>4. k = Len(frames) => FrameAt(k+1)' = frame
    <3>1. Len(frames) \in Nat
      BY DEF Types, TypeOK
    <3> QED
      BY <1>1, <2>2, <3>1 DEF FrameAt
  <2> QED
    BY <1>1, <1>2, <2>3, <2>4, Onwards
<1> QED
  BY <1>3, <1>4 DEF ConnectionEnds

LEMMA WritesInStream ==
    ASSUME Types, NEW frame \in SidecarFrames, SidecarWrites(frame),
           cut = NoFrame, rest = None, InStream
    PROVE  InStream'
<1>1. UNCHANGED <<pc, then, frameVars, event, sent>>
  BY DEF SidecarWrites
<1>2. PICK at, read, k :
         /\ Reading(at, read, k) /\ GoodTo(k)
         /\ Collecting(at, read, k) \/ Sending(at, read, k)
  BY DEF InStream
<1>3. PICK to : /\ \A i \in 0..Len(frames) : to[i] = at[i]
                /\ Reading(to, read, k)'
                /\ \A i \in 1..Len(frames) : FrameAt(i)' = FrameAt(i)
                /\ k = Len(frames) => read = at[k]
  BY <1>2, WritesReading
<1>4. /\ Len(frames) \in Nat /\ Len(frames') = Len(frames) + 1
      /\ frames'[Len(frames) + 1] = frame
      /\ \A i \in 1..Len(frames) : frames'[i] = frames[i]
  BY DEF SidecarWrites, Types, TypeOK
<1>5. k = Len(frames) => FrameAt(k+1)' = frame
  BY <1>4 DEF FrameAt
<1>6. \A j \in 0..Len(frames) : MeantBy(frames')[j] = MeantBy(frames)[j]
  BY WritesMeans
<1> QED
  BY <1>1, <1>2, <1>3, <1>4, <1>5, <1>6, Onwards

LEMMA ReadsInStream ==
    ASSUME StreamInv, ReaderReads
    PROVE  /\ pc' # "returned" => InStream' \/ Ending'
           /\ result' = "watch_stream_closed" => connection # "open" /\ Len(sent) = Len(Meant)
           /\ rest' \in {rest, None}
<1>1. /\ pc = "read" /\ UNCHANGED <<ctx, connection, frames, cut, sent>>
      /\ Types
  BY DEF ReaderReads, StreamInv
<1>2. PICK line \in NextLines, err \in {"none", "eof", "failed"} : ReadsLine(line, err)
  BY DEF ReaderReads, ReadsLine
<1>3. PICK at, read, k :
         Reading(at, read, k) /\ GoodTo(k) /\ Collecting(at, read, k)
  BY <1>1 DEF StreamInv, InStream, Ending, Sending
<1>4. line \in Lines
  BY <1>1, <1>2, ReadsTyped DEF ReadsLine
<1>5. CASE unread # <<>>
  <2>1. /\ line = Head(unread) /\ err = "none" /\ unread' = Tail(unread)
        /\ UNCHANGED rest
    BY <1>2, <1>5 DEF ReadsLine, Reads
  <2> QED
    BY <1>1, <1>2, <1>3, <1>5, <2>1, ReadsUnread
<1>6. CASE unread = <<>>
  <2>1. /\ connection # "open" /\ err = connection /\ rest' = None /\ UNCHANGED unread
        /\ line = (IF rest = None THEN Blank ELSE rest)
    BY <1>2, <1>6 DEF ReadsLine, Reads
  <2>2. err \in {"eof", "failed"}
    BY <1>1, <2>1 DEF Types, TypeOK
  <2> QED
    BY <1>1, <1>2, <1>3, <1>4, <1>6, <2>1, <2>2, ReadsAtEnd
<1> QED
  BY <1>5, <1>6

LEMMA SendsInStream ==
    ASSUME StreamInv, ReaderSends
    PROVE  (pc' # "returned" => InStream') /\ FramesDispatched' /\ CutInventsNothing'
<1>1. /\ pc = "send" /\ Types /\ sent' = Append(sent, event)
      /\ UNCHANGED <<connection, unread, rest, frames, cut, frameVars, event>>
      /\ FramesDispatched
  BY DEF ReaderSends, StreamInv, sidecarVars
<1>2. /\ Len(sent) \in Nat /\ Len(sent') = Len(sent) + 1
      /\ DOMAIN sent = 1..Len(sent) /\ DOMAIN sent' = 1..Len(sent) + 1
      /\ sent'[Len(sent) + 1] = event /\ Last(sent') = event
      /\ \A i \in 1..Len(sent) : sent'[i] = sent[i]
  <2>1. PICK E : sent \in Seq(E)
    BY <1>1 DEF Types
  <2>2. sent \in Seq(E \cup {event})
    BY <2>1
  <2> QED
    BY <1>1, <2>2 DEF Last
<1>3. Meant' = Meant
  BY <1>1 DEF Meant
<1>4. Len(Meant) \in Nat
  BY <1>1, MeantLoop DEF Meant, Types, TypeOK
<1>5. CASE Ending
  <2>1. /\ Len(sent) = Len(Meant) /\ cut # NoFrame /\ then # "read"
        /\ Agrees(cut) => event.type = cut.type
    BY <1>5 DEF Ending
  <2>2. pc' = "returned"
    BY <2>1 DEF ReaderSends
  <2>3. FramesDispatched'
    <3>1. \A i \in DOMAIN sent' : i <= Len(Meant) => Means(sent'[i], Meant[i])
      <4>1. SUFFICES ASSUME NEW i \in 1..Len(sent) + 1, i <= Len(Meant)
                     PROVE  Means(sent'[i], Meant[i])
        BY <1>2
      <4>2. i \in 1..Len(sent)
        BY <1>2, <2>1, <4>1
      <4> QED
        BY <1>1, <1>2, <4>1, <4>2 DEF FramesDispatched
    <3>2. Len(sent') = Len(Meant) + 1 /\ Len(sent') >= Len(Meant)
      BY <1>2, <1>4, <2>1
    <3> QED
      BY <1>1, <1>3, <2>1, <3>1, <3>2 DEF FramesDispatched, Means
  <2>4. CutInventsNothing'
    BY <1>1, <1>2, <2>1 DEF CutInventsNothing, Agrees
  <2> QED
    BY <2>2, <2>3, <2>4
<1>6. CASE InStream
  <2>1. PICK at, read, k : Reading(at, read, k) /\ GoodTo(k) /\ Sending(at, read, k)
    BY <1>1, <1>6 DEF InStream, Collecting
  <2>2. /\ k \in 1..Len(frames) /\ k - 1 \in 0..Len(frames) /\ k \in 0..Len(frames)
        /\ read = at[k] /\ read - at[k] = 0 /\ k + 1 \in 1..Len(frames)+1
        /\ Len(frames) \in k..Len(frames)
    <3>1. k \in 0..Len(frames) /\ Len(frames) \in Nat /\ at[k] \in Nat
      BY <1>1, <2>1, ReadingTypes
    <3>2. k > 0 /\ read = at[k]
      BY <2>1 DEF Sending
    <3> QED
      BY <3>1, <3>2
  <2>3. /\ then = "read" /\ Holds(NoFields) /\ frames[k].type \in Alive
        /\ Means(event, frames[k]) /\ Len(sent) = Len(MeantBy(frames)[k-1])
    BY <2>1 DEF Sending
  <2>4. MeantBy(frames)[k] = Append(MeantBy(frames)[k-1], frames[k])
    BY <1>1, <2>1, <2>2, <2>3, MeantNext DEF Types, TypeOK
  <2>5. /\ Len(MeantBy(frames)[k]) = Len(sent) + 1
        /\ MeantBy(frames)[k][Len(sent) + 1] = frames[k]
    <3>1. MeantBy(frames)[k-1] \in Seq(SidecarFrames) /\ frames[k] \in SidecarFrames
      <4>1. frames \in Seq(SidecarFrames)
        BY <1>1 DEF Types, TypeOK
      <4>2. MeantBy(frames) \in [0..Len(frames) -> Seq(SidecarFrames)]
        BY <4>1, MeantLoop
      <4> QED
        BY <2>2, <4>1, <4>2
    <3> QED
      BY <2>3, <2>4, <3>1
  <2>6. Len(sent) + 1 <= Len(Meant) /\ Meant[Len(sent) + 1] = frames[k]
    <3>1. /\ Len(MeantBy(frames)[k]) <= Len(MeantBy(frames)[Len(frames)])
          /\ \A i \in 1..Len(MeantBy(frames)[k]) :
                MeantBy(frames)[Len(frames)][i] = MeantBy(frames)[k][i]
      BY <1>1, <2>2, MeantGrows DEF Types, TypeOK
    <3>2. Len(sent) + 1 \in 1..Len(MeantBy(frames)[k])
      BY <1>2, <2>5
    <3> QED
      BY <2>5, <3>1, <3>2 DEF Meant
  <2>7. pc' = "read" /\ UNCHANGED result
    BY <2>3 DEF ReaderSends
  <2>8. Collecting(at, read, k)'
    <3>1. Collected(FrameAt(k+1).lines)[0] = NoFields
      BY <1>1, <2>2, LinesOfFrame
    <3>2. FrameAt(k+1)' = FrameAt(k+1)
      BY <1>1 DEF FrameAt
    <3>3. Collected(FrameAt(k+1)'.lines)[read - at[k]] = NoFields
      BY <2>2, <3>1, <3>2
    <3>4. Len(sent') = Len(MeantBy(frames')[k])
      BY <1>1, <1>2, <2>5
    <3> QED
      BY <1>1, <2>3, <2>7, <3>3, <3>4 DEF Collecting, Holds, frameVars
  <2>9. Reading(at, read, k)' /\ GoodTo(k)'
    BY <1>1, <2>1 DEF Reading, Numbered, CutAt, CutLines, Position, Coming,
                      FrameAt, GoodTo
  <2>10. InStream'
    BY <2>8, <2>9 DEF InStream
  <2>11. FramesDispatched'
    <3>1. \A i \in DOMAIN sent' : i <= Len(Meant) => Means(sent'[i], Meant[i])
      BY <1>1, <1>2, <1>4, <2>3, <2>6 DEF FramesDispatched
    <3>2. result = "none"
      BY <1>1 DEF Types, TypeOK
    <3>3. ~(Len(sent') > Len(Meant'))
      BY <1>2, <1>3, <1>4, <2>6
    <3> QED
      BY <1>3, <2>7, <3>1, <3>2, <3>3 DEF FramesDispatched, Means
  <2>12. CutInventsNothing'
    BY <1>2, <1>3, <1>4, <2>6 DEF CutInventsNothing
  <2> QED
    BY <2>10, <2>11, <2>12
<1> QED
  BY <1>1, <1>5, <1>6 DEF StreamInv

LEMMA StreamKept ==
    ASSUME StreamInv, [Next]_vars
    PROVE  StreamInv'
<1> USE DEF sidecarVars, frameVars
<1>1. Types /\ Types'
  BY TypesKept DEF StreamInv
<1>2. /\ connection = "open" =>
            cut = NoFrame /\ rest = None /\ result # "watch_stream_closed"
      /\ pc # "returned" => InStream \/ Ending
      /\ FramesDispatched /\ CutInventsNothing
  BY DEF StreamInv
<1>3. /\ DOMAIN sent = 1..Len(sent) /\ Len(sent) \in Nat /\ Len(Meant) \in Nat
  <2>1. PICK E : sent \in Seq(E)
    BY <1>1 DEF Types
  <2> QED
    BY <1>1, <2>1, MeantLoop DEF Meant, Types, TypeOK
<1>4. connection = "open" => Len(sent) <= Len(Meant) /\ ~Ending
  BY <1>2, <1>3 DEF FramesDispatched, Ending
<1>5. ASSUME NEW frame \in SidecarFrames, SidecarWrites(frame)
      PROVE  StreamInv'
  <2>1. /\ connection = "open" /\ UNCHANGED <<connection, cut, rest, pc, sent, result>>
    BY <1>5 DEF SidecarWrites
  <2>2. pc' # "returned" => InStream'
    BY <1>1, <1>2, <1>4, <1>5, <2>1, WritesInStream
  <2>3. FramesDispatched' /\ CutInventsNothing'
    <3>1. /\ Len(Meant) <= Len(Meant') /\ Len(Meant') \in Nat
          /\ \A i \in 1..Len(Meant) : Meant'[i] = Meant[i]
      BY <1>1, <1>5, WritesMeans
    <3>2. ~(Len(sent') > Len(Meant'))
      BY <1>3, <1>4, <2>1, <3>1
    <3>3. \A i \in DOMAIN sent' : Means(sent'[i], Meant'[i])
      BY <1>2, <1>3, <1>4, <2>1, <3>1 DEF FramesDispatched
    <3> QED
      BY <1>2, <2>1, <3>2, <3>3 DEF FramesDispatched, CutInventsNothing, Means
  <2> QED
    BY <1>1, <1>2, <2>1, <2>2, <2>3 DEF StreamInv
<1>6. ASSUME NEW how \in {"eof", "failed"}, ConnectionEnds(how)
      PROVE  StreamInv'
  <2>1. /\ connection = "open" /\ connection' # "open"
        /\ UNCHANGED <<frames, pc, sent, result>>
    BY <1>6 DEF ConnectionEnds
  <2>2. pc' # "returned" => InStream'
    BY <1>1, <1>2, <1>4, <1>6, <2>1, EndsReading
  <2>3. Meant' = Meant
    BY <2>1 DEF Meant
  <2>4. FramesDispatched' /\ CutInventsNothing'
    BY <1>2, <1>3, <1>4, <2>1, <2>3 DEF FramesDispatched, CutInventsNothing, Means
  <2> QED
    BY <1>1, <2>1, <2>2, <2>4 DEF StreamInv
<1>7. ASSUME UNCHANGED <<connection, unread, rest, frames, cut, then, frameVars, event, sent>>,
             UNCHANGED <<pc, result>> \/ (pc' = "returned" /\ result' = "runtime_error")
      PROVE  StreamInv'
  <2>1. Meant' = Meant /\ Agrees(cut)' = Agrees(cut)
    BY <1>7 DEF Meant, Agrees
  <2>2. FramesDispatched' /\ CutInventsNothing'
    BY <1>2, <1>7, <2>1 DEF FramesDispatched, CutInventsNothing, Means
  <2>3. UNCHANGED <<pc, result>> => (InStream => InStream')
    <3>1. SUFFICES ASSUME UNCHANGED pc, NEW at, NEW read, NEW k,
                          Reading(at, read, k), GoodTo(k),
                          Collecting(at, read, k) \/ Sending(at, read, k)
                   PROVE  InStream'
      BY DEF InStream
    <3>2. Reading(at, read, k)' /\ GoodTo(k)'
      BY <1>7, <3>1 DEF Reading, Numbered, CutAt, CutLines, Position, Coming,
                        FrameAt, GoodTo
    <3>3. FrameAt(k+1)' = FrameAt(k+1)
      BY <1>7 DEF FrameAt
    <3>4. Collecting(at, read, k) => Collecting(at, read, k)'
      BY <1>7, <3>1, <3>3 DEF Collecting, Holds
    <3>5. Sending(at, read, k) => Sending(at, read, k)'
      BY <1>7, <3>1 DEF Sending, Means, Holds
    <3> QED
      BY <3>1, <3>2, <3>4, <3>5 DEF InStream
  <2>4. UNCHANGED <<pc, result>> => (Ending => Ending')
    BY <1>7, <2>1 DEF Ending, GoodTo
  <2> QED
    BY <1>1, <1>2, <1>7, <2>2, <2>3, <2>4 DEF StreamInv
<1>8. CASE ContextEnds
  BY <1>7, <1>8 DEF ContextEnds
<1>9. CASE ReaderReads
  <2>1. UNCHANGED <<connection, frames, cut, sent>>
    BY <1>9 DEF ReaderReads
  <2>2. /\ pc' # "returned" => InStream' \/ Ending'
        /\ result' = "watch_stream_closed" => connection # "open" /\ Len(sent) = Len(Meant)
        /\ rest' \in {rest, None}
    BY <1>9, ReadsInStream
  <2>3. Meant' = Meant
    BY <2>1 DEF Meant
  <2>4. FramesDispatched'
    <3>1. result' = "watch_stream_closed" => Len(sent) >= Len(Meant)
      BY <1>3, <2>2
    <3> QED
      BY <1>2, <2>1, <2>3, <3>1 DEF FramesDispatched, Means
  <2>5. CutInventsNothing'
    BY <1>2, <2>1, <2>3 DEF CutInventsNothing, Agrees
  <2> QED
    BY <1>1, <1>2, <2>1, <2>2, <2>4, <2>5 DEF StreamInv
<1>10. CASE ReaderSends
  <2>1. /\ UNCHANGED <<connection, cut, rest>>
        /\ then = "read" => UNCHANGED result
        /\ pc = "send"
    BY <1>10 DEF ReaderSends
  <2>2. connection = "open" => then = "read"
    BY <1>2, <1>4, <2>1 DEF InStream, Collecting, Sending
  <2> QED
    BY <1>1, <1>2, <1>10, <2>1, <2>2, SendsInStream DEF StreamInv
<1>11. CASE ReaderAborts
  BY <1>7, <1>11 DEF ReaderAborts
<1>12. CASE UNCHANGED vars
  BY <1>7, <1>12 DEF vars
<1> QED
  BY <1>5, <1>6, <1>8, <1>9, <1>10, <1>11, <1>12 DEF Next

LEMMA StreamInvariant == Spec => []StreamInv
BY StreamFirst, StreamKept, PTL DEF Spec

(* The events that are sent are those the frames stand for, in their       *)
(* order, each once, and all of them when the stream is reported as closed *)
(* (watch_source.go:218-289).                                              *)
THEOREM StreamDispatchesItsFrames == Spec => []FramesDispatched
<1>1. StreamInv => FramesDispatched
  BY DEF StreamInv
<1> QED
  BY <1>1, StreamInvariant, PTL

(* A frame that agrees with itself, cut wherever it may be, is dispatched  *)
(* as the event it would have been or not at all (watch_source.go:273).    *)
THEOREM CutFramesInventNothing == Spec => []CutInventsNothing
<1>1. StreamInv => CutInventsNothing
  BY DEF StreamInv
<1> QED
  BY <1>1, StreamInvariant, PTL
=============================================================================
