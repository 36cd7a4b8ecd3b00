------------------------- MODULE KeyCommands_proofs -------------------------
(***************************************************************************)
(* Theorems about KeyCommands, for any pages, scenes and commands: with    *)
(* one command per key, what is sent is what the pages say, and infrared   *)
(* commands leave in order and once.                                       *)
(***************************************************************************)
EXTENDS KeyCommands, SequenceTheorems, TLAPS

(* Sequences with an element in front.                                     *)

LEMMA OneInFront ==
  ASSUME NEW S, NEW one \in Seq(S), Len(one) = 1, NEW s \in Seq(S)
  PROVE  /\ one \o s \in Seq(S) /\ one \o s # << >> /\ Len(one \o s) = Len(s) + 1
         /\ (one \o s)[1] = one[1]
         /\ \A i \in 1..Len(s) : (one \o s)[i + 1] = s[i]
<1>1. Len(s) \in Nat
  BY LenProperties
<1>2. /\ one \o s \in Seq(S)
      /\ Len(one \o s) = Len(one) + Len(s)
      /\ \A i \in 1..Len(one) + Len(s) :
           (one \o s)[i] = IF i <= Len(one) THEN one[i] ELSE s[i - Len(one)]
  BY ConcatProperties, Zenon
<1>3. one \o s # << >>
  BY <1>1, <1>2, EmptySeq
<1>4. ASSUME NEW i \in 1..Len(s) PROVE (one \o s)[i + 1] = s[i]
  <2>1. i + 1 \in 1..(1 + Len(s)) /\ ~(i + 1 <= 1) /\ (i + 1) - 1 = i
    BY <1>1
  <2> QED
    BY <1>2, <2>1
<1>5. (one \o s)[1] = one[1]
  BY <1>1, <1>2
<1>6. Len(one \o s) = Len(s) + 1
  BY <1>1, <1>2
<1> QED
  BY <1>2, <1>3, <1>4, <1>5, <1>6

LEMMA OneTaken ==
  ASSUME NEW S, NEW one \in Seq(S), Len(one) = 1, NEW s \in Seq(S)
  PROVE  Head(one \o s) = one[1] /\ Tail(one \o s) = s
<1> DEFINE all == one \o s
<1>1. /\ all \in Seq(S) /\ all # << >> /\ Len(all) = Len(s) + 1
      /\ all[1] = one[1] /\ \A i \in 1..Len(s) : all[i + 1] = s[i]
  BY OneInFront
<1>2. Len(s) \in Nat
  BY LenProperties
<1> HIDE DEF all
<1>3. Head(all) = one[1]
  BY <1>1
<1>4. /\ Tail(all) \in Seq(S) /\ Len(Tail(all)) = Len(s)
      /\ \A i \in 1..Len(s) : Tail(all)[i] = all[i + 1]
  BY <1>1, <1>2, HeadTailProperties
<1>5. Tail(all) = s
  BY <1>1, <1>4, SeqEqual
<1> QED
  BY <1>3, <1>5 DEF all

LEMMA OneBack ==
  ASSUME NEW S, NEW one \in Seq(S), Len(one) = 1, NEW s \in Seq(S), s # << >>, one[1] = Head(s)
  PROVE  one \o Tail(s) = s
<1> DEFINE rest == Tail(s)
           all == one \o rest
<1>1. Len(s) \in Nat /\ Len(s) # 0
  BY EmptySeq, LenProperties
<1>2. /\ Head(s) = s[1] /\ rest \in Seq(S) /\ Len(rest) = Len(s) - 1
      /\ \A i \in 1..Len(rest) : rest[i] = s[i + 1]
  BY <1>1, HeadTailProperties
<1> HIDE DEF rest
<1>3. /\ all \in Seq(S) /\ Len(all) = Len(rest) + 1
      /\ all[1] = one[1] /\ \A i \in 1..Len(rest) : all[i + 1] = rest[i]
  BY <1>2, OneInFront
<1> HIDE DEF all
<1>4. Len(all) = Len(s)
  BY <1>1, <1>2, <1>3
<1>5. ASSUME NEW i \in 1..Len(s) PROVE all[i] = s[i]
  <2>1. CASE i = 1
    BY <1>2, <1>3, <2>1
  <2>2. CASE i # 1
    <3>1. i - 1 \in 1..Len(rest) /\ (i - 1) + 1 = i
      BY <1>1, <1>2, <2>2
    <3> QED
      BY <1>2, <1>3, <3>1
  <2> QED
    BY <2>1, <2>2
<1>6. all = s
  BY <1>3, <1>4, <1>5, SeqEqual
<1> QED
  BY <1>6 DEF all, rest

LEMMA FrontBack ==
  ASSUME NEW S, NEW e \in S, NEW s \in Seq(S)
  PROVE  /\ <<e>> \o s \in Seq(S) /\ <<e>> \o s # << >>
         /\ Head(<<e>> \o s) = e /\ Tail(<<e>> \o s) = s
<1> DEFINE one == <<e>>
<1>1. one \in Seq(S) /\ Len(one) = 1 /\ one[1] = e
  OBVIOUS
<1> HIDE DEF one
<1>2. /\ one \o s \in Seq(S) /\ one \o s # << >>
      /\ Head(one \o s) = e /\ Tail(one \o s) = s
  BY <1>1, OneInFront, OneTaken
<1> QED
  BY <1>2 DEF one

LEMMA HeadBeforeTail ==
  ASSUME NEW S, NEW s \in Seq(S), s # << >>
  PROVE  <<Head(s)>> \o Tail(s) = s
<1> DEFINE one == <<Head(s)>>
<1>1. Head(s) \in S
  BY HeadTailProperties
<1>2. one \in Seq(S) /\ Len(one) = 1 /\ one[1] = Head(s)
  BY <1>1
<1> HIDE DEF one
<1>3. one \o Tail(s) = s
  BY <1>2, OneBack
<1> QED
  BY <1>3 DEF one

LEMMA AppendBehind ==
  ASSUME NEW S, NEW e \in S, NEW s \in Seq(S), NEW x \in S
  PROVE  <<e>> \o Append(s, x) = Append(<<e>> \o s, x)
<1>1. <<e>> \in Seq(S) /\ <<x>> \in Seq(S)
  OBVIOUS
<1>2. Append(s, x) = s \o <<x>>
  BY AppendIsConcat
<1>3. <<e>> \o s \in Seq(S)
  BY <1>1, ConcatProperties
<1>4. Append(<<e>> \o s, x) = (<<e>> \o s) \o <<x>>
  BY <1>3, AppendIsConcat
<1>5. (<<e>> \o s) \o <<x>> = <<e>> \o (s \o <<x>>)
  BY <1>1, ConcatAssociative
<1> QED
  BY <1>2, <1>4, <1>5

-------------------------------------------------------------------------------
(* What a name resolves to, alone and after others.                        *)

LEMMA EmptyType == Empty \in CommandStruct
BY EmptySeq DEF Empty, CommandStruct

LEMMA EntryType ==
  ASSUME NEW p \in Pages, NEW n \in Names
  PROVE  CommandFile[p][n] \in CommandStruct \cup {Nothing}
BY FilesAssumption

LEMMA GetCommandType ==
  ASSUME NEW p \in Pages, NEW n \in Names \cup {Nothing}, NEW cs \in CommandStruct
  PROVE  getCommand(p, n, cs) \in CommandStruct
<1> DEFINE e == CommandFile[p][n]
<1>1. CASE n = Nothing
  BY <1>1 DEF getCommand
<1>2. CASE n # Nothing /\ e = Nothing
  BY <1>2 DEF getCommand
<1>3. CASE n # Nothing /\ e # Nothing /\ (e.mode = "NONE" \/ e.protocol = Nothing)
  <2>1. e \in CommandStruct
    BY <1>3, EntryType
  <2>2. getCommand(p, n, cs) = [cs EXCEPT !.mode = e.mode]
    BY <1>3 DEF getCommand
  <2> QED
    BY <2>1, <2>2 DEF CommandStruct
<1>4. CASE n # Nothing /\ e # Nothing /\ ~(e.mode = "NONE" \/ e.protocol = Nothing)
  <2>1. e \in CommandStruct
    BY <1>4, EntryType
  <2>2. getCommand(p, n, cs) =
          [mode |-> e.mode, protocol |-> e.protocol, data |-> cs.data \o e.data]
    BY <1>4 DEF getCommand
  <2>3. e.data \in Seq(Codes) /\ cs.data \in Seq(Codes)
    BY <2>1 DEF CommandStruct
  <2>4. cs.data \o e.data \in Seq(Codes)
    BY <2>3, ConcatProperties
  <2> QED
    BY <2>1, <2>2, <2>4 DEF CommandStruct
<1> QED
  BY <1>1, <1>2, <1>3, <1>4

LEMMA MessageType ==
  ASSUME NEW cs \in CommandStruct, MessageOf(cs) # Nothing
  PROVE  /\ MessageOf(cs) \in Message
         /\ MessageOf(cs)[1] \in {"IR", "MQTT"}
         /\ cs.mode # "NONE"
<1>1. /\ cs.mode \in {"MQTT", "IR"} /\ cs.protocol \in Protocols
      /\ cs.data \in Seq(Codes) /\ cs.data # << >>
      /\ MessageOf(cs) = <<cs.mode, cs.protocol, cs.data[1]>>
  BY DEF MessageOf, CommandStruct
<1>2. Len(cs.data) \in Nat \ {0}
  BY <1>1, EmptySeq
<1>3. cs.data[1] \in Codes
  BY <1>1, <1>2, ElementOfSeq
<1> QED
  BY <1>1, <1>3 DEF Message

(* Two structures with the same message.                                   *)
SameStart(cs, g) ==
  /\ cs.mode = g.mode
  /\ cs.protocol = g.protocol
  /\ cs.data = << >> <=> g.data = << >>
  /\ g.data # << >> => cs.data[1] = g.data[1]

LEMMA SameMessage ==
  ASSUME NEW cs, NEW g, SameStart(cs, g)
  PROVE  MessageOf(cs) = MessageOf(g)
BY DEF SameStart, MessageOf

LEMMA StartOfConcat ==
  ASSUME NEW S, NEW s \in Seq(S), NEW d \in Seq(S)
  PROVE  /\ s \o d = << >> <=> s = << >> /\ d = << >>
         /\ s # << >> => (s \o d)[1] = s[1]
         /\ << >> \o d = d
<1>1. << >> \o d = d /\ (s \o d = << >> <=> s = << >> /\ d = << >>)
  BY ConcatEmptySeq, ConcatEqualIffEmpty
<1>2. ASSUME s # << >> PROVE (s \o d)[1] = s[1]
  <2>1. Len(s) \in Nat /\ Len(s) # 0 /\ Len(d) \in Nat
    BY <1>2, EmptySeq, LenProperties
  <2>2. \A i \in 1..Len(s) + Len(d) :
           (s \o d)[i] = IF i <= Len(s) THEN s[i] ELSE d[i - Len(s)]
    BY ConcatProperties, Zenon
  <2> QED
    BY <2>1, <2>2
<1> QED
  BY <1>1, <1>2

(* Getting a command on top of itself changes nothing of its message.      *)
LEMMA GetAgain ==
  ASSUME NEW p \in Pages, NEW n \in Names, NEW cs \in CommandStruct,
         cs = Empty \/ SameStart(cs, getCommand(p, n, Empty))
  PROVE  SameStart(getCommand(p, n, cs), getCommand(p, n, Empty))
<1> DEFINE e == CommandFile[p][n]
           g == getCommand(p, n, Empty)
<1>1. n # Nothing
  BY FilesAssumption
<1>2. CASE e = Nothing
  <2>1. getCommand(p, n, cs) = cs /\ g = Empty
    BY <1>1, <1>2 DEF getCommand
  <2> QED
    BY <2>1 DEF SameStart, Empty
<1>3. CASE e # Nothing /\ (e.mode = "NONE" \/ e.protocol = Nothing)
  <2>1. getCommand(p, n, cs) = [cs EXCEPT !.mode = e.mode] /\ g = [Empty EXCEPT !.mode = e.mode]
    BY <1>1, <1>3 DEF getCommand
  <2>2. cs.protocol = Nothing /\ cs.data = << >>
    BY <2>1 DEF SameStart, Empty
  <2> QED
    BY <2>1, <2>2 DEF SameStart, Empty, CommandStruct
<1>4. CASE e # Nothing /\ ~(e.mode = "NONE" \/ e.protocol = Nothing)
  <2>1. e \in CommandStruct
    BY <1>4, EntryType
  <2>2. /\ getCommand(p, n, cs) =
             [mode |-> e.mode, protocol |-> e.protocol, data |-> cs.data \o e.data]
        /\ g = [mode |-> e.mode, protocol |-> e.protocol, data |-> << >> \o e.data]
    BY <1>1, <1>4 DEF getCommand, Empty
  <2>3. e.data \in Seq(Codes) /\ cs.data \in Seq(Codes)
    BY <2>1 DEF CommandStruct
  <2>4. << >> \o e.data = e.data
    BY <2>3, StartOfConcat
  <2>5. cs.data = << >> \/ (/\ cs.data = << >> <=> e.data = << >>
                            /\ e.data # << >> => cs.data[1] = e.data[1])
    BY <2>2, <2>4 DEF SameStart, Empty
  <2>6. /\ cs.data \o e.data = << >> <=> e.data = << >>
        /\ e.data # << >> => (cs.data \o e.data)[1] = e.data[1]
    BY <2>3, <2>4, <2>5, StartOfConcat
  <2> DEFINE d == cs.data \o e.data
  <2>7. /\ getCommand(p, n, cs) = [mode |-> e.mode, protocol |-> e.protocol, data |-> d]
        /\ g = [mode |-> e.mode, protocol |-> e.protocol, data |-> e.data]
        /\ d = << >> <=> e.data = << >>
        /\ e.data # << >> => d[1] = e.data[1]
    BY <2>2, <2>4, <2>6
  <2> HIDE DEF d, e, g
  <2>8. SameStart(getCommand(p, n, cs), g)
    BY <2>7 DEF SameStart
  <2> QED
    BY <2>8 DEF g
<1> QED
  BY <1>2, <1>3, <1>4

LEMMA NameType ==
  ASSUME NEW p \in Pages, NEW k \in Keys, NEW t \in Types
  PROVE  ButtonMaps[p][k][t] \in Names \cup {Nothing}
BY FilesAssumption

LEMMA TypesAre ==
  /\ "Press" \in Types /\ "Release" \in Types /\ "Repeat" \in Types
  /\ "Long" \in Types /\ "Short" \in Types
BY DEF Types

LEMMA AfterType ==
  ASSUME NEW p \in Pages, NEW k \in Keys
  PROVE  /\ AfterPress(p, k) \in CommandStruct
         /\ AfterRelease(p, k) \in CommandStruct
         /\ AfterRepeat(p, k) \in CommandStruct
         /\ AfterLong(p, k) \in CommandStruct
         /\ AfterShort(p, k) \in CommandStruct
<1>1. AfterPress(p, k) \in CommandStruct
  BY EmptyType, NameType, TypesAre, GetCommandType DEF AfterPress
<1>2. AfterRelease(p, k) \in CommandStruct
  BY <1>1, NameType, TypesAre, GetCommandType DEF AfterRelease
<1>3. AfterRepeat(p, k) \in CommandStruct
  BY <1>2, NameType, TypesAre, GetCommandType DEF AfterRepeat
<1>4. AfterLong(p, k) \in CommandStruct
  BY <1>3, NameType, TypesAre, GetCommandType DEF AfterLong
<1>5. AfterShort(p, k) \in CommandStruct
  BY <1>4, NameType, TypesAre, GetCommandType DEF AfterShort
<1> QED
  BY <1>1, <1>2, <1>3, <1>4, <1>5

(* Nothing but one name has been looked up so far.                         *)
OnlyFrom(p, n, cs) == cs = Empty \/ SameStart(cs, getCommand(p, n, Empty))

LEMMA OneMore ==
  ASSUME NEW p \in Pages, NEW n \in Names, NEW cs \in CommandStruct, OnlyFrom(p, n, cs),
         NEW m \in {n, Nothing}
  PROVE  /\ OnlyFrom(p, n, getCommand(p, m, cs))
         /\ m = n => SameStart(getCommand(p, m, cs), getCommand(p, n, Empty))
<1>1. CASE m = n
  BY <1>1, GetAgain DEF OnlyFrom
<1>2. CASE m # n
  <2>1. getCommand(p, m, cs) = cs
    BY <1>2 DEF getCommand
  <2> QED
    BY <1>2, <2>1
<1> QED
  BY <1>1, <1>2

(* With one command per key, the structure that the press types share is   *)
(* that of each of them.                                                   *)
LEMMA SharedStructure ==
  ASSUME OneCommandPerKey, NEW p \in Pages, NEW k \in Keys, NEW t \in Types,
         ButtonMaps[p][k][t] # Nothing
  PROVE  MessageOf(After(p, k, t)) = Meant[p][ButtonMaps[p][k][t]]
<1> DEFINE n == ButtonMaps[p][k][t]
           g == getCommand(p, n, Empty)
<1>1. n \in Names
  BY NameType
<1>2. \A u \in Types : ButtonMaps[p][k][u] \in {n, Nothing}
  BY DEF OneCommandPerKey
<1> HIDE DEF n
<1>3. OnlyFrom(p, n, Empty)
  BY DEF OnlyFrom
<1>4. /\ OnlyFrom(p, n, AfterPress(p, k))
      /\ ButtonMaps[p][k]["Press"] = n => SameStart(AfterPress(p, k), g)
  BY <1>1, <1>2, <1>3, EmptyType, TypesAre, OneMore DEF AfterPress
<1>5. /\ OnlyFrom(p, n, AfterRelease(p, k))
      /\ ButtonMaps[p][k]["Release"] = n => SameStart(AfterRelease(p, k), g)
  BY <1>1, <1>2, <1>4, AfterType, TypesAre, OneMore DEF AfterRelease
<1>6. /\ OnlyFrom(p, n, AfterRepeat(p, k))
      /\ ButtonMaps[p][k]["Repeat"] = n => SameStart(AfterRepeat(p, k), g)
  BY <1>1, <1>2, <1>5, AfterType, TypesAre, OneMore DEF AfterRepeat
<1>7. /\ OnlyFrom(p, n, AfterLong(p, k))
      /\ ButtonMaps[p][k]["Long"] = n => SameStart(AfterLong(p, k), g)
  BY <1>1, <1>2, <1>6, AfterType, TypesAre, OneMore DEF AfterLong
<1>8. ButtonMaps[p][k]["Short"] = n => SameStart(AfterShort(p, k), g)
  BY <1>1, <1>2, <1>7, AfterType, TypesAre, OneMore DEF AfterShort
<1>9. SameStart(After(p, k, t), g)
  <2>1. CASE t = "Press"
    BY <1>4, <2>1 DEF After, n
  <2>2. CASE t = "Release"
    BY <1>5, <2>2 DEF After, n
  <2>3. CASE t = "Repeat"
    BY <1>6, <2>3 DEF After, n
  <2>4. CASE t = "Long"
    BY <1>7, <2>4 DEF After, n
  <2>5. CASE t = "Short"
    BY <1>8, <2>5 DEF After, n
  <2> QED
    BY <2>1, <2>2, <2>3, <2>4, <2>5 DEF Types
<1>10. MessageOf(After(p, k, t)) = MessageOf(g)
  BY <1>9, SameMessage
<1>11. n # Nothing
  BY <1>1, FilesAssumption
<1>12. Meant[p][n] = MessageOf(g)
  BY <1>1, <1>11 DEF Meant
<1> QED
  BY <1>10, <1>12 DEF n

LEMMA HandlerType ==
  ASSUME NEW p \in Pages, NEW h \in Handlers[p]
  PROVE  /\ h.key \in Keys /\ h.type \in Types
         /\ ButtonMaps[p][h.key][h.type] # Nothing
         /\ h.command = After(p, h.key, h.type)
         /\ h.command \in CommandStruct
<1>1. /\ h.key \in Keys /\ h.type \in Types
      /\ ButtonMaps[p][h.key][h.type] # Nothing
      /\ h.command = After(p, h.key, h.type)
  BY DEF Handlers
<1>2. After(p, h.key, h.type) \in CommandStruct
  BY <1>1, AfterType DEF After, Types
<1> QED
  BY <1>1, <1>2

-------------------------------------------------------------------------------
(* Types                                                                   *)

LEMMA CommandsAreMessages ==
  /\ Commands \subseteq Message /\ Nothing \notin Commands
  /\ \A c \in Commands : c[1] = "IR"
BY FilesAssumption, TransceiverAssumption DEF Commands, Message

LEMMA PagesOfType ==
  ASSUME NEW s \in Scenes
  PROVE  /\ s # Nothing /\ PagesOf[s] \in Seq(Pages) /\ Len(PagesOf[s]) \in Nat
         /\ \A i \in 1..Len(PagesOf[s]) : PagesOf[s][i] \in Pages
<1>1. s # Nothing /\ PagesOf[s] \in Seq(Pages)
  BY FilesAssumption
<1> QED
  BY <1>1, LenProperties, ElementOfSeq

(* The handler for an event is that of a page of the scene.                *)
LEMMA HandlerOfPage ==
  ASSUME KCTypeOK, NEW k \in Keys, NEW t \in Types, NEW h \in Handler(k, t)
  PROVE  /\ scene \in Scenes /\ h.key = k /\ h.type = t
         /\ \E i \in 1..Len(PagesOf[scene]) :
              /\ h \in Handlers[PagesOf[scene][i]]
              /\ IF Found(k, t) = {} THEN i = tab
                 ELSE /\ k \in OverrideKeys[scene][i]
                      /\ \A o \in Found(k, t) : i <= o.page
<1>1. CASE Found(k, t) # {}
  <2>1. PICK o \in Found(k, t) : (\A q \in Found(k, t) : o.page <= q.page) /\ h = o.handler
    BY <1>1 DEF Handler
  <2>2. o \in overrides /\ h.key = k /\ h.type = t
    BY <2>1 DEF Found
  <2>3. scene \in Scenes /\ o \in Overridden[scene]
    BY <2>2 DEF KCTypeOK
  <2>4. PICK i \in 1..Len(PagesOf[scene]) :
          /\ o.page = i /\ o.handler \in Handlers[PagesOf[scene][i]]
          /\ o.handler.key \in OverrideKeys[scene][i]
    BY <2>3 DEF Overridden
  <2> QED
    BY <1>1, <2>1, <2>2, <2>3, <2>4
<1>2. CASE Found(k, t) = {}
  <2>1. tab \in DOMAIN keyHandlers /\ h \in keyHandlers[tab] /\ h.key = k /\ h.type = t
    BY <1>2 DEF Handler
  <2>2. scene \in Scenes
    BY <2>1 DEF KCTypeOK
  <2>3. tab \in 1..Len(PagesOf[scene]) /\ h \in Handlers[PagesOf[scene][tab]]
    BY <2>1, <2>2, PagesOfType DEF KCTypeOK, Kept
  <2> QED
    BY <1>2, <2>1, <2>2, <2>3
<1> QED
  BY <1>1, <1>2

LEMMA HandlerCommandType ==
  ASSUME KCTypeOK, NEW k \in Keys, NEW t \in Types, NEW h \in Handler(k, t)
  PROVE  h.command \in CommandStruct
<1>1. PICK i \in 1..Len(PagesOf[scene]) : scene \in Scenes /\ h \in Handlers[PagesOf[scene][i]]
  BY HandlerOfPage
<1>2. PagesOf[scene][i] \in Pages
  BY <1>1, PagesOfType
<1> QED
  BY <1>1, <1>2, HandlerType

(* What sending does.                                                      *)
LEMMA SendCommandDoes ==
  ASSUME IRTypeOK, NEW cs \in CommandStruct, sendCommand(cs)
  PROVE  \/ /\ UNCHANGED buffer
            /\ out' = Nothing
         \/ /\ UNCHANGED buffer
            /\ out' = MessageOf(cs)
            /\ MessageOf(cs) \in Message /\ MessageOf(cs)[1] = "MQTT"
         \/ /\ buffer' = Append(buffer, MessageOf(cs)) /\ Len(buffer) < MaxBuffer
            /\ out' = Nothing
            /\ MessageOf(cs) \in Commands
<1> DEFINE m == MessageOf(cs)
<1>1. CASE m = Nothing
  BY <1>1 DEF sendCommand
<1>2. CASE m # Nothing
  <2>1. m \in Message /\ m[1] \in {"IR", "MQTT"}
    BY <1>2, MessageType
  <2> HIDE DEF m
  <2>2. CASE m[1] = "IR"
    <3>1. out' = Nothing /\ sendBackground(m)
      BY <1>2, <2>1, <2>2 DEF sendCommand, m
    <3> QED
      BY <3>1 DEF sendBackground, m
  <2>3. CASE m[1] = "MQTT"
    <3>1. UNCHANGED buffer /\ out' \in {m, Nothing}
      BY <1>2, <2>1, <2>3 DEF sendCommand, m
    <3> QED
      BY <2>1, <2>3, <3>1 DEF m
  <2> QED
    BY <2>1, <2>2, <2>3
<1> QED
  BY <1>1, <1>2

LEMMA SendCommandTypes ==
  ASSUME IRTypeOK, NEW cs \in CommandStruct, sendCommand(cs)
  PROVE  /\ buffer' \in Seq(Commands) /\ Len(buffer') <= MaxBuffer
         /\ out' \in Message \cup {Nothing}
<1>1. buffer \in Seq(Commands) /\ Len(buffer) \in Nat /\ Len(buffer) <= MaxBuffer
  BY LenProperties DEF IRTypeOK
<1>2. CASE UNCHANGED buffer
  BY <1>1, <1>2, SendCommandDoes
<1>3. CASE /\ buffer' = Append(buffer, MessageOf(cs)) /\ Len(buffer) < MaxBuffer
           /\ MessageOf(cs) \in Commands
  <2>1. buffer' \in Seq(Commands) /\ Len(buffer') = Len(buffer) + 1
    BY <1>1, <1>3, AppendProperties
  <2>2. Len(buffer) + 1 <= MaxBuffer
    BY <1>1, <1>3, TransceiverAssumption
  <2>3. out' = Nothing \/ out' = MessageOf(cs)
    BY SendCommandDoes
  <2> QED
    BY <1>3, <2>1, <2>2, <2>3, CommandsAreMessages
<1> QED
  BY <1>2, <1>3, SendCommandDoes

LEMMA SenderTypes ==
  ASSUME IRTypeOK, Sender
  PROVE  IRTypeOK'
<1>1. CASE Receive
  <2>1. /\ Head(buffer) \in Commands /\ Tail(buffer) \in Seq(Commands)
        /\ Len(Tail(buffer)) <= MaxBuffer
    <3>1. /\ buffer \in Seq(Commands) /\ buffer # << >> /\ Len(buffer) \in Nat
          /\ Len(buffer) <= MaxBuffer
      BY <1>1, LenProperties DEF Receive, IRTypeOK
    <3>2. /\ Head(buffer) \in Commands /\ Tail(buffer) \in Seq(Commands)
          /\ Len(Tail(buffer)) = Len(buffer) - 1
      BY <3>1, HeadTailProperties
    <3> QED
      BY <3>1, <3>2, TransceiverAssumption
  <2>2. command' \in Commands /\ command' # Nothing /\ buffer' = Tail(buffer)
    BY <1>1, <2>1, CommandsAreMessages DEF Receive
  <2>3. /\ task' \in {"send", "wait"}
        /\ priority' \in [Tasks -> Priorities] /\ preSend' \in Priorities
        /\ receiver' \in {"off", "on", "paused"} /\ (isRxEnabled <=> receiver' # "off")
    BY <1>1 DEF Receive, IRTypeOK, maxOutTaskPriority, Pause, Tasks, Priorities
  <2> QED
    BY <1>1, <2>1, <2>2, <2>3 DEF Receive, IRTypeOK
<1>2. CASE Skip
  BY <1>2, CommandsAreMessages DEF Skip, IRTypeOK
<1>3. CASE Transmit
  <2>1. out' \in Message \cup {Nothing}
    BY <1>3, CommandsAreMessages DEF Transmit, IRTypeOK
  <2>2. /\ priority' \in [Tasks -> Priorities] /\ preSend' \in Priorities
        /\ receiver' \in {"off", "on", "paused"} /\ (isRxEnabled <=> receiver' # "off")
    BY <1>3 DEF Transmit, IRTypeOK, restoreTaskPriority, Resume, Tasks, Priorities
  <2> QED
    BY <1>3, <2>1, <2>2 DEF Transmit, IRTypeOK
<1>4. CASE Rest
  BY <1>4 DEF Rest, IRTypeOK
<1> QED
  BY <1>1, <1>2, <1>3, <1>4 DEF Sender

LEMMA LoopTypes ==
  ASSUME IRTypeOK, enableRx \/ disableRx \/ Send \/ Sent \/ Calibrate \/ Calibrated \/ loopHandleRx
  PROVE  IRTypeOK'
<1>1. /\ loop' \in {"free", "send", "calibrate"} /\ out' = Nothing
      /\ UNCHANGED <<buffer, task, command>>
  BY DEF IRTypeOK, enableRx, disableRx, Send, Sent, Calibrate, Calibrated, loopHandleRx
<1>2. priority' \in [Tasks -> Priorities] /\ preSend' \in Priorities
  BY DEF IRTypeOK, enableRx, disableRx, Send, Sent, Calibrate, Calibrated, loopHandleRx,
         maxOutTaskPriority, restoreTaskPriority, Tasks, Priorities
<1>3. /\ isRxEnabled' \in BOOLEAN /\ receiver' \in {"off", "on", "paused"}
      /\ (isRxEnabled' <=> receiver' # "off")
  <2>1. CASE enableRx \/ disableRx
    BY <2>1 DEF IRTypeOK, enableRx, disableRx
  <2>2. CASE ~(enableRx \/ disableRx)
    <3>1. UNCHANGED isRxEnabled
      BY <2>2 DEF Send, Sent, Calibrate, Calibrated, loopHandleRx
    <3>2. receiver' \in {"off", "on", "paused"} /\ (receiver' # "off" <=> receiver # "off")
      BY <2>2 DEF IRTypeOK, Send, Sent, Calibrate, Calibrated, loopHandleRx, Pause
    <3> QED
      BY <3>1, <3>2 DEF IRTypeOK
  <2> QED
    BY <2>1, <2>2
<1> QED
  BY <1>1, <1>2, <1>3 DEF IRTypeOK

LEMMA StartedTypes ==
  /\ IRInit => IRTypeOK
  /\ Restart => IRTypeOK'
<1>1. << >> \in Seq(Commands) /\ Len(<< >>) <= MaxBuffer
  BY EmptySeq, TransceiverAssumption
<1>2. [t \in Tasks |-> IF t = "loop" THEN "low" ELSE "max"] \in [Tasks -> Priorities]
  BY DEF Priorities
<1>3. IRInit => IRTypeOK
  BY <1>1, <1>2 DEF IRInit, IRStarted, IRTypeOK, Priorities
<1>4. Restart => IRTypeOK'
  BY <1>1, <1>2 DEF Restart, IRTypeOK, Priorities
<1> QED
  BY <1>3, <1>4

(* The view: which scene there is, and the handlers made for it.           *)
ViewOK ==
  /\ scene \in Scenes \cup {Nothing}
  /\ tab \in Nat \ {0}
  /\ keyHandlers = IF scene = Nothing THEN << >> ELSE Kept[scene]
  /\ overrides = IF scene = Nothing THEN {} ELSE Overridden[scene]

UsedOK == used \in (Keys \X Types) \cup ({"button"} \X Names) \cup {Nothing}

LEMMA TabsAre ==
  ASSUME ViewOK
  PROVE  /\ scene = Nothing => DOMAIN keyHandlers = {}
         /\ scene # Nothing => DOMAIN keyHandlers = 1..Len(PagesOf[scene])
BY PagesOfType DEF ViewOK, Kept

LEMMA NavigateTypes ==
  ASSUME IRTypeOK, ViewOK, Navigate
  PROVE  IRTypeOK' /\ ViewOK' /\ UNCHANGED learner
<1>1. /\ out' = Nothing
      /\ UNCHANGED <<buffer, task, command, loop, priority, preSend, isRxEnabled, receiver, learner>>
  BY DEF Navigate, OpenScene, CloseScene, ChangeTab
<1>2. IRTypeOK'
  BY <1>1 DEF IRTypeOK
<1>3. CASE \E s \in Scenes : OpenScene(s)
  BY <1>1, <1>2, <1>3, PagesOfType DEF OpenScene, Show, ViewOK
<1>4. CASE CloseScene
  BY <1>1, <1>2, <1>4 DEF CloseScene, NoScene, ViewOK
<1>5. CASE \E i \in DOMAIN keyHandlers : ChangeTab(i)
  <2>1. PICK i \in DOMAIN keyHandlers : ChangeTab(i)
    BY <1>5
  <2>2. scene # Nothing /\ scene \in Scenes /\ i \in 1..Len(PagesOf[scene])
    BY <2>1, TabsAre DEF ViewOK
  <2>3. i \in Nat \ {0}
    BY <2>2, PagesOfType
  <2> QED
    BY <1>1, <1>2, <2>1, <2>3 DEF ChangeTab, ViewOK
<1> QED
  BY <1>1, <1>2, <1>3, <1>4, <1>5 DEF Navigate

LEMMA RestartTypes ==
  ASSUME Restart
  PROVE  IRTypeOK' /\ ViewOK' /\ learner' = FALSE
<1> USE StartedTypes DEF Restart
<1>1. CASE NoScene
  BY <1>1 DEF NoScene, ViewOK
<1>2. CASE \E s \in Scenes : Show(s) /\ tab' \in 1..(Len(PagesOf[s]) + 1)
  <2>1. PICK s \in Scenes : Show(s) /\ tab' \in 1..(Len(PagesOf[s]) + 1)
    BY <1>2
  <2>2. s # Nothing /\ Len(PagesOf[s]) \in Nat
    BY PagesOfType
  <2>3. tab' \in Nat \ {0}
    BY <2>1, <2>2
  <2> QED
    BY <2>1, <2>2, <2>3 DEF Show, ViewOK
<1> QED
  BY <1>1, <1>2

(* A key or a button is used: types, and what comes of it.                 *)
LEMMA UseTypes ==
  ASSUME KCTypeOK, Use
  PROVE  IRTypeOK' /\ ViewOK' /\ UsedOK' /\ UNCHANGED learner
<1>1. PICK cs \in CommandStruct : sendCommand(cs)
  <2>1. CASE \E k \in Keys, t \in Types : KeyEvent(k, t)
    BY <2>1, HandlerCommandType DEF KeyEvent
  <2>2. CASE \E n \in Names : PressButton(n)
    <3>1. PICK n \in Names : PressButton(n)
      BY <2>2
    <3>2. scene \in Scenes /\ tab \in 1..Len(PagesOf[scene])
      BY <3>1, TabsAre DEF PressButton, KCTypeOK, ViewOK
    <3>3. PagesOf[scene][tab] \in Pages
      BY <3>2, PagesOfType
    <3> QED
      BY <3>1, <3>3, EmptyType, GetCommandType DEF PressButton
  <2> QED
    BY <2>1, <2>2 DEF Use
<1>2. UNCHANGED <<task, command, loop, priority, preSend, isRxEnabled, receiver, view, learner>>
  BY DEF Use, KeyEvent, PressButton
<1>3. IRTypeOK'
  BY <1>1, <1>2, SendCommandTypes DEF KCTypeOK, IRTypeOK
<1>4. ViewOK'
  BY <1>2 DEF KCTypeOK, ViewOK, view
<1>5. UsedOK'
  BY DEF Use, KeyEvent, PressButton, UsedOK
<1> QED
  BY <1>2, <1>3, <1>4, <1>5

(* Every step keeps the types, and the handlers those of the scene that is *)
(* shown (IRTransceiver.cpp 41-129, JsonHomeScreen.cpp 122-187).           *)
THEOREM TypesHold == Spec => []KCTypeOK
<1>1. KCTypeOK <=> IRTypeOK /\ ViewOK /\ learner \in BOOLEAN /\ UsedOK
  BY DEF KCTypeOK, ViewOK, UsedOK
<1>2. Init => KCTypeOK
  <2>1. Init => ViewOK
    BY DEF Init, ViewOK
  <2>2. Init => learner \in BOOLEAN /\ UsedOK
    BY DEF Init, UsedOK
  <2> QED
    BY <1>1, <2>1, <2>2, StartedTypes DEF Init
<1>3. ASSUME KCTypeOK, [Next]_vars PROVE KCTypeOK'
  <2>1. IRTypeOK /\ ViewOK /\ learner \in BOOLEAN /\ UsedOK
    BY <1>1, <1>3
  <2>2. CASE Use
    BY <1>1, <1>3, <2>1, <2>2, UseTypes DEF KCTypeOK, ViewOK, UsedOK
  <2>3. CASE Navigate /\ Unused
    BY <2>1, <2>3, NavigateTypes DEF KCTypeOK, ViewOK, Unused
  <2>4. CASE Learner /\ Unused
    <3>1. learner' \in BOOLEAN /\ UNCHANGED view
      BY <2>1, <2>4 DEF Learner, OpenLearner, CloseLearner, LearnerKey, LearnerButton, LoopGoesOn, Poll
    <3>2. IRTypeOK'
      <4>1. CASE OpenLearner
        BY <2>1, <4>1 DEF OpenLearner, IRTypeOK
      <4>2. CASE ~OpenLearner
        BY <2>1, <2>4, <4>2, LoopTypes
           DEF Learner, CloseLearner, LearnerKey, LearnerButton, LoopGoesOn, Poll
      <4> QED
        BY <4>1, <4>2
    <3> QED
      BY <2>1, <2>4, <3>1, <3>2 DEF KCTypeOK, ViewOK, Unused, view
  <2>5. CASE SenderStep /\ Unused
    BY <2>1, <2>5, SenderTypes DEF SenderStep, KCTypeOK, ViewOK, Unused, view
  <2>6. CASE (Restart \/ Abort) /\ Unused
    BY <2>6, RestartTypes DEF Abort, KCTypeOK, ViewOK, Unused
  <2>7. CASE UNCHANGED vars
    BY <1>3, <2>7 DEF vars, irvars, view, KCTypeOK, IRTypeOK
  <2> QED
    BY <1>3, <2>2, <2>3, <2>4, <2>5, <2>6, <2>7 DEF Next
<1> QED
  BY <1>2, <1>3, PTL DEF Spec

-------------------------------------------------------------------------------
(* The contract                                                            *)

(* What is on its way, after each of the things done to it.                *)
LEMMA PendingStays ==
  ASSUME UNCHANGED <<buffer, command>>
  PROVE  Pending' = Pending
BY DEF Pending

LEMMA PendingGrows ==
  ASSUME IRTypeOK, NEW m \in Commands, buffer' = Append(buffer, m), command' = command
  PROVE  Pending' = Append(Pending, m)
<1>1. CASE command = Nothing
  BY <1>1 DEF Pending
<1>2. CASE command # Nothing
  <2>1. command \in Commands /\ buffer \in Seq(Commands)
    BY <1>2 DEF IRTypeOK
  <2>2. <<command>> \o Append(buffer, m) = Append(<<command>> \o buffer, m)
    BY <2>1, AppendBehind
  <2> QED
    BY <1>2, <2>2 DEF Pending
<1> QED
  BY <1>1, <1>2

LEMMA PendingTaken ==
  ASSUME IRTypeOK, Receive
  PROVE  Pending' = Pending
<1>1. /\ buffer \in Seq(Commands) /\ buffer # << >> /\ command = Nothing
      /\ command' = Head(buffer) /\ buffer' = Tail(buffer)
  BY DEF IRTypeOK, Receive
<1>2. Head(buffer) \in Commands
  BY <1>1, HeadTailProperties
<1>3. command' # Nothing
  BY <1>1, <1>2, CommandsAreMessages
<1>4. Pending' = <<command'>> \o buffer'
  BY <1>3 DEF Pending
<1>5. <<Head(buffer)>> \o Tail(buffer) = buffer
  BY <1>1, HeadBeforeTail
<1> QED
  BY <1>1, <1>4, <1>5 DEF Pending

LEMMA PendingLeaves ==
  ASSUME IRTypeOK, Skip \/ Transmit
  PROVE  /\ Pending # << >> /\ Pending' = Tail(Pending)
         /\ out' \in {Head(Pending), Nothing}
<1>1. /\ command # Nothing /\ command \in Commands /\ buffer \in Seq(Commands)
      /\ command' = Nothing /\ UNCHANGED buffer
      /\ out' \in {command, Nothing}
  BY DEF IRTypeOK, Skip, Transmit
<1>2. Pending = <<command>> \o buffer /\ Pending' = buffer
  BY <1>1 DEF Pending
<1> QED
  BY <1>1, <1>2, FrontBack

(* The contract reads the same files.                                      *)
LEMMA SameFiles == Relay!Meant = Meant /\ Relay!Types = Types
BY DEF Relay!Meant, Meant, Relay!MessageOf, MessageOf, Relay!getCommand, getCommand,
       Relay!Empty, Empty, Relay!Types, Types

(* A page that overrides a key with something to send is in the map.       *)
LEMMA OverridingFound ==
  ASSUME OneCommandPerKey, KCTypeOK, scene \in Scenes, NEW k \in Keys, NEW t \in Types,
         NEW j \in Relay!Overriding(k, t)
  PROVE  j \in 1..Len(PagesOf[scene]) /\ \E o \in Found(k, t) : o.page = j
<1> DEFINE p == PagesOf[scene][j]
           h == [key |-> k, type |-> t, command |-> After(p, k, t)]
<1>1. /\ j \in 1..Len(PagesOf[scene]) /\ k \in OverrideKeys[scene][j]
      /\ Meant[p][ButtonMaps[p][k][t]] # Nothing
  BY SameFiles DEF Relay!Overriding, Relay!WantedFrom
<1>2. p \in Pages
  BY <1>1, PagesOfType
<1>3. ButtonMaps[p][k][t] # Nothing
  BY <1>1, <1>2 DEF Meant
<1>4. MessageOf(After(p, k, t)) # Nothing
  BY <1>1, <1>2, <1>3, SharedStructure
<1>5. After(p, k, t) \in CommandStruct
  BY <1>2, AfterType DEF After, Types
<1>6. After(p, k, t).mode # "NONE"
  BY <1>4, <1>5, MessageType
<1>7. h \in Handlers[p]
  <2>1. <<k, t>> \in {g \in Keys \X Types : /\ ButtonMaps[p][g[1]][g[2]] # Nothing
                                          /\ After(p, g[1], g[2]).mode # "NONE"}
    BY <1>3, <1>6
  <2> QED
    BY <1>2, <2>1 DEF Handlers
<1>8. [page |-> j, handler |-> h] \in overrides
  <2>1. h \in {g \in Handlers[PagesOf[scene][j]] : g.key \in OverrideKeys[scene][j]}
    BY <1>1, <1>7
  <2>2. [page |-> j, handler |-> h] \in Overridden[scene]
    BY <1>1, <2>1 DEF Overridden
  <2> QED
    BY <2>2, PagesOfType DEF KCTypeOK
<1>9. [page |-> j, handler |-> h] \in Found(k, t)
  BY <1>8 DEF Found
<1> QED
  BY <1>1, <1>9

LEMMA WantedIsHandled ==
  ASSUME OneCommandPerKey, KCTypeOK, NEW k \in Keys, NEW t \in Types, NEW h \in Handler(k, t),
         MessageOf(h.command) # Nothing
  PROVE  \E i \in Relay!Wanted(k, t) : Relay!WantedFrom(i, k, t) = MessageOf(h.command)
<1>1. scene \in Scenes /\ h.key = k /\ h.type = t
  BY HandlerOfPage
<1>2. PICK i \in 1..Len(PagesOf[scene]) :
              /\ h \in Handlers[PagesOf[scene][i]]
              /\ IF Found(k, t) = {} THEN i = tab
                 ELSE /\ k \in OverrideKeys[scene][i]
                      /\ \A o \in Found(k, t) : i <= o.page
  BY HandlerOfPage
<1> DEFINE p == PagesOf[scene][i]
<1>3. p \in Pages
  BY <1>1, PagesOfType
<1>4. ButtonMaps[p][k][t] # Nothing /\ h.command = After(p, k, t)
  BY <1>1, <1>2, <1>3, HandlerType
<1>5. Relay!WantedFrom(i, k, t) = MessageOf(h.command)
  BY <1>3, <1>4, SharedStructure, SameFiles DEF Relay!WantedFrom
<1>6. CASE Found(k, t) = {}
  <2>1. Relay!Overriding(k, t) = {}
    BY <1>1, <1>6, OverridingFound
  <2> QED
    BY <1>2, <1>5, <1>6, <2>1 DEF Relay!Wanted
<1>7. CASE Found(k, t) # {}
  <2>1. i \in Relay!Overriding(k, t)
    BY <1>2, <1>5, <1>7 DEF Relay!Overriding
  <2>2. \A j \in Relay!Overriding(k, t) : i <= j
    BY <1>1, <1>2, <1>7, OverridingFound
  <2> QED
    BY <1>5, <2>1, <2>2 DEF Relay!Wanted
<1> QED
  BY <1>6, <1>7

(* A command is sent as wanted, or nothing comes of it.                    *)
LEMMA UseRefines ==
  ASSUME OneCommandPerKey, KCTypeOK, Use
  PROVE  Relay!Next
<1>1. UNCHANGED <<command, view>> /\ IRTypeOK
  BY DEF Use, KeyEvent, PressButton, KCTypeOK
<1>2. ASSUME NEW cs \in CommandStruct, sendCommand(cs)
      PROVE  \/ out' = Nothing /\ Pending' = Pending
             \/ MessageOf(cs) # Nothing /\ Relay!Order(MessageOf(cs))
  <2>1. CASE UNCHANGED buffer /\ out' = Nothing
    BY <1>1, <2>1, PendingStays
  <2>2. CASE UNCHANGED buffer /\ out' = MessageOf(cs) /\ MessageOf(cs) \in Message /\ MessageOf(cs)[1] = "MQTT"
    <3>1. Pending' = Pending
      BY <1>1, <2>2, PendingStays
    <3> QED
      BY <1>1, <2>2, <3>1, FilesAssumption DEF Relay!Order, view
  <2>3. CASE buffer' = Append(buffer, MessageOf(cs)) /\ out' = Nothing /\ MessageOf(cs) \in Commands
    <3>1. Pending' = Append(Pending, MessageOf(cs))
      BY <1>1, <2>3, PendingGrows
    <3> QED
      BY <1>1, <2>3, <3>1, CommandsAreMessages DEF Relay!Order, view
  <2> QED
    BY <1>1, <1>2, <2>1, <2>2, <2>3, SendCommandDoes
<1>3. ASSUME NEW k \in Keys, NEW t \in Types, KeyEvent(k, t) PROVE Relay!Next
  <2>1. PICK h \in Handler(k, t) : sendCommand(h.command)
    BY <1>3 DEF KeyEvent
  <2>2. h.command \in CommandStruct /\ scene \in Scenes /\ used' = <<k, t>>
    BY <1>3, HandlerCommandType, HandlerOfPage DEF KeyEvent
  <2>3. CASE out' = Nothing /\ Pending' = Pending
    BY <1>1, <2>2, <2>3, SameFiles DEF Relay!Next, Relay!Lose, view
  <2>4. CASE MessageOf(h.command) # Nothing /\ Relay!Order(MessageOf(h.command))
    <3>1. PICK i \in Relay!Wanted(k, t) : Relay!WantedFrom(i, k, t) = MessageOf(h.command)
      BY <2>4, WantedIsHandled
    <3>2. Relay!PressKey(k, t)
      BY <2>2, <2>4, <3>1, PagesOfType DEF Relay!PressKey
    <3> QED
      BY <3>2, SameFiles DEF Relay!Next
  <2> QED
    BY <1>2, <2>1, <2>2, <2>3, <2>4
<1>4. ASSUME NEW n \in Names, PressButton(n) PROVE Relay!Next
  <2> DEFINE p == PagesOf[scene][tab]
             cs == getCommand(p, n, Empty)
  <2>1. scene # Nothing /\ scene \in Scenes /\ tab \in 1..Len(PagesOf[scene]) /\ used' = <<"button", n>>
    BY <1>4, TabsAre DEF PressButton, KCTypeOK, ViewOK
  <2>2. p \in Pages
    BY <2>1, PagesOfType
  <2>3. cs \in CommandStruct /\ sendCommand(cs)
    BY <1>4, <2>2, EmptyType, GetCommandType DEF PressButton
  <2>4. CASE out' = Nothing /\ Pending' = Pending
    BY <1>1, <2>1, <2>4 DEF Relay!Next, Relay!Lose, view
  <2>5. CASE MessageOf(cs) # Nothing /\ Relay!Order(MessageOf(cs))
    <3>1. n # Nothing
      BY FilesAssumption
    <3>2. Relay!Meant[p][n] = MessageOf(cs)
      BY <2>2, <3>1, SameFiles DEF Meant
    <3>3. Relay!PressButton(n)
      BY <2>1, <2>5, <3>2 DEF Relay!PressButton
    <3> QED
      BY <3>3 DEF Relay!Next
  <2> QED
    BY <1>2, <2>3, <2>4, <2>5
<1> QED
  BY <1>3, <1>4 DEF Use

(* Nothing is used: a command leaves, or another view is shown.            *)
LEMMA QuietRefines ==
  ASSUME KCTypeOK, KCTypeOK', Unused, Navigate \/ Learner \/ SenderStep \/ Restart \/ Abort
  PROVE  Relay!Next
<1>1. scene' \in Scenes \cup {Nothing} /\ tab' \in Nat /\ used' = Nothing
  BY DEF KCTypeOK, Unused
<1>2. ASSUME out' = Nothing, Pending' \in {Pending, << >>} PROVE Relay!Next
  BY <1>1, <1>2 DEF Relay!Next, Relay!Quiet
<1>3. CASE Navigate \/ Learner
  <2>1. UNCHANGED <<buffer, command>> /\ out' = Nothing
    BY <1>3 DEF Navigate, OpenScene, CloseScene, ChangeTab,
                Learner, OpenLearner, CloseLearner, LearnerKey, LearnerButton, LoopGoesOn, Poll,
                enableRx, disableRx, Send, Sent, Calibrate, Calibrated, loopHandleRx
  <2> QED
    BY <1>2, <2>1, PendingStays
<1>4. CASE SenderStep
  <2>1. CASE Receive
    BY <1>2, <2>1, PendingTaken DEF Receive, KCTypeOK
  <2>2. CASE Skip \/ Transmit
    BY <1>1, <1>4, <2>2, PendingLeaves DEF SenderStep, view, KCTypeOK, Relay!Next, Relay!Emit
  <2>3. CASE Rest
    BY <1>2, <2>3, PendingStays DEF Rest
  <2> QED
    BY <1>4, <2>1, <2>2, <2>3 DEF SenderStep, Sender
<1>5. CASE Restart \/ Abort
  <2>1. command' = Nothing /\ buffer' = << >> /\ out' = Nothing
    BY <1>5 DEF Restart, Abort
  <2>2. Pending' = << >>
    BY <2>1 DEF Pending
  <2> QED
    BY <1>2, <2>1, <2>2
<1> QED
  BY <1>3, <1>4, <1>5

(* With one command per key, keys and buttons send what the pages of the   *)
(* scene say and infrared commands leave in order and once, whatever the   *)
(* configuration (JsonPage.cpp 49-77, 238-269; IRTransceiver.cpp 41-129).  *)
THEOREM CommandsAreThePages == OneCommandPerKey => (Spec => KeepsToFiles)
<1> SUFFICES ASSUME OneCommandPerKey PROVE Spec => KeepsToFiles
  OBVIOUS
<1>1. Init => Relay!Init
  BY DEF Init, IRInit, IRStarted, Relay!Init, Pending
<1>2. ASSUME KCTypeOK, KCTypeOK', [Next]_vars
      PROVE  [Relay!Next]_Relay!rvars
  <2>1. CASE Use
    BY <1>2, <2>1, UseRefines
  <2>2. CASE (Navigate \/ Learner \/ SenderStep \/ Restart \/ Abort) /\ Unused
    BY <1>2, <2>2, QuietRefines
  <2>3. CASE UNCHANGED vars
    BY <2>3, PendingStays DEF vars, irvars, view, Relay!rvars
  <2> QED
    BY <1>2, <2>1, <2>2, <2>3 DEF Next
<1>3. Spec => []KCTypeOK
  BY TypesHold
<1> QED
  BY <1>1, <1>2, <1>3, PTL DEF Spec, Relay!Spec, KeepsToFiles

==============================================================================
