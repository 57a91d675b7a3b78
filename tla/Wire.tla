-------------------------------- MODULE Wire --------------------------------
(***************************************************************************)
(* The LPEC text protocol: how a line is written and parsed                *)
(* (crates/linn-lpec/src/lib.rs) and how lines are cut out of what a       *)
(* connection delivers (read_lpec_line of crates/app-runtime/src/lpec.rs). *)
(*                                                                         *)
(* A text is a sequence of symbols: the characters the protocol tells      *)
(* apart, and words, which stand for any run of others.  An entity is the  *)
(* symbol of the ampersand and the word that completes it.                 *)
(***************************************************************************)
EXTENDS Naturals, Sequences, FiniteSetsExt

CONSTANTS
  Words,            \* that stand for runs of other characters
  Messages,         \* what the device may say
  Texts,            \* arguments the remote may send
  MaxArgs,          \* MAX_ARGS, and MAX_EVENTS
  MaxLine,          \* MAX_LINE_LEN, in symbols
  MaxSaid, MaxGaps  \* bounds

VARIABLES
  sent,     \* what the device has said
  wire,     \* symbols the reader has yet to take
  half,     \* the line read so far
  inQuotes, escape,
  got,      \* the messages understood
  request,  \* what the remote has asked, and the line it wrote for it
  (* for the properties: *)
  clean,    \* has no line been cut since everything was last in step?
  from,     \* how much had been said then
  base,     \* and how much understood
  gaps      \* pauses within a line

reader == <<half, inQuotes, escape>>
wireVars == <<sent, wire, reader, got, request, clean, from, base, gaps>>

Quote == "quote"
Slash == "backslash"
Blank == "blank"
LF == "LF"
CR == "CR"

Entity == [c \in {Quote, "&", "<"} |->
             CASE c = Quote -> "quot;" [] c = "&" -> "amp;" [] c = "<" -> "lt;"]
-----------------------------------------------------------------------------
(* Writing. *)

Concat(seqs) ==
  LET join[i \in 0..Len(seqs)] == IF i = 0 THEN <<>> ELSE join[i - 1] \o seqs[i]
  IN  join[Len(seqs)]

\* Mutated: the ampersand is written as it is.
EscapedBarely(text) ==
  Concat([i \in DOMAIN text |->
            IF text[i] \in {Quote, "<"} THEN <<"&", Entity[text[i]]>> ELSE <<text[i]>>])

(* push_quoted_xml_arg, between its quotes. *)
Escaped(text) ==
  Concat([i \in DOMAIN text |->
            IF text[i] \in DOMAIN Entity THEN <<"&", Entity[text[i]]>> ELSE <<text[i]>>])

InQuotes(text) == <<Quote>> \o text \o <<Quote>>

(* format_action *)
FormatAction(service, name, args) ==
  <<"ACTION", Blank, service, Blank, "1", Blank, name>>
    \o Concat([i \in DOMAIN args |-> <<Blank>> \o InQuotes(Escaped(args[i]))])
-----------------------------------------------------------------------------
(* Parsing a line. *)

SkipBlanks(line, i) == Min({j \in i..(Len(line) + 1) : j > Len(line) \/ line[j] # Blank})

(* next_atom; an atom that is not there is an empty one. *)
Atom(line, i) ==
  LET start == SkipBlanks(line, i)
      end   == IF start <= Len(line) /\ line[start] = Quote THEN start
               ELSE Min({j \in start..(Len(line) + 1) : j > Len(line) \/ line[j] = Blank})
  IN  [text |-> SubSeq(line, start, end - 1), next |-> end]

Found(atom) == atom.text # <<>>

(* Which symbols from start on a backslash escapes that is not itself escaped. *)
Escapes(line, start) ==
  LET escaped[j \in start..Len(line)] ==
        j > start /\ line[j - 1] = Slash /\ ~escaped[j - 1]
  IN  escaped

(* quoted_arg_ends_here: quotes within a value are passed over. *)
EndsHere(line, at) ==
  line[at] = Quote /\ (at = Len(line) \/ (at < Len(line) /\ line[at + 1] = Blank))

(* next_quoted *)
Quoted(line, i) ==
  LET start == SkipBlanks(line, i)
      ends  == {j \in (start + 1)..Len(line) :
                  EndsHere(line, j) /\ ~Escapes(line, start + 1)[j]}
  IN  IF start > Len(line) THEN [is |-> "nothing", text |-> <<>>, next |-> start]
      ELSE IF line[start] # Quote \/ ends = {}
      THEN [is |-> "wrong", text |-> <<>>, next |-> start]
      ELSE [is |-> "right", text |-> SubSeq(line, start + 1, Min(ends) - 1),
            next |-> Min(ends) + 1]

Numbers == {"0", "1", "7"}
IsNumber(atom) == atom.text \in {<<number>> : number \in Numbers}

(* One value more, unless there is none. *)
NextValue(line, was) ==
  LET value == Quoted(line, was.at)
  IN  IF was.is = "wrong" \/ value.is = "nothing" THEN was
      ELSE IF value.is = "wrong" \/ Len(was.parts) = MaxArgs
      THEN [was EXCEPT !.is = "wrong"]
      ELSE [is |-> "right", at |-> value.next, parts |-> Append(was.parts, value.text)]

NothingRead(i) == [is |-> "right", at |-> i, parts |-> <<>>]

(* The values to the end of the line: all there are, or one more than fit. *)
Values(line, i) ==
  LET read[k \in 0..(MaxArgs + 1)] ==
        IF k = 0 THEN NothingRead(i) ELSE NextValue(line, read[k - 1])
  IN  read[MaxArgs + 1]

NextVariable(line, was) ==
  LET name  == Atom(line, was.at)
      value == Quoted(line, name.next)
  IN  IF was.is = "wrong" \/ ~Found(name) THEN was
      ELSE IF value.is # "right" \/ Len(was.parts) = MaxArgs
      THEN [was EXCEPT !.is = "wrong"]
      ELSE [is |-> "right", at |-> value.next,
            parts |-> Append(was.parts, <<name.text, value.text>>)]

(* The named values to the end of the line. *)
Variables(line, i) ==
  LET read[k \in 0..(MaxArgs + 1)] ==
        IF k = 0 THEN NothingRead(i) ELSE NextVariable(line, read[k - 1])
  IN  read[MaxArgs + 1]

Kinds == {"RESPONSE", "EVENT", "SUBSCRIBE", "UNSUBSCRIBE", "ALIVE", "BYEBYE", "ERROR"}

Invalid == [kind |-> "invalid", parts |-> <<>>]
OnlyIf(condition, kind, parts) ==
  IF condition THEN [kind |-> kind, parts |-> parts] ELSE Invalid

(* finish *)
AtEnd(line, i) == SkipBlanks(line, i) > Len(line)

(* parse_message *)
ParseMessage(line) ==
  LET command   == Atom(line, 1)
      kind      == IF command.text \in {<<k>> : k \in Kinds} THEN command.text[1] ELSE "?"
      first     == Atom(line, command.next)
      second    == Atom(line, first.next)
      values    == Values(line, command.next)
      variables == Variables(line, second.next)
      why       == Quoted(line, first.next)
  IN  CASE kind = "RESPONSE" ->
             OnlyIf(values.is = "right" /\ AtEnd(line, values.at), kind, values.parts)
        [] kind = "EVENT" ->
             OnlyIf(/\ IsNumber(first) /\ IsNumber(second)
                    /\ variables.is = "right" /\ AtEnd(line, variables.at),
                    kind, variables.parts)
        [] kind \in {"SUBSCRIBE", "UNSUBSCRIBE"} ->
             OnlyIf(IsNumber(first) /\ AtEnd(line, first.next), kind, <<>>)
        [] kind \in {"ALIVE", "BYEBYE"} ->
             OnlyIf(Found(first) /\ Found(second) /\ AtEnd(line, second.next), kind, <<>>)
        [] kind = "ERROR" ->
             OnlyIf(IsNumber(first) /\ why.is = "right" /\ AtEnd(line, why.next), kind, <<>>)
        [] kind = "?" -> Invalid
-----------------------------------------------------------------------------
(* Reading a value: entities and backslashes are undone. *)

\* Mutated: a backslash is a character like any other.
LeadingBare(text, at) ==
  LET entities == {c \in DOMAIN Entity :
                     text[at] = "&" /\ at < Len(text) /\ text[at + 1] = Entity[c]}
  IN  IF entities # {} THEN [is |-> CHOOSE c \in entities : TRUE, width |-> 2]
      ELSE [is |-> text[at], width |-> 1]

(* What a text goes on with, and how much of it that takes. *)
Leading(text, at) ==
  LET Then(c)  == at < Len(text) /\ text[at + 1] = c
      escapes  == text[at] = Slash /\ (Then(Quote) \/ Then(Slash))
      entities == {c \in DOMAIN Entity : text[at] = "&" /\ Then(Entity[c])}
  IN  CASE escapes -> [is |-> text[at + 1], width |-> 2]
        [] entities # {} -> [is |-> CHOOSE c \in entities : TRUE, width |-> 2]
        [] ~escapes /\ entities = {} -> [is |-> text[at], width |-> 1]

(* A backslash at the very end is dropped. *)
ReadOn(text, was) ==
  IF was.at > Len(text) \/ (was.at = Len(text) /\ text[was.at] = Slash) THEN was
  ELSE [at  |-> was.at + Leading(text, was.at).width,
        out |-> Append(was.out, Leading(text, was.at).is)]

(* copy_xml_text_once; push_xml_unescaped differs in what it refuses. *)
Undone(text) ==
  LET read[k \in 0..Len(text)] ==
        IF k = 0 THEN [at |-> 1, out |-> <<>>] ELSE ReadOn(text, read[k - 1])
  IN  read[Len(text)].out

(* copy_xml_text: once for the line, once more for the XML in the value. *)
CopyXmlText(text) == Undone(Undone(text))

(* fill_session_response_args; an event's variables are undone where they   *)
(* are used. *)
Understood(message) ==
  [message EXCEPT !.parts =
     [i \in DOMAIN message.parts |->
        IF message.kind = "EVENT"
        THEN <<message.parts[i][1], CopyXmlText(message.parts[i][2])>>
        ELSE CopyXmlText(message.parts[i])]]
-----------------------------------------------------------------------------
(* What the device says: a kind, the atoms after it, and texts, each named  *)
(* in an event.  It writes a text with entities, with entities twice when   *)
(* it is the text of an XML value, with backslashes, or as it is.           *)

AsWritten(text, style) ==
  CASE style = "entities" -> Escaped(text)
    [] style = "nested" -> Escaped(Escaped(text))
    [] style = "backslashes" ->
         Concat([i \in DOMAIN text |->
                   IF text[i] \in {Quote, Slash} THEN <<Slash, text[i]>> ELSE <<text[i]>>])
    [] style = "raw" -> text

Argument(m, i) ==
  (IF m.kind = "EVENT" THEN <<Blank, "name">> ELSE <<>>)
    \o <<Blank>> \o InQuotes(AsWritten(m.texts[i], m.style))

Body(m) ==
  <<m.kind>> \o Concat([i \in DOMAIN m.atoms |-> <<Blank, m.atoms[i]>>])
    \o Concat([i \in DOMAIN m.texts |-> Argument(m, i)])

Written(m) == Body(m) \o <<CR, LF>>

(* What it means, when it can be told. *)
Meant(m) ==
  [kind |-> m.kind,
   parts |-> CASE m.kind = "EVENT" -> [i \in DOMAIN m.texts |-> <<<<"name">>, m.texts[i]>>]
               [] m.kind = "RESPONSE" -> m.texts
               [] m.kind \notin {"EVENT", "RESPONSE"} -> <<>>]
AllMeant(said) ==
  Concat([i \in DOMAIN said |->
            IF Len(said[i].texts) <= MaxArgs THEN <<Meant(said[i])>> ELSE <<>>])

(* Texts written as they are, JSON that is, have their quotes in pairs, no  *)
(* quote before a blank or at the end, nothing to undo, and line ends only  *)
(* between the strings.                                                    *)
Quotes(text) == Cardinality({i \in DOMAIN text : text[i] = Quote})
IsJson(text) ==
  /\ Quotes(text) % 2 = 0
  /\ \A i \in DOMAIN text :
       /\ text[i] \notin {Slash, "&"}
       /\ text[i] = Quote => i < Len(text) /\ text[i + 1] # Blank
       /\ text[i] = LF => Quotes(SubSeq(text, 1, i)) % 2 = 0

(* What can be told from how it is written: reading undoes what was written *)
(* once twice.                                                             *)
Tellable(text, style) ==
  /\ \A i \in DOMAIN text : text[i] # CR
  /\ style = "raw" => IsJson(text)
  /\ style \in {"entities", "nested"} => \A i \in DOMAIN text : text[i] # Slash
  /\ style = "backslashes" => \A i \in DOMAIN text : text[i] # "&"
  /\ style \in {"entities", "backslashes"} => Undone(text) = text

Symbols ==
  Words \cup {Quote, Slash, Blank, LF, CR, "&", "<", "name"} \cup Kinds \cup Numbers
    \cup {Entity[c] : c \in DOMAIN Entity} \cup {"ACTION", "Ds/Pins", "ReadList"}

Apart == {Quote, Slash, Blank, LF, CR}

IsMessage(m) ==
  /\ m \in [kind : Kinds, atoms : Seq(Symbols), texts : Seq(Seq(Symbols)),
            style : {"entities", "nested", "backslashes", "raw"}]
  /\ Len(m.atoms) = CASE m.kind = "RESPONSE" -> 0
                      [] m.kind \in {"SUBSCRIBE", "UNSUBSCRIBE", "ERROR"} -> 1
                      [] m.kind \in {"EVENT", "ALIVE", "BYEBYE"} -> 2
  /\ m.kind \notin {"RESPONSE", "EVENT"} => Len(m.texts) = IF m.kind = "ERROR" THEN 1 ELSE 0
  /\ \A i \in DOMAIN m.atoms :
       m.atoms[i] \notin Apart /\ (m.kind \notin {"ALIVE", "BYEBYE"} => m.atoms[i] \in Numbers)
  /\ \A i \in DOMAIN m.texts : Tellable(m.texts[i], m.style)

ASSUME WireAssumption ==
  /\ \A m \in Messages : IsMessage(m)
  /\ \A text \in Texts : text \in Seq(Symbols \ {Slash})
  /\ MaxArgs \in Nat \ {0} /\ {MaxLine, MaxSaid, MaxGaps} \subseteq Nat

(* No message holds the beginning of another.                              *)
ASSUME NoLineWithin ==
  \A m \in Messages : \A i \in 2..Len(Body(m)) : Body(m)[i] \notin Kinds
-----------------------------------------------------------------------------
NoLine == half' = <<>> /\ inQuotes' = FALSE /\ escape' = FALSE

WireInit ==
  /\ sent = <<>> /\ wire = <<>> /\ got = <<>>
  /\ half = <<>> /\ inQuotes = FALSE /\ escape = FALSE
  /\ request = <<>>
  /\ clean = TRUE /\ from = 0 /\ base = 0 /\ gaps = 0

(* The device says something; it waits until the last has been taken. *)
Say ==
  /\ wire = <<>> /\ Len(sent) < MaxSaid
  /\ \E m \in Messages : sent' = Append(sent, m) /\ wire' = Written(m)
  /\ UNCHANGED <<reader, got, request, clean, from, base, gaps>>

(* The remote writes an action. *)
Ask ==
  /\ request = <<>> /\ sent = <<>>
  /\ \E text \in Texts :
       request' = <<[text |-> text, line |-> FormatAction("Ds/Pins", "ReadList", <<text>>)]>>
  /\ UNCHANGED <<sent, wire, reader, got, clean, from, base, gaps>>

(* read_lpec_line: one symbol of a line; line ends in quotes belong to it. *)
TakeSymbol ==
  /\ wire # <<>>
  /\ LET c == Head(wire)
     IN  /\ ~(c = LF /\ ~inQuotes)
         /\ IF c = CR THEN UNCHANGED reader
            ELSE /\ Len(half) < MaxLine
                 /\ half' = Append(half, c)
                 /\ inQuotes' = (inQuotes # (c = Quote /\ ~escape))
                 /\ escape' = (c = Slash /\ ~escape)
  /\ wire' = Tail(wire)
  /\ UNCHANGED <<sent, got, request, clean, from, base, gaps>>

(* The line is whole; one that cannot be parsed is passed over. *)
TakeLine ==
  /\ wire # <<>> /\ Head(wire) = LF /\ ~inQuotes
  /\ LET message == ParseMessage(half)
     IN  got' = IF message = Invalid THEN got ELSE Append(got, Understood(message))
  /\ NoLine
  /\ wire' = Tail(wire)
  /\ UNCHANGED <<sent, request, clean, from, base, gaps>>

(* The line is too long.  A poll drops the connection and subscribes anew,  *)
(* an action lets it pass and the next read begins in the middle.          *)
TooLong ==
  /\ wire # <<>> /\ Head(wire) # CR /\ ~(Head(wire) = LF /\ ~inQuotes)
  /\ Len(half) = MaxLine
  /\ NoLine
  /\ \/ /\ wire' = <<>>
        /\ clean' = TRUE /\ from' = Len(sent) /\ base' = Len(got)
     \/ /\ wire' = Tail(wire)
        /\ clean' = FALSE /\ UNCHANGED <<from, base>>
  /\ UNCHANGED <<sent, got, request, gaps>>

\* Mutated: what is known of the quotes outlives the read.
FallSilentInQuotes ==
  /\ wire = <<>> /\ <<clean, from, base>> # <<TRUE, Len(sent), Len(got)>>
  /\ half' = <<>> /\ escape' = FALSE /\ UNCHANGED inQuotes
  /\ clean' = TRUE /\ from' = Len(sent) /\ base' = Len(got)
  /\ UNCHANGED <<sent, wire, got, request, gaps>>

(* Nothing has come for as long as a read waits.  The line read so far is   *)
(* a local of read_lpec_line. *)
FallSilent ==
  /\ wire = <<>> /\ <<clean, from, base>> # <<TRUE, Len(sent), Len(got)>>
  /\ NoLine
  /\ clean' = TRUE /\ from' = Len(sent) /\ base' = Len(got)
  /\ UNCHANGED <<sent, wire, got, request, gaps>>

(* The same within a line: a segment is late. *)
SegmentIsLate ==
  /\ wire # <<>> /\ half # <<>> /\ gaps < MaxGaps
  /\ gaps' = gaps + 1
  /\ NoLine
  /\ clean' = FALSE
  /\ UNCHANGED <<sent, wire, got, request, from, base>>

WireNext == Say \/ Ask \/ TakeSymbol \/ TakeLine \/ TooLong \/ FallSilent \/ SegmentIsLate

WireSpec == WireInit /\ [][WireNext]_wireVars
-----------------------------------------------------------------------------
(* The elements of one are elements of another, in the order they are there. *)
Embeds(some, all) ==
  \E place \in [DOMAIN some -> DOMAIN all] :
    /\ \A i \in DOMAIN some : some[i] = all[place[i]]
    /\ \A i, j \in DOMAIN some : i < j => place[i] < place[j]

(* Whatever is lost, nothing is made up: what is understood was said, word  *)
(* for word and in that order, be a line's other half taken for a line, or  *)
(* two lines for one (read_lpec_line, parse_message, copy_xml_text). *)
HeardIsSaid == Embeds(got, AllMeant(sent))

(* After a silence between two messages everything is understood until a    *)
(* line is cut again, however its texts are written and whatever quotes and *)
(* line ends they hold: reader and parser agree where a line ends. *)
InStep ==
  clean /\ wire = <<>> =>
    SubSeq(got, base + 1, Len(got)) = AllMeant(SubSeq(sent, from + 1, Len(sent)))

(* An argument without a backslash reads back as it was meant, by the same  *)
(* grammar (push_quoted_xml_arg, next_quoted). *)
AskedIsMeant ==
  \A asked \in {request[i] : i \in DOMAIN request} :
    LET read == Values(asked.line, 8)
    IN  /\ read.is = "right"
        /\ [i \in DOMAIN read.parts |-> Undone(read.parts[i])] = <<asked.text>>

(* poll: "Once we've read at least one line, a single timeout means the     *)
(* buffer is drained": a pause loses nothing. *)
TimeoutsLoseNothing == wire = <<>> => got = AllMeant(sent)
=============================================================================
