---------------------------- MODULE WfdMessage -----------------------------
(***************************************************************************)
(* RTSP messages: their header and payload, the text to_string() makes of  *)
(* them, and what Driver, its Scanner and the grammar make of that text.   *)
(* The text is the start line, the lines of the header and those of the    *)
(* body; its length is counted in lines.                                   *)
(***************************************************************************)
EXTENDS WfdProperty

Line(name, tokens) == [name |-> name, colon |-> TRUE, tokens |-> tokens]
BareLine(name) == [name |-> name, colon |-> FALSE, tokens |-> <<>>]
LineIf(condition, name, tokens) == IF condition THEN <<Line(name, tokens)>> ELSE <<>>

----------------------------------------------------------------------------
(* The transport header.                                                   *)
TransportHeader ==
  [client_port |-> 0, client_rtcp |-> FALSE, server_port |-> 0, server_rtcp |-> FALSE]

PortToString(port, rtcp) ==
  <<Dec(port)>> \o (IF rtcp THEN <<Word("-"), Dec((port + 1) % (UINT_MAX + 1))>> ELSE <<>>)

TransportToString(t) ==
  LineIf(t.client_port > 0, "Transport",
         PortToString(t.client_port, t.client_rtcp)
           \o (IF t.server_port > 0
               THEN <<Word("server_port=")>> \o PortToString(t.server_port, t.server_rtcp)
               ELSE <<>>))

PortProduction(rtcp) == <<{"NUM"}>> \o (IF rtcp THEN <<{"-"}, {"NUM"}>> ELSE <<>>)

TransportProduction(c, s, r) ==
  PortProduction(c) \o (IF s THEN <<{"server_port="}>> \o PortProduction(r) ELSE <<>>)

ReadPorts(c, s, r, tokens) ==
  When((r => s) /\ Derives(TransportProduction(c, s, r), tokens),
       [client_port |-> AsUInt(tokens[1]), client_rtcp |-> c,
        server_port |-> IF s THEN AsUInt(tokens[IF c THEN 5 ELSE 3]) ELSE 0, server_rtcp |-> r])

ReadTransport(tokens) ==
  UNION {ReadPorts(c, s, r, tokens) : c \in BOOLEAN, s \in BOOLEAN, r \in BOOLEAN}

----------------------------------------------------------------------------
(* The header.  Strings are runs of characters, the empty one is absent.   *)
Header ==
  [cseq |-> 0, content_length |-> 0, timeout |-> 0, session |-> Chars(<<>>),
   transport |-> TransportHeader, content_type |-> Chars(<<>>),
   require_wfd_support |-> FALSE, supported_methods |-> <<>>,
   generic_headers |-> <<>>]

MethodName == {"OPTIONS", "SET_PARAMETER", "GET_PARAMETER", "SETUP", "PLAY", "TEARDOWN",
               "PAUSE", "org.wfa.wfd1.0"}

Empty(string) == string.chars = <<>>

HeaderToString(h) ==
  <<Line("CSeq", IntTokens(h.cseq))>>
    \o LineIf(~Empty(h.session), "Session",
              <<h.session>> \o (IF h.timeout > 0 THEN <<Word("timeout="), Dec(h.timeout)>> ELSE <<>>))
    \o LineIf(~Empty(h.content_type), "Content-Type", <<h.content_type>>)
    \o LineIf(h.content_length # 0, "Content-Length", IntTokens(h.content_length))
    \o TransportToString(h.transport)
    \o LineIf(h.supported_methods # <<>>, "Public",
              Listed(1, [i \in DOMAIN h.supported_methods |-> <<Word(h.supported_methods[i])>>]))
    \o LineIf(h.require_wfd_support, "Require", <<>>)
    \o (LET keys == SetToSeq(DOMAIN h.generic_headers)
        IN [i \in DOMAIN keys |-> Line(keys[i], <<h.generic_headers[keys[i]]>>)])

(* A later entry of a std::map takes the place of an earlier one.          *)
Put(map, key, value) ==
  [k \in DOMAIN map \cup {key} |-> IF k = key THEN value ELSE map[k]]

ReadSession(h, tokens) ==
  When(Derives(<<{"STRING"}>>, tokens), [h EXCEPT !.session = tokens[1], !.timeout = 0]) \cup
  When(Derives(<<{"STRING"}, {"timeout="}, {"NUM"}>>, tokens),
       [h EXCEPT !.session = tokens[1], !.timeout = AsUInt(tokens[3])])

(* The header h with one more line: one header, or none if the line is an  *)
(* error.                                                                  *)
ReadHeaderLine(h, line) ==
  LET tokens == line.tokens
      number == Derives(<<{"NUM"}>>, tokens)
      string == Derives(<<{"STRING"}>>, tokens)
  IN CASE line.name = "CSeq" -> When(number, [h EXCEPT !.cseq = AsInt(tokens[1])])
       [] line.name = "Content-Length" ->
            When(number, [h EXCEPT !.content_length = AsInt(tokens[1])])
       [] line.name = "Content-Type" -> When(string, [h EXCEPT !.content_type = tokens[1]])
       [] line.name = "Session" -> ReadSession(h, tokens)
       [] line.name = "Transport" -> {[h EXCEPT !.transport = t] : t \in ReadTransport(tokens)}
       [] line.name = "Public" ->
            When(IsList(<<MethodName>>, tokens),
                 [h EXCEPT !.supported_methods =
                    [k \in DOMAIN Items(1, tokens) |-> Items(1, tokens)[k][1].word]])
       [] line.name = "Require" -> {[h EXCEPT !.require_wfd_support = TRUE]}
       [] OTHER -> When(string /\ Len(tokens[1].chars) >= 2,
                        [h EXCEPT !.generic_headers = Put(@, line.name, tokens[1])])

(* Reading lines one after the other; an error stays an error.             *)
ReadLines(Read(_, _), empty, lines) ==
  LET results[i \in 0 .. Len(lines)] ==
        IF i = 0 THEN {empty} ELSE UNION {Read(r, lines[i]) : r \in results[i - 1]}
  IN results[Len(lines)]

ReadHeader(lines) == ReadLines(ReadHeaderLine, Header, lines)

----------------------------------------------------------------------------
(* The payload: maps from names to properties and to error codes, and the  *)
(* names a request asks for.  An absent payload is an empty one.           *)
Payload == [properties |-> <<>>, parameters |-> <<>>, errors |-> <<>>]

(* The key of a generic property is its own, that of any other its name.   *)
AddProperty(payload, p) == [payload EXCEPT !.properties = Put(@, p.type, p)]

PropertyErrorsToString(codes) == Listed(1, [i \in DOMAIN codes |-> <<Dec(codes[i])>>])

PropertyLine(p) == IF p.type \in Bare THEN BareLine(p.type) ELSE Line(p.type, PropertyToString(p))

(* Properties, then names, then errors from the last to the first; the     *)
(* order of names in a map is any fixed one.                               *)
PayloadToString(payload) ==
  LET props == SetToSeq(DOMAIN payload.properties)
      errors == Reverse(SetToSeq(DOMAIN payload.errors))
  IN [i \in DOMAIN props |-> PropertyLine(payload.properties[props[i]])]
       \o [i \in DOMAIN payload.parameters |-> BareLine(payload.parameters[i])]
       \o [i \in DOMAIN errors |->
             Line(errors[i], PropertyErrorsToString(payload.errors[errors[i]]))]

----------------------------------------------------------------------------
(* Scanner: which lexer reads a text, given the message read so far.       *)
NoMessage == [kind |-> "none"]

(* A slip: errors are only looked for where no properties can be.          *)
LexerForAnyReply(message) ==
  CASE message = NoMessage -> "header"
    [] message.kind = "REPLY" -> "reply"
    [] OTHER -> "request"

LexerFor(message) ==
  CASE message = NoMessage -> "header"
    [] message.kind = "REPLY" /\ message.code = 303 -> "error"
    [] message.kind = "REPLY" /\ message.code # 303 -> "reply"
    [] OTHER -> "request"

(* A name alone is a name asked for, except that a reply says "standby"    *)
(* and "IDR request" with the name alone.  Behind a name it does not know  *)
(* the lexer skips the ":", and whatever is no string.                     *)
IsParameter(lexer, line) ==
  IF line.name \in PropertyName
  THEN ~line.colon /\ (lexer = "reply" => line.name \notin Bare)
  ELSE ~HasString(line.tokens)

ReadPropertyLine(payload, line) ==
  {AddProperty(payload, p) :
     p \in IF line.colon THEN ReadProperty(line.name, line.tokens)
           ELSE When(line.name \in Bare, Property(line.name, <<>>, <<>>))}

(* There is no production for errors of wfd_standby; a code is an unsigned *)
(* short.                                                                  *)
ReadErrorLine(payload, line) ==
  When(line.colon /\ line.name # "wfd_standby" /\ IsList(<<{"NUM"}>>, line.tokens),
       [payload EXCEPT !.errors =
          Put(@, line.name, [k \in DOMAIN Items(1, line.tokens) |->
                               AsUShort(Items(1, line.tokens)[k][1])])])

(* A payload is a list of names, or a map of properties, or a map of       *)
(* errors: the grammar takes no mixture.                                   *)
ReadPayload(lexer, lines) ==
  LET parameters == {i \in DOMAIN lines : IsParameter(lexer, lines[i])}
  IN IF lexer = "error" THEN ReadLines(ReadErrorLine, Payload, lines)
     ELSE IF parameters = DOMAIN lines
     THEN {[Payload EXCEPT !.parameters = [i \in DOMAIN lines |-> lines[i].name]]}
     ELSE IF parameters = {} THEN ReadLines(ReadPropertyLine, Payload, lines)
     ELSE {}

----------------------------------------------------------------------------
(* Messages: a request with its URI or a reply with its code.              *)
Request == {"OPTIONS", "SET_PARAMETER", "GET_PARAMETER", "SETUP", "PLAY", "TEARDOWN", "PAUSE"}

Message(kind, uri, code, header, payload) ==
  [kind |-> kind, uri |-> uri, code |-> code, header |-> header, payload |-> payload]

NewRequest(kind, uri, header, payload) == Message(kind, uri, 0, header, payload)
NewReply(code, header, payload) == Message("REPLY", Chars(<<>>), code, header, payload)

(* Message::to_string() stores the length of the body in the header.       *)
WithLength(m) ==
  [m EXCEPT !.header.content_length = Len(PayloadToString(m.payload))]

MessageToString(m) ==
  [kind |-> m.kind, uri |-> m.uri, code |-> m.code,
   header |-> HeaderToString(WithLength(m).header), body |-> PayloadToString(m.payload)]

(* A request line wants a URI, or "*" behind OPTIONS.                      *)
Star == Word("*")
ReadsURI(kind, uri) == IF uri = Star THEN kind = "OPTIONS" ELSE ~Empty(uri)

(* Driver::parse_header: forget the last message, read a new one.          *)
ParseHeader(text) ==
  {Message(text.kind, text.uri, text.code, h, Payload) :
     h \in IF text.kind = "REPLY" \/ ReadsURI(text.kind, text.uri)
           THEN ReadHeader(text.header) ELSE {}}

(* Driver::parse_payload: the message read, with its payload.              *)
ParsePayload(message, text) ==
  {[message EXCEPT !.payload = p] : p \in ReadPayload(LexerFor(message), text.body)}
=============================================================================
