----------------------------- MODULE RpcTransport -----------------------------
(***************************************************************************)
(* Addresses of pools and nodes, and HTTP as the node client reads it.     *)
(* Text is a sequence of tokens: punctuation, CR and LF one by one, a name *)
(* or a number as one; the bytes of a body are tokens as well.             *)
(***************************************************************************)
EXTENDS Integers, Sequences, SequencesExt, TLC

Failed == [ok |-> FALSE]

(* Numbers that occur in addresses and headers. *)
Value == ("0" :> 0) @@ ("1" :> 1) @@ ("3333" :> 3333) @@ ("8332" :> 8332) @@ ("65535" :> 65535) @@ ("65536" :> 65536)
DefaultRpcPort == 8332

Positions(text, token) == {i \in 1..Len(text) : text[i] = token}
First(positions) == CHOOSE i \in positions : \A j \in positions : i <= j
Final(positions) == CHOOSE i \in positions : \A j \in positions : i >= j
RECURSIVE TrimStart(_, _)
TrimStart(text, token) ==
    IF text # << >> /\ Head(text) = token THEN TrimStart(Tail(text), token) ELSE text
RECURSIVE TrimEnd(_, _)
TrimEnd(text, token) == IF text # << >> /\ Last(text) = token THEN TrimEnd(Front(text), token) ELSE text
After(text, i) == SubSeq(text, i + 1, Len(text))
PortOf(text) == IF Len(text) = 1 /\ text[1] \in DOMAIN Value /\ Value[text[1]] \in 1..65535
                THEN Value[text[1]] ELSE 0
Unbracketed(host) == TrimEnd(TrimStart(host, "["), "]")

TlsSchemes == {"stratum+ssl", "stratum+tls", "ssl", "tls"}
StratumSchemes == {"stratum+tcp", "stratum", "tcp"} \union TlsSchemes
ParseStratumUrl(url) ==
    LET scheme == Positions(url, "://")
        named == IF scheme = {} THEN << >> ELSE SubSeq(url, 1, First(scheme) - 1)
        rest == TrimEnd(IF scheme = {} THEN url ELSE After(url, First(scheme)), "/")
        colons == Positions(rest, ":")
        host == Unbracketed(SubSeq(rest, 1, Final(colons) - 1))
        port == PortOf(After(rest, Final(colons)))
    IN  IF \/ scheme # {} /\ (Len(named) # 1 \/ Head(named) \notin StratumSchemes)
           \/ colons = {}
        THEN Failed
        ELSE IF host = << >> \/ Positions(host, "/") # {} \/ port = 0 THEN Failed
        ELSE [ok |-> TRUE, host |-> host, port |-> port,
              tls |-> scheme # {} /\ Head(named) \in TlsSchemes]

(* A port is read only where the last colon is not inside brackets, by     *)
(* what precedes and starts the authority.                                 *)
ParseRpcUrl(url) ==
    LET scheme == Positions(url, "://")
        rest == IF scheme = {} THEN url ELSE After(url, First(scheme))
        slashes == Positions(rest, "/")
        authority == IF slashes = {} THEN rest ELSE SubSeq(rest, 1, First(slashes) - 1)
        colons == Positions(authority, ":")
        before == SubSeq(authority, 1, Final(colons) - 1)
        split == colons # {} /\ (before = << >> \/ Last(before) # "]" \/ Head(authority) = "[")
        port == IF split THEN PortOf(After(authority, Final(colons))) ELSE DefaultRpcPort
        host == Unbracketed(IF split THEN before ELSE authority)
    IN  IF \/ scheme # {} /\ SubSeq(url, 1, First(scheme) - 1) # << "http" >>
           \/ port = 0 \/ host = << >>
        THEN Failed
        ELSE [ok |-> TRUE, host |-> host, port |-> port,
              path |-> IF slashes = {} THEN << "/" >> ELSE SubSeq(rest, First(slashes), Len(rest))]

-----------------------------------------------------------------------------
(* HTTP responses. *)

Eol == << "cr", "lf" >>
Found(raw, text) == {i \in 1..Len(raw) - Len(text) + 1 : SubSeq(raw, i, i + Len(text) - 1) = text}
Hex == ("0" :> 0) @@ ("1" :> 1) @@ ("2" :> 2) @@ ("3" :> 3)

(* Mutant: what follows the size is not cut off. *)
WholeLineSize(text) ==
    IF text = << >> \/ \E i \in 1..Len(text) : text[i] \notin DOMAIN Hex THEN -1
    ELSE FoldLeft(LAMBDA n, d : 16 * n + Hex[d], 0, text)
(* A size is what stands before an extension; no digits are no size. *)
ChunkSize(text) ==
    LET semicolons == Positions(text, ";")
        digits == IF semicolons = {} THEN text ELSE SubSeq(text, 1, First(semicolons) - 1)
    IN  IF digits = << >> \/ \E i \in 1..Len(digits) : digits[i] \notin DOMAIN Hex THEN -1
        ELSE FoldLeft(LAMBDA n, d : 16 * n + Hex[d], 0, digits)

RECURSIVE DechunkFrom(_, _)
DechunkFrom(body, out) ==
    LET eol == First(Found(body, Eol))
        size == ChunkSize(SubSeq(body, 1, eol - 1))
        data == After(body, eol + 1)
    IN  IF Found(body, Eol) = {} THEN Failed
        ELSE IF size = -1 THEN Failed
        ELSE IF size = 0 THEN [ok |-> TRUE, body |-> out]
        ELSE IF Len(data) < size + 2 THEN Failed
        ELSE DechunkFrom(After(data, size + 2), out \o SubSeq(data, 1, size))
Dechunk(body) == DechunkFrom(body, << >>)

RECURSIVE Lines(_)
Lines(head) ==
    IF Found(head, Eol) = {} THEN << head >>
    ELSE LET eol == First(Found(head, Eol)) IN << SubSeq(head, 1, eol - 1) >> \o Lines(After(head, eol + 1))
(* Status line <<"status", code>>, header lines <<name, value>>. *)
ParseHttpResponse(raw) ==
    LET ends == Found(raw, Eol \o Eol)
        split == First(ends)
        lines == Lines(SubSeq(raw, 1, split - 1))
        body == After(raw, split + 3)
        chunked == \E i \in 2..Len(lines) : lines[i] = << "transfer-encoding", "chunked" >>
        lengths == {i \in 2..Len(lines) : Len(lines[i]) = 2 /\ lines[i][1] = "content-length"}
        length == lines[Final(lengths)][2]
    IN  IF ends = {} THEN Failed
        ELSE IF Len(lines[1]) # 2 THEN Failed
        ELSE IF chunked THEN Dechunk(body)
        ELSE IF lengths = {} \/ length \notin DOMAIN Hex THEN [ok |-> TRUE, body |-> body]
        ELSE IF Hex[length] > Len(body) THEN Failed
        ELSE [ok |-> TRUE, body |-> SubSeq(body, 1, Hex[length])]

(* RpcClient::call: the body decides, the status only when there is no     *)
(* JSON-RPC object in it.  A body is [error, result], each perhaps absent. *)
CallOutcome(response) ==
    IF ~response.ok THEN "Transport"
    ELSE IF response.body.error = "absent" /\ response.body.result = "absent" THEN "Http"
    ELSE IF response.body.error \notin {"absent", "null"} THEN "Rpc"
    ELSE "Ok"

(* Three bytes make four digits of the alphabet; 64 stands for '='. *)
Base64Chunk(chunk) ==
    LET b == [i \in 1..3 |-> IF i <= Len(chunk) THEN chunk[i] ELSE 0]
        n == b[1] * 65536 + b[2] * 256 + b[3]
    IN  [i \in 1..4 |-> IF i <= Len(chunk) + 1 THEN (n \div 64 ^ (4 - i)) % 64 ELSE 64]
RECURSIVE Base64(_)
Base64(data) ==
    IF data = << >> THEN << >>
    ELSE Base64Chunk(SubSeq(data, 1, IF Len(data) < 3 THEN Len(data) ELSE 3)) \o Base64(After(data, 3))

=============================================================================
