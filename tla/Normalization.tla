--------------------------- MODULE Normalization ---------------------------
(***************************************************************************)
(* domain/pipeline/normalization.py: a raw payload becomes the columns of  *)
(* a normalized event.  Of the alias table the fields are kept whose       *)
(* handling differs; the others are copied like hostname.                  *)
(*                                                                         *)
(* A text is a word with or without a trailing blank and capitals, which is *)
(* what strip() and lower() change.  Words have a length, and a text that  *)
(* is too long for its column is cut.  Values are texts, numbers or        *)
(* Absent; str() writes a number with its digits.                          *)
(***************************************************************************)
EXTENDS Integers, Sequences, FiniteSets, Sums

CONSTANTS
    Word,        \* the words texts are made of
    Size,        \* how many characters each has
    Opening(_, _), \* the first n characters of a text whose word has more
    Width,       \* FIELD_MAX_LENGTHS, and the width of the severity's column
    FailWord,    \* those with "fail" in them
    IpWord,      \* those that are IP addresses
    TimeWord,    \* those that are timestamps
    HashWord,    \* those that are hashes
    Numbers,     \* the numbers payloads and rules hold
    Digits,      \* what str() makes of each
    Absent       \* None

Text == [word: Word, padded: BOOLEAN, upper: BOOLEAN]
Number == [number: Numbers]
Value == Text \cup Number

IsText(v) == v # Absent /\ "word" \in DOMAIN v
IsNumber(v) == v # Absent /\ "number" \in DOMAIN v
T(w) == [word |-> w, padded |-> FALSE, upper |-> FALSE]
Strip(t) == [word |-> t.word, padded |-> FALSE, upper |-> t.upper]
Lower(t) == [word |-> t.word, padded |-> t.padded, upper |-> FALSE]
Written(v) == IF IsNumber(v) THEN T(Digits[v.number]) ELSE v
Length(t) == IF t.padded THEN Size[t.word] + 1 ELSE Size[t.word]

Blank(t) == t.word = ""

\* t[:n]
Cut(t, n) ==
    IF Length(t) <= n THEN t
    ELSE IF Size[t.word] <= n THEN Strip(t) ELSE Opening(Strip(t), n)

Fitted == {"event_type", "event_category", "actor", "username", "protocol", "hostname",
           "process_name", "domain", "correlation_key"}

\* A value Python takes for true.
Truthy(v) == v # Absent /\ v # T("") /\ v # [number |-> 0]

Allowed == {"success", "failure", "partial", "unknown", "locked"}
LoginWord == {"success", "logon", "login", "sign_in", "signin"}

ASSUME WordsKnown ==
    /\ {"", "generic", "unknown", "None", "success", "failure",
        "critical", "high", "medium", "low", "informational"} \subseteq Word
    /\ FailWord \subseteq Word /\ IpWord \subseteq Word /\ TimeWord \subseteq Word
    /\ HashWord \subseteq Word /\ "" \notin IpWord \cup HashWord
    /\ FailWord \cap Allowed = {"failure"}
    /\ Numbers \subseteq Int /\ Digits \in [Numbers -> Word \ {""}]
    /\ \A m, n \in Numbers : Digits[m] = Digits[n] => m = n
    /\ Absent \notin Value /\ Absent \notin Seq(Text)
    /\ \A w \in Word : Size[w] = 0 <=> w = ""

\* A cut may fall behind a blank within the text, and lower() keeps lengths.
ASSUME TextsCut ==
    /\ Size \in [Word -> Nat]
    /\ \A t \in Text : \A n \in 0..(Size[t.word] - 1) :
          /\ Opening(t, n) \in Text /\ Length(Opening(t, n)) = n
          /\ n > 0 => ~Blank(Opening(t, n))
          /\ Opening(Lower(t), n) = Lower(Opening(t, n))

ASSUME WidthsKnown ==
    /\ Width \in [Fitted \cup {"severity"} -> Nat \ {0}]
    /\ Width["username"] = Width["correlation_key"]
    /\ Width["hostname"] = Width["correlation_key"]
    /\ Size["unknown"] <= Width["event_type"] /\ Size["None"] <= Width["event_category"]

----------------------------------------------------------------------------
FieldMapping == <<
    <<"occurred_at", "occurred_at">>, <<"timestamp", "occurred_at">>,
    <<"user", "username">>, <<"username", "username">>, <<"actor", "actor">>,
    <<"source_ip", "source_ip">>, <<"src_ip", "source_ip">>,
    <<"source_port", "source_port">>, <<"protocol", "protocol">>,
    <<"hostname", "hostname">>, <<"process_name", "process_name">>,
    <<"sha256", "file_hash_sha256">>, <<"domain", "domain">>,
    <<"event_type", "event_type">>, <<"event_category", "event_category">>,
    <<"severity", "severity">>, <<"level", "severity">>,
    <<"authentication_result", "authentication_result">>,
    <<"result", "authentication_result">>, <<"correlation_key", "correlation_key">> >>

Source == {FieldMapping[i][1] : i \in DOMAIN FieldMapping} \cup {"action"}
Canonical == {FieldMapping[i][2] : i \in DOMAIN FieldMapping}
Payload == [Source -> Value \cup {Absent}]

\* A timestamp that does not parse becomes None.
Transform(c, v) ==
    IF c = "occurred_at" /\ IsText(v) /\ v.word \notin TimeWord THEN Absent ELSE v

\* Entries are applied in order, so the last alias given wins.
Mapped(payload) ==
    [c \in Canonical |->
        LET given == {i \in DOMAIN FieldMapping : /\ FieldMapping[i][2] = c
                                                  /\ payload[FieldMapping[i][1]] # Absent}
        IN  IF given = {} THEN Absent
            ELSE Transform(c, payload[FieldMapping[CHOOSE i \in given :
                                                     \A j \in given : j <= i][1]])]

----------------------------------------------------------------------------
\* derive: what the payload's action says when no alias gave a result.
ActionResult(action) ==
    LET w == Lower(Strip(action)).word
    IN  CASE w \in Allowed -> T(w)
          [] w \notin Allowed /\ w \in FailWord -> T("failure")
          [] w \notin Allowed \cup FailWord /\ w \in LoginWord -> T("success")
          [] OTHER -> Absent

InferredType(record, payload) ==
    LET given == IF Truthy(payload["event_type"]) THEN payload["event_type"] ELSE T("generic")
        action == IF IsText(payload["action"]) THEN Lower(Strip(payload["action"])) ELSE T("")
    IN  IF record["event_type"] \notin {Absent, T("generic")} THEN record["event_type"]
        ELSE IF given = T("generic") /\ action # T("") THEN action ELSE given

SeverityOfNumber(n) ==
    T(CASE n >= 9 -> "critical" [] n \in 7..8 -> "high" [] n \in 4..6 -> "medium"
        [] n \in 1..3 -> "low" [] OTHER -> "informational")

InferredSeverity(record, payload) ==
    LET raw == IF Truthy(payload["severity"]) THEN payload["severity"] ELSE payload["level"]
    IN  IF record["severity"] = Absent /\ IsNumber(raw) THEN SeverityOfNumber(raw.number)
                                                       ELSE record["severity"]

KeyPart(anchor) == IF Truthy(anchor) THEN <<Lower(Written(anchor))>> ELSE <<>>

\* Mutant: the strongest anchor alone makes the key.
CorrelationKeyStrongest(record) ==
    IF Truthy(record["username"]) THEN KeyPart(record["username"])
    ELSE IF Truthy(record["hostname"]) THEN KeyPart(record["hostname"])
    ELSE KeyPart(record["source_ip"])

\* build_correlation_key: the anchors that are given, lower case, as they were
\* mapped, that is before validation.
CorrelationKey(record) ==
    KeyPart(record["username"]) \o KeyPart(record["hostname"]) \o KeyPart(record["source_ip"])

Derived(record, payload) ==
    [record EXCEPT
        !["authentication_result"] =
            IF @ = Absent /\ IsText(payload["action"]) THEN ActionResult(payload["action"]) ELSE @,
        !["actor"] = IF @ = Absent /\ Truthy(record["username"]) THEN record["username"] ELSE @,
        !["event_type"] = InferredType(record, payload),
        !["severity"] = InferredSeverity(record, payload),
        !["correlation_key"] = IF Truthy(@) THEN <<Written(@)>> ELSE CorrelationKey(record)]

----------------------------------------------------------------------------
\* _build_record and its coercions.
Truncated(v, width) ==
    IF v = Absent \/ Blank(Written(v)) THEN Absent ELSE Cut(Strip(Written(v)), width)
AuthResult(v) ==
    IF IsText(v) /\ v.word \in Allowed THEN Lower(Strip(v)) ELSE Absent
Ip(v) == IF IsText(v) /\ v.word \in IpWord THEN Strip(v) ELSE Absent

\* The length is checked before the blanks are cut off.
Hash(v) == IF IsText(v) /\ ~v.padded /\ v.word \in HashWord THEN Lower(v) ELSE Absent

Ports == 0..65535

\* The numbers a value stands for: a text of digits is one.
Read(v) == IF IsNumber(v) THEN {v.number}
           ELSE {n \in Numbers : IsText(v) /\ Digits[n] = v.word}

\* Mutant: any number is a port.
PortUnchecked(v) ==
    IF Read(v) = {} THEN Absent ELSE [number |-> CHOOSE n \in Read(v) : TRUE]

Port(v) ==
    IF Read(v) \cap Ports = {} THEN Absent ELSE [number |-> CHOOSE n \in Read(v) : TRUE]
SeverityText(v) == IF IsText(v) /\ ~Blank(v) THEN Lower(Strip(v)) ELSE Absent

\* strip() of the key "part|part|part".
Trimmed(parts) ==
    [i \in DOMAIN parts |-> IF i = Len(parts) \/ (i = 1 /\ Blank(parts[1]))
                              THEN Strip(parts[i]) ELSE parts[i]]

\* Ends(parts)[i] characters are those of the first i parts, each with the "|"
\* behind it; the last has none.
Ends(parts) == PartialSums([i \in DOMAIN parts |-> Length(parts[i]) + 1], Len(parts))
KeyLength(parts) == Ends(parts)[Len(parts)] - 1

\* The key is cut as a whole: parts may fall off its end, and the last be cut.
CutKey(parts, width) ==
    [i \in {j \in DOMAIN parts : Ends(parts)[j - 1] <= width} |->
        Cut(parts[i], width - Ends(parts)[i - 1])]

KeyText(parts) ==
    IF parts = <<>> \/ (Len(parts) = 1 /\ Blank(parts[1])) THEN Absent
    ELSE CutKey(Trimmed(parts), Width["correlation_key"])

\* The lower() of a protocol that strip() has emptied fails.
Raises(record) ==
    Truthy(record["protocol"]) /\ Truncated(record["protocol"], Width["protocol"]) = Absent

\* str(None) for a category that is absent.
Category(v) == IF v = Absent THEN T("None") ELSE Truncated(v, Width["event_category"])

Built(record) ==
    LET Cell(f) == Truncated(record[f], Width[f])
    IN
    [record EXCEPT
        !["event_type"] = IF Cell("event_type") = Absent THEN T("unknown") ELSE Cell("event_type"),
        !["event_category"] = Category(@),
        !["severity"] = SeverityText(@),
        !["actor"] = Cell("actor"), !["username"] = Cell("username"),
        !["hostname"] = Cell("hostname"), !["process_name"] = Cell("process_name"),
        !["file_hash_sha256"] = Hash(@), !["domain"] = Cell("domain"),
        !["source_ip"] = Ip(@), !["source_port"] = Port(@),
        !["protocol"] = IF Truthy(@) THEN Lower(Cell("protocol")) ELSE Absent,
        !["authentication_result"] = AuthResult(@),
        !["correlation_key"] = KeyText(@)]

\* normalize; the caller's time stands in for a missing or unreadable one.
Normalized(payload, now) ==
    LET record == Derived(Mapped(payload), payload)
    IN  [Built(record) EXCEPT !["occurred_at"] = IF @ = Absent THEN now ELSE @]

\* The database refuses a severity that is longer than its column.
Overflows(event) == event["severity"] # Absent /\ Length(event["severity"]) > Width["severity"]
=============================================================================
