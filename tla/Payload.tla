------------------------------- MODULE Payload -------------------------------
(***************************************************************************)
(* The messages of the protocol (rpc.c): what create_..._request and       *)
(* create_..._response put into a JSON object, and what                    *)
(* kad_payload_parse_request and kad_payload_parse_result read out of one. *)
(* A message is the tree that cJSON builds; its text is cJSON's business.  *)
(* A string is a sequence of characters, a digit is its value.             *)
(***************************************************************************)
EXTENDS Sequences, Numerals

CONSTANTS Limbs,   \* the words of an identifier: 8
          Digits,  \* the digits that a word is written with: 8
          Base     \* of the digits: 16

ASSUME PayloadAssumption == Limbs \in Nat \ {0} /\ Digits \in Nat \ {0} /\ Base \in Nat \ {0, 1}

Str(s) == [json |-> "string", text |-> s]
Num(n) == [json |-> "number", number |-> n]
Arr(s) == [json |-> "array", items |-> s]
Obj(f) == [json |-> "object", members |-> f]
Null   == [json |-> "null"]
Absent == [json |-> "absent"]

\* cJSON_GetObjectItem and cJSON_GetArrayItem, which return NULL for what is
\* not there.
Member(node, name) == IF node.json = "object" /\ name \in DOMAIN node.members
                      THEN node.members[name] ELSE Absent
Item(node, i) == IF node.json = "array" /\ i \in DOMAIN node.items
                 THEN node.items[i] ELSE Absent

-----------------------------------------------------------------------------
(* Identifiers                                                             *)
-----------------------------------------------------------------------------
WordSize == Power(Base, Digits)
WordOf(id, i) == DigitOf(id, WordSize, Limbs, i)

\* "%08X": all digits of the word, with its leading zeros.
Digit(w, j) == DigitOf(w, Base, Digits, j)

\* kad_id_serialize: "0x" and the words, the most significant first.
Prefix == <<0, Base>>
Serialize(id) ==
  Prefix \o [k \in 1..(Limbs * Digits) |->
               Digit(WordOf(id, ((k - 1) \div Digits) + 1), ((k - 1) % Digits) + 1)]

\* kad_id_deserialize skips two characters, whatever they are, and reads the
\* words from fixed places.  What follows them is not looked at.
Deserializes(text) == Len(text) >= Len(Prefix) + Limbs * Digits
Deserialize(text) ==
  LET word(i) == Number([j \in 1..Digits |-> text[Len(Prefix) + (i - 1) * Digits + j]],
                        Base, Digits)
  IN  Number([i \in 1..Limbs |-> word(i)], WordSize, Limbs)

-----------------------------------------------------------------------------
(* Writing                                                                 *)
-----------------------------------------------------------------------------
IdNode(id) == Str(Serialize(id))

RequestNode(method, params, rid) ==
  Obj([jsonrpc |-> Str("2.0"), method |-> Str(method), id |-> Num(rid), params |-> Arr(params)])

PingRequest(id, rid)            == RequestNode("ping", <<IdNode(id)>>, rid)
StoreRequest(id, key, val, rid) == RequestNode("store", <<IdNode(id), Str(key), Str(val)>>, rid)
FindNodeRequest(id, target, rid) ==
  RequestNode("find_node", <<IdNode(id), IdNode(target)>>, rid)
FindValueRequest(id, key, rid)  == RequestNode("find_value", <<IdNode(id), Str(key)>>, rid)

ResponseNode(result, rid) == Obj([jsonrpc |-> Str("2.0"), result |-> result, id |-> Num(rid)])

\* [id, host, port] of every contact.  An address stands for host and port.
ContactNodes(cs) == Arr([i \in DOMAIN cs |-> Arr(<<IdNode(cs[i].id), Str(<<>>), Num(cs[i].addr)>>)])

PingResponse(id, rid)      == ResponseNode(IdNode(id), rid)
StoreResponse(rid)         == ResponseNode(Null, rid)
FindNodeResponse(cs, rid)  == ResponseNode(ContactNodes(cs), rid)

\* Mutant of FindValueResponse: a missing value is left out.
FindValueResponseBare(value, cs, rid) ==
  ResponseNode(Obj(IF value = Null THEN [contacts |-> ContactNodes(cs)]
                   ELSE [value |-> value, contacts |-> ContactNodes(cs)]), rid)

\* The value is a string or, when it is NULL, null.
FindValueResponse(value, cs, rid) ==
  ResponseNode(Obj([value |-> value, contacts |-> ContactNodes(cs)]), rid)

-----------------------------------------------------------------------------
(* Reading                                                                 *)
-----------------------------------------------------------------------------
IsText(node) == node.json = "string"
IsId(node)   == IsText(node) /\ Deserializes(node.text)
IdAt(node)   == Deserialize(node.text)

\* kad_payload_request_id, kad_payload_is_request.
HasRequestId(m) == Member(m, "id").json = "number"
IsRequest(m)    == Member(m, "method") # Absent

Param(m, i) == Item(Member(m, "params"), i)

\* Mutant of ParsesRequest: the last parameter of each request is not checked.
ParsesRequestLoose(m) == /\ IsText(Member(m, "method"))
                         /\ Member(m, "params").json = "array"
                         /\ IsId(Param(m, 1))
                         /\ \/ Member(m, "method").text \in {"ping", "find_node", "find_value"}
                            \/ Member(m, "method").text = "store" /\ IsText(Param(m, 2))

\* kad_payload_parse_request: the request is accepted ...
ParsesRequest(m) ==
  /\ IsText(Member(m, "method"))
  /\ Member(m, "params").json = "array"
  /\ IsId(Param(m, 1))
  /\ \/ Member(m, "method").text = "ping"
     \/ Member(m, "method").text = "store" /\ IsText(Param(m, 2)) /\ IsText(Param(m, 3))
     \/ Member(m, "method").text = "find_node" /\ IsId(Param(m, 2))
     \/ Member(m, "method").text = "find_value" /\ IsText(Param(m, 2))

\* ... and what the caller finds in its kad_request_t.
ReadRequest(m) ==
  LET type == Member(m, "method").text
      id   == IdAt(Param(m, 1))
  IN  CASE type = "ping"       -> [type |-> type, id |-> id]
        [] type = "store"      -> [type |-> type, id |-> id,
                                   key |-> Param(m, 2).text, value |-> Param(m, 3).text]
        [] type = "find_node"  -> [type |-> type, id |-> id, target |-> IdAt(Param(m, 2))]
        [] type = "find_value" -> [type |-> type, id |-> id, key |-> Param(m, 2).text]

AreContacts(node) ==
  /\ node.json = "array"
  /\ \A i \in DOMAIN node.items : /\ IsId(Item(node.items[i], 1))
                                  /\ IsText(Item(node.items[i], 2))
                                  /\ Item(node.items[i], 3).json = "number"

ContactsAt(node) == [i \in DOMAIN node.items |-> [id |-> IdAt(Item(node.items[i], 1)),
                                                  addr |-> Item(node.items[i], 3).number]]

\* kad_payload_parse_result for a promise of the given type.
ParsesResult(m, type) ==
  LET result == Member(m, "result") IN
  \/ type = "ping" /\ IsId(result)
  \/ type = "store" /\ result # Absent
  \/ type = "find_node" /\ AreContacts(result)
  \/ type = "find_value" /\ /\ Member(result, "value").json \in {"null", "string"}
                            /\ AreContacts(Member(result, "contacts"))

ReadResult(m, type) ==
  LET result == Member(m, "result") IN
  CASE type = "ping"       -> [type |-> type, id |-> IdAt(result)]
    [] type = "store"      -> [type |-> type]
    [] type = "find_node"  -> [type |-> type, contacts |-> ContactsAt(result)]
    [] type = "find_value" -> [type |-> type, value |-> Member(result, "value"),
                               contacts |-> ContactsAt(Member(result, "contacts"))]
=============================================================================
