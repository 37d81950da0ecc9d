------------------------------ MODULE WireCodec ------------------------------
(***************************************************************************)
(* The format of what this server and the router send each other: string   *)
(* parameters separated by DEFAULT_DELIM, and perhaps a payload. The loop  *)
(* of byte_to_params_and_payload, one step for each byte, is compared with *)
(* a definition of what the format means, and package_op with its inverse. *)
(* (Packages socket and messages hold the same code.)                      *)
(***************************************************************************)
EXTENDS Naturals, Sequences, FiniteSets, SequencesExt

CONSTANTS
  Bytes,     \* bytes other than the delimiter
  Delim,     \* DEFAULT_DELIM
  None,      \* nil
  MaxLen,    \* bound: length of an input
  MaxParams, \* bound: number of parameters
  MaxField   \* bound: length of a parameter or payload that is packaged

ASSUME CodecAssumption ==
  /\ Delim \notin Bytes
  /\ {MaxLen, MaxParams, MaxField} \subseteq Nat

VARIABLES
  made,     \* the parameters and payload that b was packaged from, if it was
  b,        \* the input
  nParam,   \* n_param
  exists,   \* payload_exists
  i,        \* next index of the loop; indexes start at 1 here
  n,        \* parameters found; those joined, while b is packaged
  last,     \* last_delim_i: where the current parameter starts
  param, payload, \* the results
  err       \* "packaging", "running", "nil" or what the error says

decodeVars == <<made, b, nParam, exists, i, n, last, param, payload, err>>

Alphabet == Bytes \cup {Delim}
Text(S, k) == BoundedSeq(S, k)

(* An input is packaged by the other side, from parameters without         *)
(* delimiters (<<>> stands for nil) and any payload, or anything at all.   *)
DecodeInit ==
  /\ \/ \E ps \in Text(Text(Bytes, MaxField), MaxParams), load \in Text(Alphabet, MaxField) \cup {None} :
          /\ made = [ps |-> ps, load |-> load]
          /\ nParam = Len(ps)
          /\ exists = (load # None)
          /\ b = <<>> /\ err = "packaging"
     \/ /\ made = None
        /\ nParam \in 0 .. MaxParams
        /\ exists \in BOOLEAN
        /\ b \in Text(Alphabet, MaxLen) /\ err = "running"
  /\ i = 1 /\ n = 0 /\ last = 1
  /\ param = [k \in 1 .. nParam |-> <<>>]
  /\ payload = None

-----------------------------------------------------------------------------
(* package_op without its header of op and size. strings.Join appends one  *)
(* parameter after the other, ...                                          *)
JoinParam ==
  /\ err = "packaging" /\ n < nParam
  /\ n' = n + 1
  /\ b' = (IF n = 0 THEN b ELSE Append(b, Delim)) \o made.ps[n + 1]
  /\ UNCHANGED <<made, nParam, exists, i, last, param, payload, err>>

(* ... and the payload comes last. Decoding starts with nothing found.     *)
AddPayload ==
  /\ err = "packaging" /\ n = nParam
  /\ b' = IF made.load = None THEN b
          ELSE (IF nParam > 0 THEN Append(b, Delim) ELSE b) \o made.load
  /\ n' = 0 /\ err' = "running"
  /\ UNCHANGED <<made, nParam, exists, i, last, param, payload>>

-----------------------------------------------------------------------------
Result(p, load, e) == param' = p /\ payload' = load /\ err' = e
Steady == UNCHANGED <<made, b, nParam, exists>>

(* No parameter is expected.                                               *)
NoParams ==
  /\ err = "running" /\ nParam = 0
  /\ Result(param, IF exists THEN b ELSE None,
            IF exists \/ b \in {<<>>, <<Delim>>} THEN "nil" ELSE "unexpected_payload")
  /\ Steady /\ UNCHANGED <<i, n, last>>

Looping == err = "running" /\ nParam > 0 /\ i <= Len(b)

(* The last parameter, when no payload follows, is all that is left.       *)
TakesRest == n = nParam - 1 /\ ~exists

LastParam ==
  /\ Looping /\ TakesRest
  /\ Result([param EXCEPT ![n + 1] = SubSeq(b, last, Len(b))], payload, "nil")
  /\ Steady /\ UNCHANGED <<i, n, last>>

(* Fault: the delimiter is left at the start of what follows.              *)
AfterDelimItself == i

AfterDelim == i + 1

(* A delimiter ends a parameter; after the last one comes the payload.     *)
AtDelim ==
  /\ Looping /\ ~TakesRest /\ b[i] = Delim
  /\ n' = n + 1 /\ last' = AfterDelim /\ i' = i + 1
  /\ LET p == [param EXCEPT ![n + 1] = SubSeq(b, last, i - 1)] IN
     IF n + 1 = nParam
     THEN Result(p, SubSeq(b, last', Len(b)), "nil")
     ELSE Result(p, payload, err)
  /\ Steady

OtherByte ==
  /\ Looping /\ ~TakesRest /\ b[i] # Delim
  /\ i' = i + 1
  /\ Steady /\ UNCHANGED <<n, last, param, payload, err>>

InputEnds ==
  /\ err = "running" /\ nParam > 0 /\ i > Len(b)
  /\ Result(param, payload, "expected_more")
  /\ Steady /\ UNCHANGED <<i, n, last>>

DecodeNext ==
  JoinParam \/ AddPayload \/ NoParams \/ LastParam \/ AtDelim \/ OtherByte \/ InputEnds

DecodeSpec == DecodeInit /\ [][DecodeNext]_decodeVars

-----------------------------------------------------------------------------
(* What an input means: its parts between delimiters. Cut(s, k) is where   *)
(* the k-th delimiter of s stands.                                         *)
DelimsIn(s, j) == {k \in 1 .. j : s[k] = Delim}
Delims(s, j) == Cardinality(DelimsIn(s, j))
IsCut(s, k, j) == j \in DelimsIn(s, Len(s)) /\ Delims(s, j) = k
Cut(s, k) == IF k = 0 THEN 0 ELSE CHOOSE j \in 1 .. Len(s) : IsCut(s, k, j)
Part(s, k) == SubSeq(s, Cut(s, k - 1) + 1, Cut(s, k) - 1)
From(s, k) == SubSeq(s, Cut(s, k) + 1, Len(s))

Complete ==
  IF nParam = 0 THEN exists \/ b \in {<<>>, <<Delim>>}
  ELSE IF exists THEN Delims(b, Len(b)) >= nParam
  ELSE Delims(b, Len(b)) >= nParam - 1 /\ From(b, nParam - 1) # <<>>

Meaning ==
  /\ Len(param) = nParam
  /\ \A k \in 1 .. nParam :
       param[k] = IF k = nParam /\ ~exists THEN From(b, k - 1) ELSE Part(b, k)
  /\ exists => payload = From(b, nParam)

DecodesMeaning ==
  /\ (err = "nil") <=> Complete
  /\ err = "nil" => Meaning

RoundTrip ==
  \/ err = "nil" /\ param = made.ps /\ payload = made.load
  \/ /\ err = "expected_more"
     /\ made.load = None /\ Last(made.ps) = <<>>

(* byte_to_params_and_payload accepts exactly the inputs with enough       *)
(* parameters, and cuts them at the right places; what it takes for a      *)
(* missing parameter is also an empty last one. So what package_op makes   *)
(* of parameters without delimiters is taken apart into the same, but for  *)
(* an empty last parameter without a payload.                              *)
CodecCorrect ==
  err \notin {"packaging", "running"} => DecodesMeaning /\ (made # None => RoundTrip)
==============================================================================
