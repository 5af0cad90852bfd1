------------------------------ MODULE Request ------------------------------
(***************************************************************************)
(* The life of a request between two modules of wicom: one builds it in    *)
(* binary form (src/req.c, req_add_nvp_z) and converts it to text; the     *)
(* text travels, or is typed by somebody who comes close to it; the other  *)
(* validates it and converts it back.                                      *)
(*                                                                         *)
(* Memory is never short here, and a list keeps the order of insertion.    *)
(***************************************************************************)
EXTENDS ReqText

CONSTANTS
  Ids, Modules, Codes, Names, Values,   \* what requests are made of
  MaxPairs,      \* bound: pairs of a request that has a list from the start
  MaxChanges,    \* bound: characters of a text that are not what was sent
  NewChars,      \* bound: what they are replaced with
  Slack          \* bytes of struct _request_t behind data.text.raw: about 208 in a
                 \* build, few enough here that a text overruns them

ASSUME RequestAssumption ==
  /\ Ids \subseteq 0..MaxReqId
  /\ Modules \subseteq Seq(ModChar) /\ Codes \subseteq Seq(CodeChar)
  /\ \A m \in Modules : Len(m) <= ReqModSize
  /\ \A c \in Codes : Len(c) <= ReqCodeSize
  /\ Names \subseteq Seq(NameChar) \ {<<>>} /\ Values \subseteq Seq(Char)
  /\ NewChars \subseteq Char
  /\ {MaxPairs, MaxChanges, Slack} \subseteq Nat

VARIABLES
  req,       \* the request in binary form
  has_nvl,   \* does it have a list of pairs?
  wire,      \* the text
  changes,   \* how many of its characters were changed
  copy,      \* what became of it: the outcome of the conversion to binary
  status,    \* of the last call
  pc

vars == <<req, has_nvl, wire, changes, copy, status, pc>>

Nvp  == [name : Names, value : Values]   \* <<>>: there is no value

Requests ==
  [id : Ids, type : {"REQUEST", "REPLY"}, src : Modules, dst : Modules,
   code : Codes, nvl : UNION { [1..n -> Nvp] : n \in 0..MaxPairs }]

\* The list is missing in a request that was filled in by hand, and is there,
\* perhaps empty, in one that was converted from text.
Init == /\ req \in Requests
        /\ has_nvl \in BOOLEAN
        /\ req.nvl # <<>> => has_nvl
        /\ wire = <<>>
        /\ changes = 0
        /\ copy = Fails
        /\ status = "none"
        /\ pc = "building"

\* The new pair goes to the list that this very call has created: a second
\* pair finds none.
req_add_nvp_z(p) ==
  /\ pc = "building"
  /\ \/ /\ ~has_nvl
        /\ req' = [req EXCEPT !.nvl = <<p>>]
        /\ has_nvl' = TRUE
        /\ status' = "success"
     \/ /\ has_nvl
        /\ status' = "failure"
        /\ UNCHANGED <<req, has_nvl>>
  /\ UNCHANGED <<wire, changes, copy, pc>>

\* Is the text, with its end character, longer than what was allocated for it?
Overruns(r) == Len(Written(r)) + 1 > ReqSize(r) + Slack

\* What lies behind the allocation is overwritten, with or without consequences.
req_to_text ==
  /\ pc = "building" /\ has_nvl
  /\ wire' = req_from_bin_to_text(req)
  /\ pc' \in {"sent"} \cup (IF Overruns(req) THEN {"crashed"} ELSE {})
  /\ status' = "success"
  /\ UNCHANGED <<req, has_nvl, changes, copy>>

\* Without a list the call fails, and frees a pointer it has not set.
ToTextFails ==
  /\ pc = "building" /\ ~has_nvl
  /\ pc' \in {"building", "crashed"}
  /\ status' = "failure"
  /\ UNCHANGED <<req, has_nvl, wire, changes, copy>>

\* The text with a character replaced, removed or added at i.
Changed(t, i) ==
  { ReplaceAt(t, i, c) : c \in NewChars } \cup { RemoveAt(t, i) }
  \cup { InsertAt(t, i, c) : c \in NewChars }

Change ==
  /\ pc = "sent" /\ changes < MaxChanges
  /\ \E i \in DOMAIN wire : wire' \in Changed(wire, i)
  /\ changes' = changes + 1
  /\ UNCHANGED <<req, has_nvl, copy, status, pc>>

req_to_bin ==
  /\ pc = "sent"
  /\ copy' \in req_from_text_to_bin(wire)
  /\ status' = (IF copy'.fails THEN "failure" ELSE "success")
  /\ pc' = "converted"
  /\ UNCHANGED <<req, has_nvl, wire, changes>>

Next == \/ \E p \in Nvp : req_add_nvp_z(p)
        \/ req_to_text \/ ToTextFails \/ Change \/ req_to_bin

Spec == Init /\ [][Next]_vars
-----------------------------------------------------------------------------
(***************************************************************************)
(* Properties.                                                             *)
(***************************************************************************)
TypeOK ==
  /\ req.nvl \in UNION { [1..n -> Nvp] : n \in 0 .. Max({MaxPairs, 1}) }
  /\ [req EXCEPT !.nvl = <<>>] \in Requests
  /\ has_nvl \in BOOLEAN
  /\ req.nvl # <<>> => has_nvl
  /\ Range(wire) \subseteq Char
  /\ changes \in 0..MaxChanges
  /\ \/ copy \in {Fails, Corrupt}
     \/ copy.is.id \in 0..MaxReqId /\ copy.is.code \in Seq(CodeChar)
  /\ status \in {"none", "success", "failure"}
  /\ pc \in {"building", "crashed", "sent", "converted"}

Valueless(r) == \E i \in DOMAIN r.nvl : r.nvl[i].value = <<>>

Arrived == pc = "converted" /\ changes = 0

\* A request that is converted to text and back is the same, whichever way its
\* values have to be written.  It may only be refused for a pair without a
\* value, or be lost for a code of the largest size.  (Of requests, not replies.)
RoundTrip ==
  Arrived /\ req.type = "REQUEST" =>
    /\ IsIn(copy) => copy.is = req
    /\ copy = Fails => Valueless(req)
    /\ copy = Corrupt => Len(req.code) = ReqCodeSize

Encoded(nvl) == { i \in DOMAIN nvl : nvp_value_format(nvl[i].value) = "encoded" }

\* The text of a request is written behind the memory that was allocated for it
\* (the space that is cut in the end included) exactly when more of its values
\* have to be encoded than there are bytes of slack: each takes a byte that
\* req.c:1426 does not count, and nothing else is counted wrong or makes up for
\* it, a value without quotes, in quotes, missing, or a reply.
OverrunIsEncoded ==
  has_nvl => (Overruns(req) <=> Cardinality(Encoded(req.nvl)) > Slack)

Replies(t)    == At(t, RunEnd(t, 1, RidChar)) \in ReplyChar
EmptyValue(t) == \E i \in DOMAIN t : t[i] = "=" /\ At(t, i + 1) = "space"

OddDigits(t) ==
  \E i \in DOMAIN t : t[i] = "#" /\ (RunEnd(t, i + 1, EValueChar) - i) % 2 = 0

\* A word of the header is too long.
LongWord(t) ==
  \E i \in DOMAIN t : /\ \A k \in 1..i : t[k] # "="
                      /\ RunEnd(t, i, CodeChar) - i > Min({ReqModSize, ReqCodeSize})

\* What req_validate accepts can be converted, except for: a text without an
\* id, an empty value, an encoded value with half a byte, a word that is too
\* long.  Only a pair without a value and a code of the largest size can
\* still be in the way.  (Of requests, not replies.)
ValidatedConverts ==
  /\ pc = "converted" /\ ~Replies(wire)
  /\ req_validate(wire) = "REQUEST_IS_VALID"
  /\ At(wire, 1) \in RidChar
  /\ ~EmptyValue(wire) /\ ~OddDigits(wire) /\ ~LongWord(wire)
  => \/ IsIn(copy)
     \/ copy = Fails /\ \E o \in req_from_text_to_bin(wire) :
                          IsIn(o) /\ Valueless(o.is)
     \/ copy = Corrupt /\ Len(req_text_code(wire).is) = ReqCodeSize

\* An encoded value that does not end the text, or has other characters.
EncodedGoesOn(t) ==
  \E i \in DOMAIN t : t[i] = "#" /\ At(t, RunEnd(t, i + 1, EValueChar)) # End

\* What can be converted is accepted by req_validate, except for an encoded
\* value that is not the last one and an empty code.  (Of requests.)
ConvertedValidates ==
  /\ pc = "converted" /\ ~Replies(wire)
  /\ IsIn(copy)
  /\ ~EncodedGoesOn(wire) /\ copy.is.code # <<>>
  => req_validate(wire) = "REQUEST_IS_VALID"

\* A pair that is found in a text by its name is the one that is found in the
\* request converted from it.
LookupAgrees ==
  pc = "converted" /\ IsIn(copy) =>
    \A name \in Names : \A o \in req_text_get_nv(wire, name) :
      /\ IsIn(o) => o = req_bin_get_nv(copy.is, name)
      /\ o = Fails => \/ req_bin_get_nv(copy.is, name) = Fails
                      \/ req_bin_get_nv(copy.is, name).is.value = <<>>

\* A value at which the loop of _req_text_nv_validate stays for ever.
Stalls(v) == v # <<>> /\ (nvp_value_format(v) # "quoted" \/ v[1] # "space")

\* For which texts req_get_nv_info returns: it hangs exactly when a pair up to
\* the first one of that name has a value, for the loop over a value does not
\* move on (req.c:3131); only a value in quotes that begins with a space gets by.
\* (Of requests, as they were written.)
InfoReturns ==
  pc = "sent" /\ changes = 0 /\ req.type = "REQUEST" =>
    \A name \in Names :
      Hangs \in req_text_get_nv_info(wire, name) <=>
        \E i \in DOMAIN req.nvl : /\ Stalls(req.nvl[i].value)
                                  /\ \A j \in 1 .. i - 1 : req.nvl[j].name # name

\* When req_get_nv_info answers for a text, a client that tests its flags bit by
\* bit is told what the converted request says: that there is a pair of that
\* name, with its value, or that there is none.  For a value that is not empty
\* the converted request also gives the same flags, if that call survives.
InfoIsTrue ==
  pc = "converted" /\ IsIn(copy) =>
    \A name \in Names : \A o \in req_text_get_nv_info(wire, name) :
      LET nv    == req_bin_get_nv(copy.is, name)
          found == nvp_flag_test(o.is.flags, LFlag.FOUND)
      IN IsIn(o) =>
           /\ found <=> ~nv.fails
           /\ found => nv.is.value = o.is.value
           /\ found /\ o.is.value # <<>> =>
                \A b \in req_bin_get_nv_info(copy.is, name) :
                  IsIn(b) => b.is.flags = o.is.flags /\ b.is.value = o.is.value
-----------------------------------------------------------------------------
(***************************************************************************)
(* What comments say and the code does not do.                             *)
(***************************************************************************)

\* "<req-id><type> <mod_source> <mod_dest> <req-code-id>..." and "The <type> is
\* 'R' or 'r' for reply" (req.c:346-348).  The separator after the type of a
\* reply is taken for its source, and each word for the one after it.
RepliesSurvive ==
  Arrived /\ req.type = "REPLY" /\ ~Valueless(req) /\ Len(req.code) < ReqCodeSize =>
    copy = Is(req)
=============================================================================
