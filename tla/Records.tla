------------------------------ MODULE Records -------------------------------
(***************************************************************************)
(* Records, long strings and their upkeep in Db/dbdata.c and dbhash.c.     *)
(*                                                                         *)
(* A field holds nothing, a number, a record or a string.  A record keeps  *)
(* the list of its parents, one back link for every field that holds it; a *)
(* string is stored once, is found through a hash chain, counts the fields *)
(* and the strings that hold it, and is freed with the last of them.       *)
(*                                                                         *)
(* Records are compared by their contents to a depth, so a change in a     *)
(* record moves the rows of its ancestors in the indexes: they are taken   *)
(* out before the change and put back after it.  An index is a bag of rows *)
(* here, each with the key it was put in with; TTree models what is inside.*)
(***************************************************************************)
EXTENDS Integers, Sequences, FiniteSets, SequencesExt

CONSTANTS
  Ids,         \* offsets of records
  Columns,     \* 1..n, all records have the same length
  Indexed,     \* the columns with an index
  Texts,       \* contents of strings: text and type
  Extra,       \* Extra[s]: the text of the prefix or language of s, or NoText
  NoText,
  Hash,        \* Hash[s]: the bucket of wg_hash_typedstr
  Cells,       \* offsets of strings
  Depth,       \* WG_COMPARE_REC_DEPTH
  Stores,      \* Stores[r][c]: what the application may store, in terms of Term
  Careless     \* whether it may store links without care; a bound for TLC if FALSE

Null == <<"null">>
Num(i) == <<"int", i>>
Link(r) == <<"rec", r>>
Str(o) == <<"str", o>>
Text(s) == <<"text", s>>
Holds(v, kind) == v[1] = kind

\* Records and strings are finitely many, as the segment is.  A prefix or a language
\* has no extra part itself.
ASSUME RecordsAssumption ==
  /\ IsFiniteSet(Ids) /\ IsFiniteSet(Columns) /\ IsFiniteSet(Cells)
  /\ Columns = 1..Cardinality(Columns) /\ Indexed \subseteq Columns
  /\ Cells \subseteq Nat \ {0} /\ Depth \in Nat /\ Careless \in BOOLEAN
  /\ NoText \notin Texts /\ Extra \in [Texts -> Texts \cup {NoText}]
  /\ \A s \in Texts : Extra[s] # NoText => Extra[Extra[s]] = NoText
  /\ DOMAIN Hash = Texts
  /\ \A r \in Ids, c \in Columns : \A v \in Stores[r][c] :
       \/ v = Null
       \/ Holds(v, "int") /\ v = Num(v[2])
       \/ Holds(v, "rec") /\ v = Link(v[2]) /\ v[2] \in Ids
       \/ Holds(v, "text") /\ v = Text(v[2]) /\ v[2] \in Texts

VARIABLES
  rec,         \* the records: a sequence of fields, or <<>> where there is none
  links,       \* links[r]: the parents in the order of the back link list
  fresh,       \* fresh[r]: the fields of a raw record that are still to be set
  ix,          \* ix[c][r]: the keys of the entries of r in the index on c
  str,         \* the strings: [text, extra, count, next]
  bucket,      \* strhash: the first string of each chain, or 0
  loose,       \* history: strings that the application encoded and has not stored yet
  failed,      \* history: a call returned an error
  misused      \* history: a link was stored without care, see CarefulLink

vars == <<rec, links, fresh, ix, str, bucket, loose, failed, misused>>

\* A state is handed from step to step of an operation as one record.
Now == [rec |-> rec, links |-> links, fresh |-> fresh, ix |-> ix,
        str |-> str, bucket |-> bucket, loose |-> loose, err |-> FALSE]

Become(x) ==
  /\ rec' = x.rec /\ links' = x.links /\ fresh' = x.fresh /\ ix' = x.ix
  /\ str' = x.str /\ bucket' = x.bucket /\ loose' = x.loose
  /\ failed' = (failed \/ x.err)

Exists(r) == rec[r] # <<>>

-----------------------------------------------------------------------------
\* Keys: wg_compare looks into records, to a depth, and at the texts of strings.

KeyOf(x, v) ==
  LET Values == UNION {Range(x.rec[r]) : r \in Ids}
      key[d \in 0..Depth] ==
        [w \in Values |->
          IF Holds(w, "str") THEN <<"str", x.str[w[2]].text>>
          ELSE IF Holds(w, "rec") /\ d > 0
               THEN <<"rec", [c \in Columns |-> key[d - 1][x.rec[w[2]][c]]]>>
               ELSE w]
  IN key[Depth][v]

-----------------------------------------------------------------------------
\* Index entries of one field.

\* wg_index_add_field.
AddField(x, r, c) ==
  IF c \in Indexed THEN [x EXCEPT !.ix[c][r] = Append(@, KeyOf(x, x.rec[r][c]))] ELSE x

\* wg_index_del_field, which looks for the row under the key it has now.  A row that
\* is not there gives -2, which is accepted, if no node bounds its value, and -3
\* otherwise: strict tells which.
DelField(x, r, c, strict) ==
  LET key == KeyOf(x, x.rec[r][c])
  IN IF c \notin Indexed \/ x.err THEN x
     ELSE IF key \notin Range(x.ix[c][r]) THEN [x EXCEPT !.err = strict]
     ELSE [x EXCEPT !.ix[c][r] = RemoveFirst(@, key)]

\* Mutant: the ancestors at the last depth are left out.
AboveShort(x, r) ==
  LET above[d \in 0..Depth] ==
        [q \in Ids |->
          IF d <= 1 THEN <<>>
          ELSE FlattenSeq([i \in DOMAIN x.links[q] |->
                 <<<<x.links[q][i], q>>>> \o above[d - 1][x.links[q][i]]])]
  IN above[Depth][r]

\* The parents and ancestors that remove_ and restore_backlink_index_entries go
\* through, each with the child it was reached from.
Above(x, r) ==
  LET above[d \in 0..Depth] ==
        [q \in Ids |->
          IF d = 0 THEN <<>>
          ELSE FlattenSeq([i \in DOMAIN x.links[q] |->
                 <<<<x.links[q][i], q>>>> \o above[d - 1][x.links[q][i]]])]
  IN above[Depth][r]

\* The fields of p that hold q.
FieldsWith(x, p, q) ==
  FlattenSeq([c \in Columns |-> IF x.rec[p][c] = Link(q) THEN <<<<p, c>>>> ELSE <<>>])

\* The fields of ancestors to take out and put back, in the order of the calls.
Affected(x, r) ==
  LET above == Above(x, r)
  IN FlattenSeq([i \in DOMAIN above |-> FieldsWith(x, above[i][1], above[i][2])])

DelFields(x, fields, strict) ==
  FoldLeft(LAMBDA y, e : DelField(y, e[1], e[2], strict), x, fields)
AddFields(x, fields) ==
  FoldLeft(LAMBDA y, e : AddField(y, e[1], e[2]), x, fields)

TakeOut(x, r, strict) == DelFields(x, Affected(x, r), strict)
PutBack(x, r) == AddFields(x, Affected(x, r))

\* All fields of a record.
Row(r) == [c \in Columns |-> <<r, c>>]

-----------------------------------------------------------------------------
\* Strings.

InUse(x) == {o \in Cells : x.str[o].text # NoText}
Free == [text |-> NoText, extra |-> 0, count |-> 0, next |-> 0]

\* The strings of a bucket, in the order of the chain.
Chain(x, h) ==
  LET walk[n \in 0..Cardinality(Cells)] ==
        [o \in Cells \cup {0} |-> IF n = 0 \/ o = 0 THEN <<>> ELSE <<o>> \o walk[n - 1][x.str[o].next]]
  IN walk[Cardinality(Cells)][x.bucket[h]]

\* wg_find_strhash_bucket; 0 if there is none.
Found(x, s) ==
  LET chain == Chain(x, Hash[s])
      i == SelectInSeq(chain, LAMBDA o : x.str[o].text = s)
  IN IF i = 0 THEN 0 ELSE chain[i]

\* find_create_longstr of a string without extra part.
Interned(x, s) ==
  LET new == CHOOSE o \in Cells \ InUse(x) : \A p \in Cells \ InUse(x) : o <= p
  IN IF Found(x, s) # 0 THEN x
     ELSE [x EXCEPT !.str[new] = [text |-> s, extra |-> 0, count |-> 0, next |-> x.bucket[Hash[s]]],
                    !.bucket[Hash[s]] = new, !.loose = @ \cup {new}]

\* A field or a string starts to hold o.
Hold(x, o) == [x EXCEPT !.str[o].count = @ + 1, !.loose = @ \ {o}]

\* find_create_longstr: the object is allocated first, then its extra part.  The head
\* of the chain was read before that: an extra part that is new and of the same bucket
\* is no longer in the chain.
Encoded(x, s) ==
  LET new == CHOOSE o \in Cells \ InUse(x) : \A p \in Cells \ InUse(x) : o <= p
      y == Interned([x EXCEPT !.str[new].text = s], Extra[s])
      extra == Found(y, Extra[s])
  IN IF Extra[s] = NoText \/ Found(x, s) # 0 THEN Interned(x, s)
     ELSE [Hold(y, extra) EXCEPT
             !.str[new] = [text |-> s, extra |-> extra, count |-> 0, next |-> x.bucket[Hash[s]]],
             !.bucket[Hash[s]] = new, !.loose = @ \cup {new}]

\* Mutant: a string that is not the first of its chain takes the rest of it along.
UnchainRest(x, o) ==
  LET h == Hash[x.str[o].text]
  IN IF x.bucket[h] = o THEN [x EXCEPT !.bucket[h] = x.str[o].next]
     ELSE [x EXCEPT !.str = [p \in Cells |->
             IF p \in Range(Chain(x, h)) /\ @[p].next = o THEN [@[p] EXCEPT !.next = 0] ELSE @[p]]]

\* wg_remove_from_strhash.
Unchain(x, o) ==
  LET h == Hash[x.str[o].text]
      next == x.str[o].next
  IN IF x.bucket[h] = o THEN [x EXCEPT !.bucket[h] = next]
     ELSE [x EXCEPT !.str = [p \in Cells |->
             IF p \in Range(Chain(x, h)) /\ @[p].next = o THEN [@[p] EXCEPT !.next = next] ELSE @[p]]]

\* free_field_encoffset of a string, without and with what it does to the extra part.
Drop(x, o) ==
  IF x.str[o].count > 1 THEN [x EXCEPT !.str[o].count = @ - 1]
  ELSE [Unchain(x, o) EXCEPT !.str[o] = Free, !.loose = @ \ {o}]

Release(x, o) ==
  LET extra == x.str[o].extra
      y == Drop(x, o)
  IN IF y.str[o].text = NoText /\ extra # 0 THEN Drop(y, extra) ELSE y

\* wg_encode_str and its like.
Encode(s) ==
  /\ Cardinality(Cells \ InUse(Now)) > 1
  /\ Become(Encoded(Now, s))

\* wg_free_encoded: the count is raised first, so a string in use stays.
FreeEncoded(o) ==
  /\ o \in InUse(Now)
  /\ Become(Release(Hold(Now, o), o))

-----------------------------------------------------------------------------
\* Back links.

WithLink(x, v, r) ==
  IF Holds(v, "rec") THEN [x EXCEPT !.links[v[2]] = Append(@, r)] ELSE x

\* Mutant: the record that a field held before keeps the back link.
KeepLink(x, v, r) == x

\* The first back link to r goes; that there is one is what LinksExact says.
WithoutLink(x, v, r) ==
  IF Holds(v, "rec") THEN [x EXCEPT !.links[v[2]] = RemoveFirst(@, r)] ELSE x

Referred(x, v) == IF Holds(v, "str") THEN Hold(x, v[2]) ELSE x
Unreferred(x, v) == IF Holds(v, "str") THEN Release(x, v[2]) ELSE x

-----------------------------------------------------------------------------
\* Operations.

\* The value that the application passes for Stores[r][c]: a string it has encoded,
\* a record that exists.
Term(v) == IF Holds(v, "text") THEN Str(Found(Now, v[2])) ELSE v
Ready(v) ==
  CASE Holds(v, "text") -> Found(Now, v[2]) # 0
    [] Holds(v, "rec") -> Exists(v[2])
    [] OTHER -> TRUE

\* r is q, or holds it directly or through other records: q is in every set that has r
\* and the records that its members hold.
Reaches(f, r, q) ==
  \A S \in SUBSET Ids :
    /\ r \in S
    /\ \A p \in S : \A c \in DOMAIN f[p] : Holds(f[p][c], "rec") => f[p][c][2] \in S
    => q \in S

\* A careful application links only to initialized records, and in such a way that no
\* record reaches another, or itself, in two ways: neither through two fields nor
\* through two records.  The code asks for none of this.
CarefulLink(r, c, v) ==
  Holds(v, "rec") =>
    /\ fresh[v[2]] = {}
    /\ LET others == [rec EXCEPT ![r][c] = Null]
           above == {p \in Ids : Reaches(others, p, r)}
           below == {q \in Ids : Reaches(others, v[2], q)}
       IN \A p \in above, q \in below : ~Reaches(others, p, q)

\* No record is stored in itself.
MayLink(r, c, v) ==
  /\ v # Link(r)
  /\ CarefulLink(r, c, v) \/ Careless
  /\ misused' = (misused \/ ~CarefulLink(r, c, v))

\* wg_create_raw_record and wg_create_record.
NewRecord(r) ==
  [Now EXCEPT !.rec[r] = [c \in Columns |-> Null], !.links[r] = <<>>, !.fresh[r] = {}]

CreateRaw(r) ==
  /\ ~Exists(r)
  /\ Become([NewRecord(r) EXCEPT !.fresh[r] = Columns])

Create(r) ==
  /\ ~Exists(r)
  /\ Become(AddFields(NewRecord(r), Row(r)))

\* wg_set_new_field, which has to be called for every field of a raw record.
SetNewField(r, c, v) ==
  LET x == AddField(Referred([Now EXCEPT !.rec[r][c] = v, !.fresh[r] = @ \ {c}], v), r, c)
  IN /\ Exists(r) /\ c \in fresh[r] /\ MayLink(r, c, v)
     /\ Become(PutBack(WithLink(x, v, r), r))

\* wg_set_field.
SetField(r, c, v, strict) ==
  LET old == rec[r][c]
      out == TakeOut(DelField(Now, r, c, strict), r, strict)
      x == Unreferred(Referred(WithoutLink(out, old, r), v), old)
      y == WithLink(AddField([x EXCEPT !.rec[r][c] = v], r, c), v, r)
  IN /\ Exists(r) /\ c \notin fresh[r] /\ v # old /\ MayLink(r, c, v)
     /\ Become(IF out.err THEN out ELSE PutBack(y, r))

\* The fields of r let go of the records and strings that they hold.
LetGo(x, r, values) == FoldLeft(LAMBDA y, v : Unreferred(WithoutLink(y, v, r), v), x, values)

\* wg_delete_record, which refuses a record with parents.
Delete(r, strict) ==
  LET out == DelFields(Now, Row(r), strict)
      x == LetGo(out, r, rec[r])
  IN /\ Exists(r) /\ fresh[r] = {} /\ links[r] = <<>>
     /\ Become(IF out.err THEN out ELSE [x EXCEPT !.rec[r] = <<>>])

Init ==
  /\ rec = [r \in Ids |-> <<>>] /\ links = [r \in Ids |-> <<>>] /\ fresh = [r \in Ids |-> {}]
  /\ ix = [c \in Columns |-> [r \in Ids |-> <<>>]]
  /\ str = [o \in Cells |-> Free] /\ bucket = [h \in Range(Hash) |-> 0]
  /\ loose = {} /\ failed = FALSE /\ misused = FALSE

Next ==
  \/ /\ \/ \E s \in Texts : Encode(s)
        \/ \E o \in Cells : FreeEncoded(o)
        \/ \E r \in Ids : CreateRaw(r) \/ Create(r)
        \/ \E r \in Ids, strict \in BOOLEAN : Delete(r, strict)
     /\ UNCHANGED misused
  \/ \E r \in Ids, c \in Columns : \E v \in Stores[r][c] :
       Ready(v) /\ (SetNewField(r, c, Term(v)) \/ \E strict \in BOOLEAN : SetField(r, c, Term(v), strict))

Spec == Init /\ [][Next]_vars

-----------------------------------------------------------------------------
\* Properties.

Fields == {e \in Ids \X Columns : Exists(e[1])}
Holders(v) == Cardinality({e \in Fields : rec[e[1]][e[2]] = v})

\* Whatever fields were changed and records deleted: every record knows each field
\* that holds it, once, and nothing else; a record that is held is not deleted.
LinksExact ==
  \A q \in Ids :
    /\ Holders(Link(q)) > 0 => Exists(q)
    /\ \A p \in Ids :
         Cardinality({i \in DOMAIN links[q] : links[q][i] = p})
           = Cardinality({c \in DOMAIN rec[p] : rec[p][c] = Link(q)})

\* A string counts the fields and the strings that hold it, is freed with the last of
\* them, not earlier and not later, and until then is found in the chain of its bucket,
\* where its text is no second time.  Only an extra part may be lost from the chain, to
\* the string of the same bucket that it was created for, and serves that one alone.
StringsExact ==
  LET Used == InUse(Now)
      Listed == UNION {Range(Chain(Now, h)) : h \in DOMAIN bucket}
  IN
  /\ \A e \in Fields : Holds(rec[e[1]][e[2]], "str") => rec[e[1]][e[2]][2] \in Listed
  /\ \A o \in Used :
       /\ str[o].count = Holders(Str(o)) + Cardinality({p \in Used : str[p].extra = o})
       /\ str[o].count = 0 => o \in loose
       /\ str[o].extra # 0 => str[o].extra \in Used
       /\ o \notin Listed =>
            /\ str[o].count = 1
            /\ \E p \in Listed : str[p].extra = o /\ Hash[str[p].text] = Hash[str[o].text]
  /\ \A o, p \in Listed : str[o].text = str[p].text => o = p
  /\ \A h \in DOMAIN bucket :
       LET chain == Chain(Now, h)
       IN /\ \A o \in Range(chain) : o \in Used /\ Hash[str[o].text] = h
          /\ Len(chain) = Cardinality(Range(chain))

\* Every record is in the index of a column exactly once, under the key that its
\* field has now, although the key depends on records below it: changing one of them
\* has moved the entry.  Without errors, and until a link is stored without care.
IndexExact ==
  ~failed /\ ~misused =>
    \A c \in Indexed, r \in Ids :
      ix[c][r] = IF Exists(r) /\ c \notin fresh[r] THEN <<KeyOf(Now, rec[r][c])>> ELSE <<>>
=============================================================================
