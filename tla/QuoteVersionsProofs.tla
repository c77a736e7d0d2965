------------------------- MODULE QuoteVersionsProofs --------------------------
(***************************************************************************)
(* Proofs about QuoteVersions for every set of opportunities, requests,    *)
(* drafts and quantities.                                                  *)
(***************************************************************************)
EXTENDS QuoteVersions, SequenceTheorems, TLAPS

\* What the constants give: None and Any are none of the requests, nor each other.
LEMMA MarkersAreNothing == None \notin Calls /\ None \notin Opps /\ Any \notin Calls /\ Any # None
BY QuoteConstants

LEMMA InvInit == Init => QuoteInv
<1> SUFFICES ASSUME Init PROVE QuoteInv
  OBVIOUS
<1> USE MarkersAreNothing
<1>1. TypeOK
  BY DEF Init, TypeOK, NoVersion, Pointer, NoPointer, Steps, Request, NoRequest, Reading, Basis
<1>2. RequestsAreSound /\ QuotesAreOfCalls /\ VersionsAreSound
  BY DEF Init, RequestsAreSound, RequestIsSound, IsQuote, NoRequest, QuotesAreOfCalls,
         VersionsAreSound, VersionIsSound
<1>3. LockIsExclusive /\ AllReadsStand /\ HoldersAreSound
  BY DEF Init, LockIsExclusive, AllReadsStand, ReadsStand, HoldersAreSound, Inside, IsQuote,
         NoRequest, Holds
<1>4. OneLine /\ InOneArtifact
  BY DEF Init, OneLine, InOneArtifact
<1>5. TrailTellsRows
  BY DEF Init, TrailTellsRows, RowsOf
<1> QED
  BY <1>1, <1>2, <1>3, <1>4, <1>5 DEF QuoteInv

LEMMA QuotesAreRows ==
    ASSUME TypeOK, NEW o \in Opps, NEW i \in DOMAIN quotes[o]
    PROVE  quotes[o][i] \in Quote /\ quotes[o][i].id \in Calls
<1>1. PICK q \in Seq(Quote) : q = quotes[o]
  BY DEF TypeOK
<1>2. q[i] \in Quote
  BY <1>1
<1>3. PICK r \in Quote : r = q[i]
  BY <1>2
<1> QED
  BY <1>1, <1>3 DEF Quote

-----------------------------------------------------------------------------
(* What a read of the latest quote returns *)

\* In a line without gaps the row with the highest version is the last one.
LEMMA LatestIsLast ==
    ASSUME TypeOK, OneLine, NEW o \in Opps
    PROVE  LatestId(o) = LastId(o) /\ LatestVersion(o) = Len(quotes[o])
<1>1. quotes[o] \in Seq(Quote) /\ \A i \in DOMAIN quotes[o] : quotes[o][i].version = i
  BY DEF TypeOK, OneLine
<1>2. CASE quotes[o] = <<>>
  BY <1>2 DEF LatestId, LastId, LatestVersion, RowsOf
<1>3. CASE quotes[o] # <<>>
  <2> DEFINE n == Len(quotes[o])
  <2>1. n \in DOMAIN quotes[o] /\ quotes[o][n] \in RowsOf(o)
    BY <1>1, <1>3 DEF RowsOf
  <2>2. \A s \in RowsOf(o) : s.version <= quotes[o][n].version
    BY <1>1, <1>3, <2>1 DEF RowsOf
  <2>3. Latest(o) \in RowsOf(o) /\ \A s \in RowsOf(o) : s.version <= Latest(o).version
    BY <2>1, <2>2 DEF Latest
  <2>4. PICK i \in DOMAIN quotes[o] : Latest(o) = quotes[o][i]
    BY <2>3 DEF RowsOf
  <2>5. i = n
    BY <1>1, <2>1, <2>3, <2>4
  <2> QED
    BY <1>1, <1>3, <2>1, <2>4, <2>5 DEF LatestId, LastId, LatestVersion
<1> QED
  BY <1>2, <1>3

\* The last quote of an opportunity is a row of a request that has ended, and has its version.
LEMMA LastIsCommitted ==
    ASSUME QuoteInv, NEW o \in Opps
    PROVE  /\ LastId(o) \in Calls \cup {None}
           /\ LastId(o) = None <=> quotes[o] = <<>>
           /\ LastId(o) # None => /\ versions[LastId(o)] \in Version
                                  /\ step[LastId(o)] = "done"
<1>1. quotes[o] \in Seq(Quote)
  BY DEF QuoteInv, TypeOK
<1>2. CASE quotes[o] = <<>>
  BY <1>2 DEF LastId
<1>3. CASE quotes[o] # <<>>
  <2>1. PICK n : n = Len(quotes[o])
    OBVIOUS
  <2>2. n \in DOMAIN quotes[o] /\ LastId(o) = quotes[o][n].id /\ quotes[o][n] \in Quote
    BY <1>1, <1>3, <2>1 DEF LastId
  <2>3. PICK d : d = LastId(o)
    OBVIOUS
  <2>4. d \in Calls /\ versions[d] # NoVersion /\ step[d] = "done"
    BY <2>2, <2>3 DEF QuoteInv, QuotesAreOfCalls, Quote
  <2>5. versions[d] \in Version
    BY <2>4 DEF QuoteInv, TypeOK
  <2> QED
    BY <1>3, <2>3, <2>4, <2>5, MarkersAreNothing
<1> QED
  BY <1>2, <1>3

-----------------------------------------------------------------------------
(* Steps that write no row *)

\* Rows that stay as they are keep what is said of rows only.
LEMMA RowsStay ==
    ASSUME UNCHANGED rows, OneLine, InOneArtifact, TrailTellsRows
    PROVE  OneLine' /\ InOneArtifact' /\ TrailTellsRows'
<1>1. UNCHANGED <<quotes, versions, pointer, trail>>
  BY DEF rows
<1> QED
  BY <1>1 DEF OneLine, InOneArtifact, TrailTellsRows, RowsOf, Told, NoVersion

\* A step of one request that writes no row keeps the invariant if what is said of the request
\* holds of its new state, and nobody has what it takes.
LEMMA CallMoves ==
    ASSUME QuoteInv, NEW c \in Calls, step[c] \notin Ended,
           NEW s \in Steps, NEW k \in Request, NEW l \in Reading, NEW b \in Basis,
           step' = [step EXCEPT ![c] = s], ask' = [ask EXCEPT ![c] = k],
           seen' = [seen EXCEPT ![c] = l], base' = [base EXCEPT ![c] = b],
           passing' = passing, UNCHANGED rows,
           s # "new", k.kind # "none", k.content \in Calls \cup Drafts,
           s \in {"asked", "locked", "passed", "current"} => k.kind = "quote",
           k.kind = "quote" => k.opp \in Opps,
           k.kind = "quote" /\ s \notin {"asked"} \cup Ended =>
               \A d \in Calls \ {c} : ~(Inside(d) /\ ask[d].opp = k.opp),
           ReadsStand(c)',
           s \in {"based", "checked", "inserted", "appended"} => b.artifact \in Calls,
           s \in {"inserted", "appended"} =>
               /\ pointer[b.artifact].version = b.version
               /\ pointer[b.artifact].revision = b.revision
               /\ \A d \in Calls \ {c} : Holds(d) => base[d].artifact # b.artifact
    PROVE  QuoteInv'
<1>1. /\ UNCHANGED <<quotes, versions, pointer, trail>>
      /\ step'[c] = s /\ ask'[c] = k /\ seen'[c] = l /\ base'[c] = b
      /\ \A d \in Calls \ {c} : /\ step'[d] = step[d] /\ ask'[d] = ask[d]
                                /\ seen'[d] = seen[d] /\ base'[d] = base[d]
  BY DEF rows, QuoteInv, TypeOK
<1>2. TypeOK'
  BY <1>1 DEF QuoteInv, TypeOK
<1>3. RequestsAreSound'
  <2> SUFFICES ASSUME NEW d \in Calls PROVE RequestIsSound(d)'
    BY DEF RequestsAreSound
  <2> QED
    BY <1>1 DEF QuoteInv, RequestsAreSound, RequestIsSound, IsQuote
<1>4. QuotesAreOfCalls'
  <2>1. \A o \in Opps : \A i \in DOMAIN quotes[o] : quotes[o][i].id \in Calls
    BY QuotesAreRows DEF QuoteInv
  <2> QED
    BY <1>1, <2>1 DEF QuoteInv, QuotesAreOfCalls, IsQuote, Ended, NoVersion
<1>5. VersionsAreSound'
  BY <1>1 DEF QuoteInv, VersionsAreSound, VersionIsSound, Ended, NoVersion
<1>6. LockIsExclusive'
  <2> SUFFICES ASSUME NEW d \in Calls, NEW e \in Calls, Inside(d)', Inside(e)',
                      ask'[d].opp = ask'[e].opp, d # e
               PROVE  FALSE
    BY DEF LockIsExclusive
  <2>1. CASE d # c /\ e # c
    BY <1>1, <2>1 DEF QuoteInv, LockIsExclusive, Inside, IsQuote
  <2>2. CASE d = c
    BY <1>1, <2>2 DEF Inside, IsQuote
  <2>3. CASE e = c
    BY <1>1, <2>3 DEF Inside, IsQuote
  <2> QED
    BY <2>1, <2>2, <2>3
<1>7. AllReadsStand'
  <2> SUFFICES ASSUME NEW d \in Calls, d # c PROVE ReadsStand(d)'
    BY DEF AllReadsStand
  <2>1. /\ ask'[d] = ask[d] /\ seen'[d] = seen[d] /\ base'[d] = base[d] /\ step'[d] = step[d]
        /\ quotes' = quotes /\ versions' = versions
    BY <1>1
  <2>2. Inside(d)' = Inside(d)
    BY <2>1 DEF Inside, IsQuote
  <2>3. ArtifactFor(d)' = ArtifactFor(d)
    BY <2>1 DEF ArtifactFor
  <2>4. ReadsStand(d)
    BY DEF QuoteInv, AllReadsStand
  <2> QED
    BY <2>1, <2>2, <2>3, <2>4 DEF ReadsStand, LastId
<1>8. HoldersAreSound'
  <2>1. \A d \in Calls \ {c} : (Holds(d))' <=> Holds(d)
    BY <1>1 DEF Holds
  <2>2. (Holds(c))' <=> s \in {"inserted", "appended"}
    BY <1>1 DEF Holds
  <2>3. ASSUME NEW d \in Calls, step'[d] \in {"based", "checked", "inserted", "appended"}
        PROVE  base'[d].artifact \in Calls
    BY <1>1, <2>3 DEF QuoteInv, HoldersAreSound
  <2>4. ASSUME NEW d \in Calls, (Holds(d))' PROVE PointerIsExpected(d)'
    BY <1>1, <2>1, <2>2, <2>4 DEF QuoteInv, HoldersAreSound, PointerIsExpected
  <2>5. ASSUME NEW d \in Calls, NEW e \in Calls, (Holds(d))', (Holds(e))',
               base'[d].artifact = base'[e].artifact
        PROVE  d = e
    BY <1>1, <2>1, <2>2, <2>5 DEF QuoteInv, HoldersAreSound
  <2> QED
    BY <2>3, <2>4, <2>5 DEF HoldersAreSound
<1>9. OneLine' /\ InOneArtifact' /\ TrailTellsRows'
  BY RowsStay DEF QuoteInv
<1> QED
  BY <1>2, <1>3, <1>4, <1>5, <1>6, <1>7, <1>8, <1>9 DEF QuoteInv

\* The same for a step that changes nothing but how far the request has come.
LEMMA CallSteps ==
    ASSUME QuoteInv, NEW c \in Calls, NEW s \in Steps,
           step[c] \notin {"new"} \cup Ended, s \notin {"new", "asked"},
           step' = [step EXCEPT ![c] = s], UNCHANGED <<passing, ask, seen, base>>,
           UNCHANGED rows,
           s \in {"locked", "passed"} => IsQuote(c),
           s = "locked" => LockIsFree(ask[c].opp),
           s \in {"locked", "passed"} \cup Ended \/ step[c] \in {"based", "checked", "inserted"},
           s = "passed" => Inside(c),
           s # "current",
           s \in {"inserted", "appended"} =>
               /\ PointerIsExpected(c)
               /\ \A d \in Calls \ {c} : Holds(d) => base[d].artifact # base[c].artifact
    PROVE  QuoteInv'
<1>1. PICK k \in Request, l \in Reading, b \in Basis : k = ask[c] /\ l = seen[c] /\ b = base[c]
  BY DEF QuoteInv, TypeOK
<1>2. /\ ask' = [ask EXCEPT ![c] = k] /\ seen' = [seen EXCEPT ![c] = l]
      /\ base' = [base EXCEPT ![c] = b]
  BY <1>1 DEF QuoteInv, TypeOK
<1>3. /\ k.kind # "none" /\ k.content \in Calls \cup Drafts
      /\ k.kind = "quote" => k.opp \in Opps
  BY <1>1 DEF QuoteInv, RequestsAreSound, RequestIsSound, IsQuote
<1>4. k.kind = "quote" /\ s \notin {"asked"} \cup Ended =>
          \A d \in Calls \ {c} : ~(Inside(d) /\ ask[d].opp = k.opp)
  <2> HAVE k.kind = "quote" /\ s \notin {"asked"} \cup Ended
  <2>1. CASE s = "locked"
    BY <1>1, <2>1 DEF LockIsFree
  <2>2. CASE s # "locked"
    BY <1>1, <2>2 DEF QuoteInv, LockIsExclusive, Inside, IsQuote, Ended
  <2> QED
    BY <2>1, <2>2
<1>5. ReadsStand(c)'
  <2>1. step'[c] = s /\ UNCHANGED <<ask, seen, base, quotes, versions>>
    BY DEF QuoteInv, TypeOK, rows
  <2> QED
    BY <2>1 DEF QuoteInv, AllReadsStand, ReadsStand, Inside, IsQuote, LastId, ArtifactFor, Ended
<1>6. s \in {"based", "checked", "inserted", "appended"} => b.artifact \in Calls
  BY <1>1 DEF QuoteInv, HoldersAreSound, Ended
<1>7. s \in {"inserted", "appended"} =>
          /\ pointer[b.artifact].version = b.version
          /\ pointer[b.artifact].revision = b.revision
          /\ \A d \in Calls \ {c} : Holds(d) => base[d].artifact # b.artifact
  BY <1>1 DEF PointerIsExpected
<1>8. /\ step[c] \notin Ended /\ passing' = passing
      /\ s # "new"
      /\ s \in {"asked", "locked", "passed", "current"} => k.kind = "quote"
  BY <1>1 DEF IsQuote
<1> QED
  BY <1>2, <1>3, <1>4, <1>5, <1>6, <1>7, <1>8, CallMoves

-----------------------------------------------------------------------------
(* The requests *)

LEMMA AskQuoteInv ==
    ASSUME QuoteInv, NEW c \in Calls, NEW o \in Opps, NEW e \in Known \cup {Any, None},
           NEW h \in Known \cup {Any}, NEW q \in Quantities, AskQuote(c, o, e, h, q)
    PROVE  QuoteInv'
<1>1. /\ ForService(e) \in Calls \cup {Any} /\ ForService(h) \in Calls \cup {Any}
      /\ step[c] = "new"
  BY DEF Known, ForService, AskQuote
<1>2. PICK k \in Request, l \in Reading, b \in Basis :
         /\ k = [kind |-> "quote", opp |-> o, expects |-> ForService(e), hash |-> ForService(h),
                 quantity |-> q, content |-> c]
         /\ l = seen[c] /\ b = base[c]
  BY <1>1 DEF Request, QuoteInv, TypeOK
<1>3. /\ step' = [step EXCEPT ![c] = "asked"] /\ ask' = [ask EXCEPT ![c] = k]
      /\ seen' = [seen EXCEPT ![c] = l] /\ base' = [base EXCEPT ![c] = b]
      /\ passing' = passing /\ UNCHANGED rows
  BY <1>2 DEF AskQuote, Goes, QuoteInv, TypeOK
<1>4. ReadsStand(c)'
  BY <1>3 DEF ReadsStand, Inside, QuoteInv, TypeOK
<1>5. /\ "asked" \in Steps /\ step[c] \notin Ended
      /\ k.kind = "quote" /\ k.opp \in Opps /\ k.content \in Calls
  BY <1>1, <1>2 DEF Steps, Ended
<1> QED
  BY <1>3, <1>4, <1>5, CallMoves

LEMMA AskEditInv ==
    ASSUME QuoteInv, NEW c \in Calls, NEW v \in Calls, NEW d \in Drafts, AskEdit(c, v, d)
    PROVE  QuoteInv'
<1>1. step[c] = "new" /\ versions[v] \in Version
  BY DEF AskEdit, QuoteInv, TypeOK
<1>2. PICK w \in Version : w = versions[v]
  BY <1>1
<1>3. PICK k \in Request, l \in Reading, b \in Basis :
         /\ k = [kind |-> "edit", opp |-> None, expects |-> Any, hash |-> Any, quantity |-> 0,
                 content |-> d]
         /\ l = seen[c]
         /\ b = [artifact |-> w.artifact, version |-> v, revision |-> w.number]
  BY <1>2 DEF Request, Basis, Version, QuoteInv, TypeOK
<1>4. /\ step' = [step EXCEPT ![c] = "based"] /\ ask' = [ask EXCEPT ![c] = k]
      /\ seen' = [seen EXCEPT ![c] = l] /\ base' = [base EXCEPT ![c] = b]
      /\ passing' = passing /\ UNCHANGED rows
  BY <1>2, <1>3 DEF AskEdit, Goes, QuoteInv, TypeOK
<1>5. ReadsStand(c)'
  BY <1>3, <1>4 DEF ReadsStand, Inside, IsQuote, QuoteInv, TypeOK
<1>6. /\ "based" \in Steps /\ step[c] \notin Ended
      /\ k.kind = "edit" /\ k.content \in Drafts /\ b.artifact \in Calls
  BY <1>1, <1>2, <1>3 DEF Steps, Ended, Version
<1> QED
  BY <1>4, <1>5, <1>6, CallMoves

-----------------------------------------------------------------------------
(* createQuoteVersion up to its artifact *)

LEMMA LockInv == ASSUME QuoteInv, NEW c \in Calls, Lock(c) PROVE QuoteInv'
<1>1. step[c] = "asked" /\ IsQuote(c) /\ LockIsFree(ask[c].opp)
  BY DEF Lock, QuoteInv, RequestsAreSound, RequestIsSound
<1>2. /\ step' = [step EXCEPT ![c] = "locked"] /\ UNCHANGED <<passing, ask, seen, base>>
      /\ UNCHANGED rows /\ "locked" \in Steps /\ step[c] \notin {"new"} \cup Ended
  BY <1>1 DEF Lock, Goes, Steps, Ended
<1> QED
  BY <1>1, <1>2, CallSteps

\* Ending a request without writing a row, or turning it away.
LEMMA EndInv ==
    ASSUME QuoteInv, NEW c \in Calls, NEW s \in Ended, step[c] \notin {"new"} \cup Ended,
           Goes(c, s), UNCHANGED <<passing, ask, seen, base>>, UNCHANGED rows
    PROVE  QuoteInv'
<1>1. /\ s \in Steps /\ s \notin {"new", "asked", "locked", "passed", "current", "inserted",
                                  "appended"}
      /\ step' = [step EXCEPT ![c] = s]
  BY DEF Ended, Steps, Goes
<1> QED
  BY <1>1, CallSteps

LEMMA ReadDealInv == ASSUME QuoteInv, NEW c \in Calls, ReadDeal(c) PROVE QuoteInv'
<1>1. /\ step[c] = "locked" /\ IsQuote(c) /\ UNCHANGED <<passing, ask, seen, base>>
      /\ UNCHANGED rows /\ "passed" \in Steps /\ step[c] \notin {"new"} \cup Ended
      /\ "failed" \in Ended /\ Inside(c)
  BY DEF ReadDeal, QuoteInv, RequestsAreSound, RequestIsSound, Steps, Ended, Inside
<1>2. CASE ask[c].opp \in passing
  <2>1. step' = [step EXCEPT ![c] = "passed"]
    BY <1>2 DEF ReadDeal, Goes
  <2> QED
    BY <1>1, <2>1, CallSteps
<1>3. CASE ask[c].opp \notin passing
  <2>1. Goes(c, "failed")
    BY <1>3 DEF ReadDeal
  <2> QED
    BY <1>1, <2>1, EndInv
<1> QED
  BY <1>2, <1>3

\* What a request reads under the quote lock stands because nobody else is inside.
LEMMA ReadLatestInv == ASSUME QuoteInv, NEW c \in Calls, ReadLatest(c) PROVE QuoteInv'
<1>1. /\ step[c] = "passed" /\ IsQuote(c) /\ ask[c].opp \in Opps /\ Inside(c)
      /\ UNCHANGED <<passing, ask, base>> /\ UNCHANGED rows
      /\ step[c] \notin {"new"} \cup Ended /\ "failed" \in Ended /\ "current" \in Steps
  BY DEF ReadLatest, QuoteInv, RequestsAreSound, RequestIsSound, Ended, Steps, Inside
<1>2. CASE ~ MeetsExpectation(c)
  BY <1>1, <1>2, EndInv DEF ReadLatest
<1>3. CASE MeetsExpectation(c)
  <2> DEFINE o == ask[c].opp
  <2>1. LatestId(o) = LastId(o) /\ LatestVersion(o) = Len(quotes[o])
    BY <1>1, LatestIsLast DEF QuoteInv
  <2>2. LastId(o) \in Calls \cup {None} /\ (LastId(o) = None <=> quotes[o] = <<>>)
    BY <1>1, LastIsCommitted
  <2>3. quotes[o] \in Seq(Quote) /\ Len(quotes[o]) \in Nat
    BY <1>1 DEF QuoteInv, TypeOK
  <2>4. PICK l \in Reading : l = [latest |-> LastId(o), version |-> Len(quotes[o]) + 1]
    <3>1. PICK x, n : x = LastId(o) /\ n = Len(quotes[o])
      OBVIOUS
    <3>2. [latest |-> x, version |-> n + 1] \in Reading
      BY <2>2, <2>3, <3>1 DEF Reading
    <3> QED
      BY <3>1, <3>2
  <2>5. PICK k \in Request, b \in Basis :
           /\ k = ask[c] /\ b = base[c]
           /\ l = [latest |-> LastId(o), version |-> Len(quotes[o]) + 1]
    BY <2>4 DEF QuoteInv, TypeOK
  <2>6. /\ step' = [step EXCEPT ![c] = "current"] /\ ask' = [ask EXCEPT ![c] = k]
        /\ seen' = [seen EXCEPT ![c] = l] /\ base' = [base EXCEPT ![c] = b]
        /\ passing' = passing
    BY <1>1, <1>3, <2>1, <2>5 DEF ReadLatest, Goes, QuoteInv, TypeOK
  <2>7. k.expects \in {Any, LastId(o)} /\ (k.hash \in {Any, LastId(o)} \/ quotes[o] = <<>>)
    <3>1. k.expects # Any => k.expects = LastId(o)
      BY <1>3, <2>1, <2>5 DEF MeetsExpectation
    <3>2. quotes[o] # <<>> => RowsOf(o) # {}
      <4>1. quotes[o] # <<>> => Len(quotes[o]) \in DOMAIN quotes[o]
        BY <2>3
      <4> QED
        BY <4>1 DEF RowsOf
    <3>3. k.hash # Any /\ quotes[o] # <<>> => k.hash = LastId(o)
      BY <1>3, <2>1, <2>5, <3>2 DEF MeetsExpectation
    <3> QED
      BY <3>1, <3>3
  <2>8. ReadsStand(c)'
    <3>1. /\ step'[c] = "current" /\ ask'[c] = k /\ seen'[c] = l /\ quotes' = quotes
      BY <1>1, <2>6 DEF QuoteInv, TypeOK, rows
    <3>2. k.opp = o /\ LastId(o)' = LastId(o)
      BY <2>5, <3>1 DEF LastId
    <3> QED
      BY <2>5, <2>7, <3>1, <3>2 DEF ReadsStand
  <2>9. /\ k.kind = "quote" /\ k.opp \in Opps /\ k.content \in Calls \cup Drafts
        /\ \A d \in Calls \ {c} : ~(Inside(d) /\ ask[d].opp = k.opp)
    BY <1>1, <2>5 DEF IsQuote, QuoteInv, LockIsExclusive, RequestsAreSound, RequestIsSound
  <2> QED
    BY <1>1, <2>6, <2>8, <2>9, CallMoves
<1> QED
  BY <1>2, <1>3

LEMMA ReadArtifactInv == ASSUME QuoteInv, NEW c \in Calls, ReadArtifact(c) PROVE QuoteInv'
<1>1. /\ step[c] = "current" /\ IsQuote(c) /\ ask[c].opp \in Opps /\ Inside(c)
      /\ UNCHANGED <<passing, ask, seen>> /\ UNCHANGED rows
      /\ step[c] \notin {"new"} \cup Ended /\ "based" \in Steps
  BY DEF ReadArtifact, QuoteInv, RequestsAreSound, RequestIsSound, Ended, Steps, Inside
<1>2. PICK a : a = ArtifactFor(c)
  OBVIOUS
<1>3. a \in Calls
  <2>1. seen[c].latest = LastId(ask[c].opp)
    BY <1>1 DEF QuoteInv, AllReadsStand, ReadsStand
  <2>2. CASE seen[c].latest = None
    BY <1>2, <2>2 DEF ArtifactFor
  <2>3. CASE seen[c].latest # None
    <3>1. PICK v \in Version : v = versions[seen[c].latest]
      BY <1>1, <2>1, <2>3, LastIsCommitted
    <3> QED
      BY <1>2, <2>3, <3>1 DEF ArtifactFor, Version
  <2> QED
    BY <2>2, <2>3
<1>4. PICK p \in Pointer : p = pointer[a]
  BY <1>3 DEF QuoteInv, TypeOK
<1>5. PICK k \in Request, l \in Reading, b \in Basis :
         /\ k = ask[c] /\ l = seen[c]
         /\ b = [artifact |-> a, version |-> p.version, revision |-> p.revision]
  BY <1>3, <1>4 DEF QuoteInv, TypeOK, Basis, Pointer
<1>6. /\ step' = [step EXCEPT ![c] = "based"] /\ ask' = [ask EXCEPT ![c] = k]
      /\ seen' = [seen EXCEPT ![c] = l] /\ base' = [base EXCEPT ![c] = b]
      /\ passing' = passing
  BY <1>1, <1>2, <1>4, <1>5 DEF ReadArtifact, Goes, QuoteInv, TypeOK
<1>7. ReadsStand(c)'
  <2>1. /\ step'[c] = "based" /\ base'[c] = b /\ UNCHANGED <<ask, seen, quotes, versions>>
    BY <1>1, <1>6 DEF QuoteInv, TypeOK, rows
  <2>2. ArtifactFor(c)' = b.artifact
    BY <1>2, <1>5, <2>1 DEF ArtifactFor
  <2> QED
    BY <1>1, <1>5, <2>1, <2>2 DEF QuoteInv, AllReadsStand, ReadsStand, LastId
<1>8. /\ k.kind = "quote" /\ k.opp \in Opps /\ k.content \in Calls \cup Drafts
      /\ \A d \in Calls \ {c} : ~(Inside(d) /\ ask[d].opp = k.opp)
      /\ b.artifact \in Calls
  BY <1>1, <1>3, <1>5 DEF IsQuote, QuoteInv, LockIsExclusive, RequestsAreSound, RequestIsSound
<1> QED
  BY <1>1, <1>6, <1>7, <1>8, CallMoves

-----------------------------------------------------------------------------
(* createArtifactVersion up to COMMIT *)

LEMMA CheckPointerInv == ASSUME QuoteInv, NEW c \in Calls, CheckPointer(c) PROVE QuoteInv'
<1>1. /\ step[c] = "based" /\ UNCHANGED <<passing, ask, seen, base>> /\ UNCHANGED rows
      /\ step[c] \notin {"new"} \cup Ended /\ "checked" \in Steps /\ Ended = {"done", "failed"}
  BY DEF CheckPointer, Ended, Steps
<1>2. CASE Goes(c, "checked")
  <2>1. step' = [step EXCEPT ![c] = "checked"]
    BY <1>2 DEF Goes
  <2> QED
    BY <1>1, <2>1, CallSteps
<1>3. CASE Goes(c, "done") \/ Goes(c, "failed")
  BY <1>1, <1>3, EndInv
<1> QED
  BY <1>2, <1>3 DEF CheckPointer

\* Two uncommitted versions of one artifact would have the same number, and the second waits.
LEMMA InsertVersionInv == ASSUME QuoteInv, NEW c \in Calls, InsertVersion(c) PROVE QuoteInv'
<1>1. /\ step[c] = "checked" /\ UNCHANGED <<passing, ask, seen, base>> /\ UNCHANGED rows
      /\ step[c] \notin {"new"} \cup Ended /\ "inserted" \in Steps /\ "failed" \in Ended
  BY DEF InsertVersion, Ended, Steps
<1>2. CASE Goes(c, "failed")
  BY <1>1, <1>2, EndInv
<1>3. CASE ~ Goes(c, "failed")
  <2>1. PointerIsExpected(c) /\ step' = [step EXCEPT ![c] = "inserted"]
    BY <1>3 DEF InsertVersion, Goes
  <2>2. ASSUME NEW d \in Calls \ {c}, Holds(d), base[d].artifact = base[c].artifact PROVE FALSE
    <3>1. base[d].revision = base[c].revision
      BY <2>1, <2>2 DEF QuoteInv, HoldersAreSound, PointerIsExpected
    <3> QED
      BY <2>2, <3>1 DEF InsertVersion, Collides
  <2> QED
    BY <1>1, <2>1, <2>2, CallSteps
<1> QED
  BY <1>2, <1>3

LEMMA AppendAuditInv == ASSUME QuoteInv, NEW c \in Calls, AppendAudit(c) PROVE QuoteInv'
<1>1. /\ step[c] = "inserted" /\ UNCHANGED <<passing, ask, seen, base>> /\ UNCHANGED rows
      /\ step[c] \notin {"new"} \cup Ended /\ "appended" \in Steps
      /\ step' = [step EXCEPT ![c] = "appended"]
  BY DEF AppendAudit, Goes, Ended, Steps
<1>2. /\ PointerIsExpected(c)
      /\ \A d \in Calls \ {c} : Holds(d) => base[d].artifact # base[c].artifact
  <2>1. Holds(c)
    BY <1>1 DEF Holds
  <2> QED
    BY <2>1 DEF QuoteInv, HoldersAreSound
<1> QED
  BY <1>1, <1>2, CallSteps

LEMMA RollbackInv == ASSUME QuoteInv, NEW c \in Calls, Rollback(c) PROVE QuoteInv'
BY EndInv DEF Rollback, Ended

LEMMA RequalifyInv == ASSUME QuoteInv, NEW o \in Opps, Requalify(o) PROVE QuoteInv'
<1>1. /\ UNCHANGED <<quotes, versions, pointer, trail, step, ask, seen, base>>
      /\ passing' \subseteq Opps
  BY DEF Requalify, rows, QuoteInv, TypeOK
<1>2. TypeOK'
  BY <1>1 DEF QuoteInv, TypeOK
<1>3. RequestsAreSound' /\ QuotesAreOfCalls' /\ VersionsAreSound'
  BY <1>1 DEF QuoteInv, RequestsAreSound, RequestIsSound, IsQuote, QuotesAreOfCalls,
              VersionsAreSound, VersionIsSound
<1>4. LockIsExclusive' /\ AllReadsStand' /\ HoldersAreSound'
  BY <1>1 DEF QuoteInv, LockIsExclusive, AllReadsStand, ReadsStand, HoldersAreSound, Inside,
              IsQuote, Holds, PointerIsExpected, ArtifactFor, LastId
<1>5. OneLine' /\ InOneArtifact' /\ TrailTellsRows'
  BY <1>1, RowsStay DEF QuoteInv, rows
<1> QED
  BY <1>2, <1>3, <1>4, <1>5 DEF QuoteInv

-----------------------------------------------------------------------------
(* The commits *)

\* What a version at its commit is: the first row of its request, above all others of its
\* artifact, with a trail and quotes that do not know the request.
LEMMA VersionIsNew ==
    ASSUME QuoteInv, NEW c \in Calls, step[c] = "appended"
    PROVE  /\ versions[c] = NoVersion
           /\ base[c].artifact \in Calls
           /\ base[c].revision = pointer[base[c].artifact].revision
           /\ \A d \in Calls : Holds(d) /\ base[d].artifact = base[c].artifact => c = d
           /\ \A i \in DOMAIN trail : trail[i] # Told("artifact.version.created", c)
           /\ \A i \in DOMAIN trail : trail[i] # Told("quote.version_created", c)
           /\ \A o \in Opps : \A i \in DOMAIN quotes[o] : quotes[o][i].id # c
<1>1. versions[c] = NoVersion
  BY DEF QuoteInv, VersionsAreSound, VersionIsSound
<1>2. \A o \in Opps : \A i \in DOMAIN quotes[o] : quotes[o][i].id # c
  BY DEF QuoteInv, QuotesAreOfCalls
<1>3. \A i \in DOMAIN trail : trail[i] # Told("artifact.version.created", c)
  BY <1>1 DEF QuoteInv, TrailTellsRows
<1>4. \A i \in DOMAIN trail : trail[i] # Told("quote.version_created", c)
  BY <1>2 DEF QuoteInv, TrailTellsRows, RowsOf
<1>5. Holds(c)
  BY DEF Holds
<1> QED
  BY <1>1, <1>2, <1>3, <1>4, <1>5 DEF QuoteInv, HoldersAreSound, PointerIsExpected

\* What publishing a version leaves of the rows of artifacts.
LEMMA PublishMoves ==
    ASSUME QuoteInv, NEW c \in Calls, step[c] = "appended", Publish(c), Goes(c, "done"),
           UNCHANGED <<passing, ask, seen, base>>
    PROVE  /\ step'[c] = "done" /\ \A d \in Calls \ {c} : step'[d] = step[d]
           /\ versions' \in [Calls -> Version \cup {NoVersion}]
           /\ pointer' \in [Calls -> Pointer]
           /\ versions'[c] \in Version /\ versions'[c] # NoVersion
           /\ versions'[c].artifact = base[c].artifact
           /\ versions'[c].number = pointer[base[c].artifact].revision + 1
           /\ \A d \in Calls \ {c} : versions'[d] = versions[d]
           /\ step' \in [Calls -> Steps]
           /\ RequestsAreSound' /\ VersionsAreSound' /\ HoldersAreSound'
<1>1. /\ versions[c] = NoVersion /\ base[c].artifact \in Calls
      /\ base[c].revision = pointer[base[c].artifact].revision
      /\ \A d \in Calls : Holds(d) /\ base[d].artifact = base[c].artifact => c = d
  BY VersionIsNew
<1>2. PICK a \in Calls : a = base[c].artifact
  BY <1>1
<1>3. PICK b \in Basis : b = base[c]
  BY DEF QuoteInv, TypeOK
<1>4. PICK n \in Nat : n = pointer[a].revision /\ b.revision = n
  BY <1>1, <1>2, <1>3 DEF QuoteInv, TypeOK, Pointer
<1>5. PICK x \in Calls \cup Drafts, m \in Nat : x = ask[c].content /\ m = n + 1
  BY DEF QuoteInv, RequestsAreSound, RequestIsSound
<1>6. PICK w \in Version : w = [artifact |-> a, number |-> m, content |-> x]
  BY DEF Version
<1>7. PICK p \in Pointer : p = [version |-> c, revision |-> m]
  BY DEF Pointer
<1>8. /\ versions' = [versions EXCEPT ![c] = w] /\ pointer' = [pointer EXCEPT ![a] = p]
      /\ step' = [step EXCEPT ![c] = "done"]
  BY <1>2, <1>3, <1>4, <1>5, <1>6, <1>7 DEF Publish, Goes
<1>9. /\ versions' \in [Calls -> Version \cup {NoVersion}] /\ pointer' \in [Calls -> Pointer]
      /\ step' \in [Calls -> Steps] /\ versions'[c] = w /\ pointer'[a] = p /\ step'[c] = "done"
      /\ \A d \in Calls \ {c} : versions'[d] = versions[d] /\ step'[d] = step[d]
      /\ \A d \in Calls \ {a} : pointer'[d] = pointer[d]
  BY <1>8 DEF QuoteInv, TypeOK, Steps
<1>10. w # NoVersion /\ w.artifact = a /\ w.number = n + 1
  BY <1>5, <1>6, MarkersAreNothing DEF NoVersion
<1>11. RequestsAreSound'
  BY <1>9 DEF QuoteInv, RequestsAreSound, RequestIsSound, IsQuote
<1>12. VersionsAreSound'
  <2> SUFFICES ASSUME NEW d \in Calls, versions'[d] # NoVersion
               PROVE  /\ step'[d] = "done"
                      /\ versions'[d].number <= pointer'[versions'[d].artifact].revision
    BY DEF VersionsAreSound, VersionIsSound, NoVersion
  <2>1. CASE d = c
    BY <1>5, <1>7, <1>9, <1>10, <2>1
  <2>2. CASE d # c
    <3>1. PICK v \in Version : v = versions[d]
      BY <1>9, <2>2 DEF QuoteInv, TypeOK
    <3>2. v.artifact \in Calls /\ v.number \in Nat /\ step[d] = "done"
          /\ v.number <= pointer[v.artifact].revision
      BY <1>9, <2>2, <3>1 DEF QuoteInv, VersionsAreSound, VersionIsSound, Version
    <3>3. CASE v.artifact = a
      BY <1>4, <1>5, <1>7, <1>9, <2>2, <3>1, <3>2, <3>3
    <3>4. CASE v.artifact # a
      BY <1>9, <2>2, <3>1, <3>2, <3>4
    <3> QED
      BY <3>3, <3>4
  <2> QED
    BY <2>1, <2>2
<1>13. HoldersAreSound'
  <2>1. \A d \in Calls : (Holds(d))' <=> Holds(d) /\ d # c
    BY <1>9 DEF Holds
  <2>2. ASSUME NEW d \in Calls, (Holds(d))' PROVE PointerIsExpected(d)'
    <3>1. base[d].artifact \in Calls /\ base[d].artifact # a /\ PointerIsExpected(d)
      BY <1>1, <1>2, <2>1, <2>2 DEF QuoteInv, HoldersAreSound, Holds
    <3> QED
      BY <1>9, <3>1 DEF PointerIsExpected
  <2> QED
    BY <1>9, <2>1, <2>2 DEF QuoteInv, HoldersAreSound
<1> QED
  BY <1>2, <1>4, <1>9, <1>10, <1>11, <1>12, <1>13

LEMMA CommitEditInv == ASSUME QuoteInv, NEW c \in Calls, CommitEdit(c) PROVE QuoteInv'
<1>1. /\ step[c] = "appended" /\ ~ IsQuote(c) /\ Publish(c) /\ Goes(c, "done")
      /\ UNCHANGED <<passing, quotes, ask, seen, base>>
      /\ trail' = Append(trail, Told("artifact.version.created", c))
  BY DEF CommitEdit
<1>2. /\ step'[c] = "done" /\ \A d \in Calls \ {c} : step'[d] = step[d]
      /\ versions' \in [Calls -> Version \cup {NoVersion}] /\ pointer' \in [Calls -> Pointer]
      /\ versions'[c] # NoVersion /\ \A d \in Calls \ {c} : versions'[d] = versions[d]
      /\ step' \in [Calls -> Steps]
      /\ RequestsAreSound' /\ VersionsAreSound' /\ HoldersAreSound'
  BY <1>1, PublishMoves
<1>3. /\ versions[c] = NoVersion
      /\ \A i \in DOMAIN trail : trail[i] # Told("artifact.version.created", c)
      /\ \A o \in Opps : \A i \in DOMAIN quotes[o] : quotes[o][i].id # c
  BY <1>1, VersionIsNew
<1>4. PICK m \in Row : m = Told("artifact.version.created", c)
  BY DEF Told, Row
<1>5. /\ trail \in Seq(Row) /\ trail' = Append(trail, m) /\ trail' \in Seq(Row)
      /\ DOMAIN trail' = DOMAIN trail \cup {Len(trail) + 1} /\ Len(trail) + 1 \in Nat
      /\ \A i \in DOMAIN trail : trail'[i] = trail[i] /\ i < Len(trail) + 1
      /\ trail'[Len(trail) + 1] = m
  BY <1>1, <1>4 DEF QuoteInv, TypeOK
<1>6. TypeOK'
  BY <1>1, <1>2, <1>5 DEF QuoteInv, TypeOK
<1>7. \A o \in Opps : \A i \in DOMAIN quotes[o] : quotes[o][i].id \in Calls \ {c}
  BY <1>3, QuotesAreRows DEF QuoteInv
<1>8. QuotesAreOfCalls'
  BY <1>1, <1>2, <1>7 DEF QuoteInv, QuotesAreOfCalls, IsQuote, NoVersion
<1>9. LockIsExclusive'
  BY <1>1, <1>2 DEF QuoteInv, LockIsExclusive, Inside, IsQuote
<1>10. AllReadsStand'
  <2> SUFFICES ASSUME NEW d \in Calls PROVE ReadsStand(d)'
    BY DEF AllReadsStand
  <2>1. CASE d = c
    BY <1>1, <1>2, <2>1 DEF ReadsStand, Inside, IsQuote
  <2>2. CASE d # c
    <3>1. Inside(d)' <=> Inside(d)
      BY <1>1, <1>2, <2>2 DEF Inside, IsQuote
    <3>2. ASSUME Inside(d), step[d] \notin {"locked", "passed"}
          PROVE  ArtifactFor(d)' = ArtifactFor(d)
      <4>1. seen[d].latest = LastId(ask[d].opp) /\ ask[d].opp \in Opps
        BY <3>2 DEF QuoteInv, AllReadsStand, ReadsStand, RequestsAreSound, RequestIsSound, Inside
      <4>2. seen[d].latest # None => seen[d].latest \in Calls \ {c}
        BY <1>1, <4>1, LastIsCommitted
      <4> QED
        BY <1>1, <1>2, <4>2 DEF ArtifactFor
    <3> QED
      BY <1>1, <1>2, <2>2, <3>1, <3>2 DEF QuoteInv, AllReadsStand, ReadsStand, LastId
  <2> QED
    BY <2>1, <2>2
<1>11. OneLine' /\ InOneArtifact'
  BY <1>1, <1>2, <1>7 DEF QuoteInv, OneLine, InOneArtifact
<1>12. TrailTellsRows'
  <2>1. ASSUME NEW d \in Calls
        PROVE  (\E i \in DOMAIN trail' : trail'[i] = Told("artifact.version.created", d))
                  <=> versions'[d] # NoVersion
    BY <1>2, <1>3, <1>4, <1>5 DEF QuoteInv, TrailTellsRows, Told
  <2>2. ASSUME NEW d \in Calls
        PROVE  (\E i \in DOMAIN trail' : trail'[i] = Told("quote.version_created", d))
                  <=> \E o \in Opps : \E r \in RowsOf(o) : r.id = d
    BY <1>4, <1>5 DEF QuoteInv, TrailTellsRows, Told
  <2>3. ASSUME NEW i \in DOMAIN trail', NEW j \in DOMAIN trail', i < j
        PROVE  /\ trail'[i] # trail'[j]
               /\ \A o \in Opps : \A x, y \in DOMAIN quotes[o] :
                     /\ trail'[i] = Told("quote.version_created", quotes[o][x].id)
                     /\ trail'[j] = Told("quote.version_created", quotes[o][y].id)
                     => x < y
    <3>1. i \in DOMAIN trail
      BY <1>5, <2>3
    <3>2. CASE j \in DOMAIN trail
      BY <1>5, <2>3, <3>1, <3>2 DEF QuoteInv, TrailTellsRows
    <3>3. CASE j \notin DOMAIN trail
      BY <1>3, <1>4, <1>5, <3>1, <3>3 DEF Told
    <3> QED
      BY <3>2, <3>3
  <2>4. quotes' = quotes /\ \A o \in Opps : RowsOf(o)' = RowsOf(o)
    BY <1>1 DEF RowsOf
  <2> QED
    BY <2>1, <2>2, <2>3, <2>4 DEF TrailTellsRows, NoVersion, Told
<1> QED
  BY <1>2, <1>6, <1>8, <1>9, <1>10, <1>11, <1>12 DEF QuoteInv

\* A quote whose line is refused is rolled back.
LEMMA CommitQuoteFails ==
    ASSUME QuoteInv, NEW c \in Calls, CommitQuote(c), ~ LineIsKept(c)
    PROVE  QuoteInv'
<1>1. /\ step[c] = "appended" /\ Goes(c, "failed") /\ UNCHANGED rows
      /\ UNCHANGED <<passing, ask, seen, base>> /\ "failed" \in Ended
      /\ step[c] \notin {"new"} \cup Ended
  BY DEF CommitQuote, Ended
<1> QED
  BY <1>1, EndInv

\* What COMMIT of a quote adds to the line of its opportunity and to the trail.
LEMMA QuoteMoves ==
    ASSUME QuoteInv, NEW c \in Calls, CommitQuote(c), LineIsKept(c),
           NEW o \in Opps, o = ask[c].opp
    PROVE  /\ IsQuote(c) /\ step[c] = "appended" /\ Inside(c)
           /\ Publish(c) /\ Goes(c, "done") /\ UNCHANGED <<passing, ask, seen, base>>
           /\ quotes' \in [Opps -> Seq(Quote)]
           /\ \A p \in Opps \ {o} : quotes'[p] = quotes[p]
           /\ Len(quotes[o]) \in Nat /\ Len(quotes'[o]) = Len(quotes[o]) + 1
           /\ DOMAIN quotes[o] = 1..Len(quotes[o])
           /\ DOMAIN quotes'[o] = DOMAIN quotes[o] \cup {Len(quotes[o]) + 1}
           /\ \A i \in DOMAIN quotes[o] : quotes'[o][i] = quotes[o][i]
           /\ quotes'[o][Len(quotes[o]) + 1] =
                 [id |-> c, version |-> Len(quotes[o]) + 1, supersedes |-> LastId(o)]
           /\ trail \in Seq(Row) /\ trail' \in Seq(Row) /\ Len(trail) \in Nat
           /\ DOMAIN trail = 1..Len(trail)
           /\ DOMAIN trail' = DOMAIN trail \cup {Len(trail) + 1, Len(trail) + 2}
           /\ \A i \in DOMAIN trail : trail'[i] = trail[i]
           /\ trail'[Len(trail) + 1] = Told("artifact.version.created", c)
           /\ trail'[Len(trail) + 2] = Told("quote.version_created", c)
<1>1. /\ IsQuote(c) /\ step[c] = "appended" /\ Publish(c) /\ Goes(c, "done")
      /\ UNCHANGED <<passing, ask, seen, base>>
  BY DEF CommitQuote
<1>2. Inside(c)
  BY <1>1 DEF Inside, Ended
<1>3. seen[c].latest = LastId(o) /\ seen[c].version = Len(quotes[o]) + 1
  BY <1>1, <1>2 DEF QuoteInv, AllReadsStand, ReadsStand
<1>4. PICK q \in Seq(Quote) : q = quotes[o]
  BY DEF QuoteInv, TypeOK
<1>5. PICK x \in Calls \cup {None} : x = LastId(o)
  BY LastIsCommitted
<1>6. PICK n \in Nat : n = Len(q) + 1
  BY <1>4
<1>7. PICK r \in Quote : r = [id |-> c, version |-> n, supersedes |-> x]
  BY DEF Quote
<1>8. quotes' = [quotes EXCEPT ![o] = Append(q, r)]
  BY <1>3, <1>4, <1>5, <1>6, <1>7 DEF CommitQuote
<1>9. /\ quotes' \in [Opps -> Seq(Quote)] /\ quotes'[o] = Append(q, r)
      /\ \A p \in Opps \ {o} : quotes'[p] = quotes[p]
  BY <1>8 DEF QuoteInv, TypeOK
<1>10. /\ Len(q) \in Nat /\ Len(Append(q, r)) = n /\ DOMAIN q = 1..Len(q)
       /\ DOMAIN Append(q, r) = DOMAIN q \cup {n} /\ Append(q, r)[n] = r
       /\ \A i \in DOMAIN q : Append(q, r)[i] = q[i]
  BY <1>6
<1>11. PICK u \in Row, v \in Row : /\ u = Told("artifact.version.created", c)
                                   /\ v = Told("quote.version_created", c)
  BY DEF Told, Row
<1>12. PICK t \in Seq(Row) : t = trail
  BY DEF QuoteInv, TypeOK
<1>13. trail' = t \o <<u, v>>
  BY <1>11, <1>12 DEF CommitQuote
<1>14. /\ trail' \in Seq(Row) /\ Len(t) \in Nat /\ DOMAIN t = 1..Len(t)
       /\ Len(trail') = Len(t) + 2 /\ DOMAIN trail' = 1..(Len(t) + 2)
       /\ \A i \in DOMAIN t : trail'[i] = t[i]
       /\ trail'[Len(t) + 1] = u /\ trail'[Len(t) + 2] = v
  BY <1>13
<1>15. DOMAIN trail' = DOMAIN t \cup {Len(t) + 1, Len(t) + 2}
  BY <1>14
<1>16. /\ trail \in Seq(Row) /\ trail' \in Seq(Row) /\ Len(trail) \in Nat
       /\ DOMAIN trail = 1..Len(trail)
       /\ DOMAIN trail' = DOMAIN trail \cup {Len(trail) + 1, Len(trail) + 2}
       /\ \A i \in DOMAIN trail : trail'[i] = trail[i]
       /\ trail'[Len(trail) + 1] = Told("artifact.version.created", c)
       /\ trail'[Len(trail) + 2] = Told("quote.version_created", c)
  BY <1>11, <1>12, <1>14, <1>15, Zenon
<1>17. /\ quotes' \in [Opps -> Seq(Quote)] /\ \A p \in Opps \ {o} : quotes'[p] = quotes[p]
       /\ Len(quotes[o]) \in Nat /\ Len(quotes'[o]) = Len(quotes[o]) + 1
       /\ DOMAIN quotes[o] = 1..Len(quotes[o])
       /\ DOMAIN quotes'[o] = DOMAIN quotes[o] \cup {Len(quotes[o]) + 1}
       /\ \A i \in DOMAIN quotes[o] : quotes'[o][i] = quotes[o][i]
       /\ quotes'[o][Len(quotes[o]) + 1] =
             [id |-> c, version |-> Len(quotes[o]) + 1, supersedes |-> LastId(o)]
  <2>1. Len(quotes[o]) + 1 = n /\ Len(quotes'[o]) = n
    BY <1>4, <1>6, <1>9, <1>10
  <2>2. /\ DOMAIN quotes[o] = 1..Len(quotes[o]) /\ DOMAIN quotes'[o] = DOMAIN quotes[o] \cup {n}
        /\ \A i \in DOMAIN quotes[o] : quotes'[o][i] = quotes[o][i]
        /\ Len(quotes[o]) \in Nat
    BY <1>4, <1>9, <1>10, Zenon
  <2>3. quotes'[o][n] = [id |-> c, version |-> n, supersedes |-> LastId(o)]
    BY <1>5, <1>7, <1>9, <1>10, Zenon
  <2> QED
    BY <1>9, <2>1, <2>2, <2>3, Zenon
<1> QED
  BY <1>1, <1>2, <1>16, <1>17

LEMMA CommitQuoteInv ==
    ASSUME QuoteInv, NEW c \in Calls, CommitQuote(c), LineIsKept(c)
    PROVE  QuoteInv'
<1>1. PICK o \in Opps : o = ask[c].opp
  BY DEF CommitQuote, QuoteInv, RequestsAreSound, RequestIsSound
<1>2. PICK n : n = Len(quotes[o]) + 1
  OBVIOUS
<1>3. /\ IsQuote(c) /\ step[c] = "appended" /\ Inside(c)
      /\ Publish(c) /\ Goes(c, "done") /\ UNCHANGED <<passing, ask, seen, base>>
  BY <1>1, QuoteMoves
<1>4. /\ quotes' \in [Opps -> Seq(Quote)]
      /\ \A p \in Opps \ {o} : quotes'[p] = quotes[p]
      /\ n \in Nat /\ DOMAIN quotes[o] = 1..(n - 1)
      /\ DOMAIN quotes'[o] = DOMAIN quotes[o] \cup {n} /\ n \notin DOMAIN quotes[o]
      /\ \A i \in DOMAIN quotes[o] : quotes'[o][i] = quotes[o][i] /\ i < n
      /\ quotes'[o][n] = [id |-> c, version |-> n, supersedes |-> LastId(o)]
  <2>1. PICK l \in Nat : l = Len(quotes[o])
    BY <1>1, QuoteMoves
  <2>2. /\ quotes' \in [Opps -> Seq(Quote)]
        /\ \A p \in Opps \ {o} : quotes'[p] = quotes[p]
        /\ DOMAIN quotes[o] = 1..l /\ DOMAIN quotes'[o] = DOMAIN quotes[o] \cup {l + 1}
        /\ \A i \in DOMAIN quotes[o] : quotes'[o][i] = quotes[o][i]
        /\ quotes'[o][l + 1] = [id |-> c, version |-> l + 1, supersedes |-> LastId(o)]
    BY <1>1, <2>1, QuoteMoves
  <2>3. n = l + 1 /\ n \in Nat /\ n - 1 = l /\ \A i \in 1..l : i < n
    BY <1>2, <2>1
  <2> QED
    BY <2>2, <2>3
<1>5. /\ trail' \in Seq(Row) /\ Len(trail) \in Nat /\ DOMAIN trail = 1..Len(trail)
      /\ DOMAIN trail' = DOMAIN trail \cup {Len(trail) + 1, Len(trail) + 2}
      /\ \A i \in DOMAIN trail : trail'[i] = trail[i]
      /\ trail'[Len(trail) + 1] = Told("artifact.version.created", c)
      /\ trail'[Len(trail) + 2] = Told("quote.version_created", c)
  BY <1>1, QuoteMoves
<1>6. /\ step'[c] = "done" /\ \A d \in Calls \ {c} : step'[d] = step[d]
      /\ versions' \in [Calls -> Version \cup {NoVersion}] /\ pointer' \in [Calls -> Pointer]
      /\ versions'[c] # NoVersion /\ versions'[c].artifact = base[c].artifact
      /\ versions'[c].number = pointer[base[c].artifact].revision + 1
      /\ \A d \in Calls \ {c} : versions'[d] = versions[d]
      /\ step' \in [Calls -> Steps]
      /\ RequestsAreSound' /\ VersionsAreSound' /\ HoldersAreSound'
  BY <1>3, PublishMoves
<1>7. /\ versions[c] = NoVersion /\ base[c].artifact \in Calls
      /\ \A i \in DOMAIN trail : trail[i] # Told("artifact.version.created", c)
      /\ \A i \in DOMAIN trail : trail[i] # Told("quote.version_created", c)
  BY <1>3, VersionIsNew
<1>8. \A p \in Opps : \A i \in DOMAIN quotes[p] : quotes[p][i].id \in Calls \ {c}
  BY <1>3, VersionIsNew, QuotesAreRows DEF QuoteInv
<1>9. ASSUME NEW p \in Opps, NEW i \in DOMAIN quotes'[p]
       PROVE  \/ /\ i \in DOMAIN quotes[p] /\ quotes'[p][i] = quotes[p][i]
                 /\ quotes'[p][i].id \in Calls \ {c}
              \/ /\ p = o /\ i = n /\ i \notin DOMAIN quotes[p] /\ quotes'[p][i].id = c
  <2>1. CASE p # o
    BY <1>4, <1>8, <2>1
  <2>2. CASE p = o
    BY <1>4, <1>8, <2>2
  <2> QED
    BY <2>1, <2>2
<1>10. ASSUME NEW p \in Opps, NEW i \in DOMAIN quotes[p]
       PROVE  /\ i \in DOMAIN quotes'[p] /\ quotes'[p][i] = quotes[p][i]
              /\ p = o => i < n
  <2>1. CASE p # o
    BY <1>4, <2>1
  <2>2. CASE p = o
    BY <1>4, <2>2
  <2> QED
    BY <2>1, <2>2
<1>11. TypeOK'
  BY <1>3, <1>4, <1>5, <1>6 DEF QuoteInv, TypeOK
<1>12. QuotesAreOfCalls'
  <2> SUFFICES ASSUME NEW p \in Opps, NEW i \in DOMAIN quotes'[p],
                      NEW d, d = quotes'[p][i].id
               PROVE  /\ IsQuote(d)' /\ step'[d] = "done" /\ ask'[d].opp = p
                      /\ versions'[d] # NoVersion
                      /\ \A j \in DOMAIN quotes'[p] : quotes'[p][j].id = d => i = j
    BY DEF QuotesAreOfCalls, NoVersion
  <2>1. CASE i \in DOMAIN quotes[p]
    <3>1. quotes'[p][i] = quotes[p][i] /\ d \in Calls \ {c}
      BY <1>8, <1>10, <2>1
    <3>2. /\ IsQuote(d) /\ step[d] = "done" /\ ask[d].opp = p /\ versions[d] # NoVersion
          /\ \A j \in DOMAIN quotes[p] : quotes[p][j].id = d => i = j
      BY <2>1, <3>1 DEF QuoteInv, QuotesAreOfCalls
    <3>3. \A j \in DOMAIN quotes'[p] : quotes'[p][j].id = d => i = j
      BY <1>9, <3>1, <3>2
    <3> QED
      BY <1>3, <1>6, <3>1, <3>2, <3>3 DEF IsQuote
  <2>2. CASE i \notin DOMAIN quotes[p]
    <3>1. p = o /\ i = n /\ d = c
      BY <1>9, <2>2
    <3>2. \A j \in DOMAIN quotes'[p] : quotes'[p][j].id = d => i = j
      BY <1>9, <3>1
    <3> QED
      BY <1>1, <1>3, <1>6, <3>1, <3>2 DEF IsQuote
  <2> QED
    BY <2>1, <2>2
<1>13. LockIsExclusive'
  BY <1>3, <1>6 DEF QuoteInv, LockIsExclusive, Inside, IsQuote
<1>14. AllReadsStand'
  <2> SUFFICES ASSUME NEW d \in Calls, d # c, Inside(d) PROVE ReadsStand(d)'
    BY <1>3, <1>6 DEF AllReadsStand, ReadsStand, Inside, IsQuote, Ended
  <2>1. ask[d].opp \in Opps \ {o}
    BY <1>1, <1>3 DEF QuoteInv, LockIsExclusive, RequestsAreSound, RequestIsSound, Inside
  <2>2. quotes'[ask[d].opp] = quotes[ask[d].opp]
    BY <1>4, <2>1
  <2>3. ASSUME step[d] \notin {"locked", "passed"} PROVE ArtifactFor(d)' = ArtifactFor(d)
    <3>1. seen[d].latest = LastId(ask[d].opp)
      BY <2>3 DEF QuoteInv, AllReadsStand, ReadsStand
    <3>2. seen[d].latest # None => seen[d].latest \in Calls \ {c}
      BY <1>3, <2>1, <3>1, LastIsCommitted
    <3> QED
      BY <1>3, <1>6, <3>2 DEF ArtifactFor
  <2> QED
    BY <1>3, <1>6, <2>1, <2>2, <2>3 DEF QuoteInv, AllReadsStand, ReadsStand, LastId, Inside, IsQuote
<1>15. OneLine'
  <2> SUFFICES ASSUME NEW p \in Opps, NEW i \in DOMAIN quotes'[p]
               PROVE  /\ quotes'[p][i].version = i
                      /\ quotes'[p][i].supersedes = IF i = 1 THEN None ELSE quotes'[p][i - 1].id
    BY DEF OneLine
  <2>1. CASE i \in DOMAIN quotes[p]
    <3>1. /\ quotes[p][i].version = i
          /\ quotes[p][i].supersedes = IF i = 1 THEN None ELSE quotes[p][i - 1].id
      BY <2>1 DEF QuoteInv, OneLine
    <3>2. i # 1 => i - 1 \in DOMAIN quotes[p]
      <4>1. quotes[p] \in Seq(Quote)
        BY DEF QuoteInv, TypeOK
      <4> QED
        BY <2>1, <4>1
    <3> QED
      BY <1>10, <2>1, <3>1, <3>2
  <2>2. CASE p = o /\ i = n
    <3>1. LastId(o) = IF n = 1 THEN None ELSE quotes[o][n - 1].id
      <4>1. quotes[o] \in Seq(Quote)
        BY DEF QuoteInv, TypeOK
      <4> QED
        BY <1>2, <4>1 DEF LastId
    <3>2. n # 1 => n - 1 \in DOMAIN quotes[o]
      BY <1>4
    <3> QED
      BY <1>4, <2>2, <3>1, <3>2
  <2> QED
    BY <1>9, <2>1, <2>2
<1>16. InOneArtifact'
  <2>1. ASSUME NEW i \in DOMAIN quotes[o]
        PROVE  /\ versions[quotes[o][i].id].artifact = base[c].artifact
               /\ versions[quotes[o][i].id].number < pointer[base[c].artifact].revision + 1
    <3>1. PICK m \in DOMAIN quotes[o] : m = n - 1 /\ LastId(o) = quotes[o][m].id /\ i <= m
      <4>1. quotes[o] \in Seq(Quote)
        BY DEF QuoteInv, TypeOK
      <4>2. PICK l \in Nat : l = Len(quotes[o])
        BY <4>1
      <4>3. l = n - 1 /\ l \in DOMAIN quotes[o] /\ i <= l
        BY <1>2, <1>4, <2>1, <4>2
      <4>4. quotes[o] # <<>>
        BY <2>1
      <4>5. LastId(o) = quotes[o][l].id
        BY <4>2, <4>4 DEF LastId
      <4> QED
        BY <4>3, <4>5
    <3>2. versions[quotes[o][m].id].artifact = base[c].artifact
      <4>1. seen[c].latest = LastId(o) /\ base[c].artifact = ArtifactFor(c)
        BY <1>1, <1>3 DEF QuoteInv, AllReadsStand, ReadsStand
      <4>2. LastId(o) # None
        BY <1>8, <3>1, MarkersAreNothing
      <4> QED
        BY <3>1, <4>1, <4>2 DEF ArtifactFor
    <3>3. versions[quotes[o][i].id].artifact = versions[quotes[o][m].id].artifact
      BY <1>4, <3>1 DEF QuoteInv, InOneArtifact
    <3>4. PICK d \in Calls : d = quotes[o][i].id /\ versions[d] # NoVersion
      BY <1>8 DEF QuoteInv, QuotesAreOfCalls
    <3>5. PICK v \in Version : v = versions[d]
      BY <3>4 DEF QuoteInv, TypeOK
    <3>6. v.number <= pointer[v.artifact].revision
      BY <3>4, <3>5 DEF QuoteInv, VersionsAreSound, VersionIsSound
    <3>7. v.number \in Nat /\ pointer[base[c].artifact].revision \in Nat
      BY <1>7, <3>5 DEF Version, Pointer, QuoteInv, TypeOK
    <3> QED
      BY <3>2, <3>3, <3>4, <3>5, <3>6, <3>7
  <2> SUFFICES ASSUME NEW p \in Opps, NEW i \in DOMAIN quotes'[p], NEW j \in DOMAIN quotes'[p],
                      i < j
               PROVE  /\ versions'[quotes'[p][i].id].artifact = versions'[quotes'[p][j].id].artifact
                      /\ versions'[quotes'[p][i].id].number < versions'[quotes'[p][j].id].number
    BY DEF InOneArtifact
  <2>2. CASE j \in DOMAIN quotes[p]
    <3>1. i \in DOMAIN quotes[p]
      <4>1. CASE p = o /\ i = n
        BY <1>4, <2>2, <4>1
      <4> QED
        BY <1>9, <4>1
    <3>2. /\ quotes'[p][i] = quotes[p][i] /\ quotes'[p][j] = quotes[p][j]
          /\ quotes[p][i].id \in Calls \ {c} /\ quotes[p][j].id \in Calls \ {c}
      BY <1>8, <1>10, <2>2, <3>1
    <3>3. /\ versions[quotes[p][i].id].artifact = versions[quotes[p][j].id].artifact
          /\ versions[quotes[p][i].id].number < versions[quotes[p][j].id].number
      BY <2>2, <3>1 DEF QuoteInv, InOneArtifact
    <3>4. /\ versions'[quotes[p][i].id] = versions[quotes[p][i].id]
          /\ versions'[quotes[p][j].id] = versions[quotes[p][j].id]
      BY <1>6, <3>2
    <3> QED
      BY <3>2, <3>3, <3>4
  <2>3. CASE j \notin DOMAIN quotes[p]
    <3>1. p = o /\ j = n /\ i \in DOMAIN quotes[o]
      <4>1. p = o /\ j = n
        BY <1>9, <2>3
      <4> QED
        BY <1>4, <1>9, <4>1
    <3>2. quotes'[o][i] = quotes[o][i] /\ quotes[o][i].id \in Calls \ {c} /\ quotes'[o][n].id = c
      BY <1>4, <1>8, <3>1
    <3> QED
      BY <1>6, <2>1, <3>1, <3>2
  <2> QED
    BY <2>2, <2>3
<1>17. TrailTellsRows'
  <2>1. ASSUME NEW d \in Calls
        PROVE  (\E i \in DOMAIN trail' : trail'[i] = Told("artifact.version.created", d))
                  <=> versions'[d] # NoVersion
    <3>1. (\E i \in DOMAIN trail' : trail'[i] = Told("artifact.version.created", d))
             <=> d = c \/ \E i \in DOMAIN trail : trail[i] = Told("artifact.version.created", d)
      BY <1>5 DEF Told
    <3>2. (\E i \in DOMAIN trail : trail[i] = Told("artifact.version.created", d))
             <=> versions[d] # NoVersion
      BY DEF QuoteInv, TrailTellsRows
    <3> QED
      BY <1>6, <3>1, <3>2
  <2>2. ASSUME NEW d \in Calls
        PROVE  (\E i \in DOMAIN trail' : trail'[i] = Told("quote.version_created", d))
                  <=> \E p \in Opps : \E i \in DOMAIN quotes'[p] : quotes'[p][i].id = d
    <3>1. (\E i \in DOMAIN trail' : trail'[i] = Told("quote.version_created", d))
             <=> d = c \/ \E i \in DOMAIN trail : trail[i] = Told("quote.version_created", d)
      BY <1>5 DEF Told
    <3>2. (\E p \in Opps : \E i \in DOMAIN quotes'[p] : quotes'[p][i].id = d)
             <=> d = c \/ \E p \in Opps : \E i \in DOMAIN quotes[p] : quotes[p][i].id = d
      <4>1. n \in DOMAIN quotes'[o] /\ quotes'[o][n].id = c
        BY <1>4
      <4> QED
        BY <1>9, <1>10, <4>1
    <3>3. (\E i \in DOMAIN trail : trail[i] = Told("quote.version_created", d))
             <=> \E p \in Opps : \E i \in DOMAIN quotes[p] : quotes[p][i].id = d
      BY DEF QuoteInv, TrailTellsRows, RowsOf
    <3> QED
      BY <3>1, <3>2, <3>3
  <2>3. ASSUME NEW i \in DOMAIN trail', NEW j \in DOMAIN trail', i < j
        PROVE  trail'[i] # trail'[j]
    BY <1>5, <1>7, <2>3 DEF QuoteInv, TrailTellsRows, Told
  <2>4. ASSUME NEW i \in DOMAIN trail', NEW j \in DOMAIN trail', i < j, NEW p \in Opps,
               NEW x \in DOMAIN quotes'[p], NEW y \in DOMAIN quotes'[p],
               trail'[i] = Told("quote.version_created", quotes'[p][x].id),
               trail'[j] = Told("quote.version_created", quotes'[p][y].id)
        PROVE  x < y
    <3>1. i \in DOMAIN trail
      BY <1>5, <2>4 DEF Told
    <3>2. quotes'[p][x].id # c
      BY <1>5, <1>7, <2>4, <3>1
    <3>3. x \in DOMAIN quotes[p] /\ quotes'[p][x] = quotes[p][x]
      BY <1>9, <3>2
    <3>4. CASE quotes'[p][y].id = c
      BY <1>9, <1>10, <3>3, <3>4
    <3>5. CASE quotes'[p][y].id # c
      <4>1. y \in DOMAIN quotes[p] /\ quotes'[p][y] = quotes[p][y]
        BY <1>9, <3>5
      <4>2. j \in DOMAIN trail
        BY <1>5, <2>4, <3>5 DEF Told
      <4> QED
        BY <1>5, <2>4, <3>1, <3>3, <4>1, <4>2 DEF QuoteInv, TrailTellsRows
    <3> QED
      BY <3>4, <3>5
  <2> QED
    BY <2>1, <2>2, <2>3, <2>4 DEF TrailTellsRows, RowsOf, NoVersion, Told
<1> QED
  BY <1>6, <1>11, <1>12, <1>13, <1>14, <1>15, <1>16, <1>17 DEF QuoteInv

-----------------------------------------------------------------------------
(* Every step, and the invariants *)

LEMMA NextInv == QuoteInv /\ [Next]_vars => QuoteInv'
<1> SUFFICES ASSUME QuoteInv, [Next]_vars PROVE QuoteInv'
  OBVIOUS
<1>1. CASE UNCHANGED vars
  <2>1. UNCHANGED <<quotes, versions, pointer, trail, step, ask, seen, base>> /\ passing' = passing
    BY <1>1 DEF vars
  <2>2. TypeOK' /\ RequestsAreSound' /\ QuotesAreOfCalls' /\ VersionsAreSound'
    BY <2>1 DEF QuoteInv, TypeOK, RequestsAreSound, RequestIsSound, IsQuote, QuotesAreOfCalls,
                VersionsAreSound, VersionIsSound
  <2>3. LockIsExclusive' /\ AllReadsStand' /\ HoldersAreSound'
    BY <2>1 DEF QuoteInv, LockIsExclusive, AllReadsStand, ReadsStand, HoldersAreSound, Inside,
                IsQuote, Holds, PointerIsExpected, ArtifactFor, LastId
  <2>4. OneLine' /\ InOneArtifact' /\ TrailTellsRows'
    BY <2>1, RowsStay DEF QuoteInv, rows
  <2> QED
    BY <2>2, <2>3, <2>4 DEF QuoteInv
<1>2. ASSUME NEW o \in Opps, Requalify(o) PROVE QuoteInv'
  BY <1>2, RequalifyInv
<1>3. ASSUME NEW c \in Calls, Asks(c) PROVE QuoteInv'
  BY <1>3, AskQuoteInv, AskEditInv DEF Asks
<1>4. ASSUME NEW c \in Calls, Proceeds(c) PROVE QuoteInv'
  <2>1. CASE Lock(c) \/ ReadDeal(c) \/ ReadLatest(c) \/ ReadArtifact(c)
    BY <2>1, LockInv, ReadDealInv, ReadLatestInv, ReadArtifactInv
  <2>2. CASE CheckPointer(c) \/ InsertVersion(c) \/ AppendAudit(c)
    BY <2>2, CheckPointerInv, InsertVersionInv, AppendAuditInv
  <2>3. CASE CommitEdit(c) \/ CommitQuote(c)
    BY <2>3, CommitEditInv, CommitQuoteInv, CommitQuoteFails
  <2> QED
    BY <1>4, <2>1, <2>2, <2>3 DEF Proceeds
<1>5. ASSUME NEW c \in Calls, Rollback(c) PROVE QuoteInv'
  BY <1>5, RollbackInv
<1> QED
  BY <1>1, <1>2, <1>3, <1>4, <1>5 DEF Next

\* QuoteInv, with which every other fact is proved, holds of every reachable state.
THEOREM QuoteInvariant == Spec => []QuoteInv
<1> QED
  BY InvInit, NextInv, PTL DEF Spec

\* The rows and the requests have the forms of the columns: no version without its artifact, no
\* pointer to a null version but that of a new artifact.
THEOREM TypeCorrect == Spec => []TypeOK
<1>1. QuoteInv => TypeOK
  BY DEF QuoteInv
<1> QED
  BY <1>1, QuoteInvariant, PTL

\* The quotes of an opportunity are numbered without a gap and none has two successors, however
\* many calls of createQuoteVersion race, fail or are repeated.
THEOREM LineIsWhole == Spec => []OneLine
<1>1. QuoteInv => OneLine
  BY DEF QuoteInv
<1> QED
  BY <1>1, QuoteInvariant, PTL

-----------------------------------------------------------------------------
(* The versions of an artifact, and whole calls *)

LEMMA BookInvInit == Init => BookInv
<1> SUFFICES ASSUME Init PROVE BookInv
  OBVIOUS
<1>1. VersionsAreGapless
  <2>1. \A a \in Calls : VersionsOf(a) = {} /\ pointer[a].revision = 0
    BY MarkersAreNothing DEF Init, VersionsOf, NoVersion, NoPointer
  <2>2. 1..0 = {}
    OBVIOUS
  <2>3. \A a \in Calls : {versions[v].number : v \in VersionsOf(a)} = 1..pointer[a].revision
    BY <2>1, <2>2
  <2> QED
    BY <2>1, <2>3 DEF VersionsAreGapless
<1>2. CallsAreWhole /\ ContentsAreOwn /\ HoldersAreNew
  BY DEF Init, CallsAreWhole, ContentsAreOwn, HoldersAreNew, IsQuote, NoRequest, Holds
<1> QED
  BY <1>1, <1>2 DEF BookInv

\* A step of one request that writes no row keeps the invariant if the request keeps to its content
\* and is not told of a quote.
LEMMA RowlessKeepsBook ==
    ASSUME QuoteInv, BookInv, NEW c \in Calls, UNCHANGED rows, step[c] \notin Ended,
           \A d \in Calls \ {c} : step'[d] = step[d] /\ ask'[d] = ask[d] /\ base'[d] = base[d],
           ask'[c].kind = "quote" =>
               ask'[c].content = c /\ ask'[c].opp \in Opps /\ step'[c] # "done",
           ask'[c].kind = "edit" => ask'[c].content \in Drafts,
           ask'[c] = ask[c] \/ step[c] = "new",
           step'[c] \in {"inserted", "appended"} =>
               \A v \in Calls : versions[v].artifact = base'[c].artifact =>
                   versions[v].content # ask'[c].content
    PROVE  BookInv'
<1>1. UNCHANGED <<quotes, versions, pointer>>
  BY DEF rows
<1>2. versions[c] = NoVersion
  BY DEF QuoteInv, VersionsAreSound, VersionIsSound, Ended
<1>3. VersionsAreGapless'
  <2>1. \A a \in Calls : VersionsOf(a)' = VersionsOf(a)
    BY <1>1 DEF VersionsOf
  <2>2. VersionsAreGapless
    BY DEF BookInv
  <2> QED
    BY <1>1, <2>1, <2>2 DEF VersionsAreGapless
<1>4. CallsAreWhole'
  <2> SUFFICES ASSUME NEW d \in Calls, IsQuote(d)'
               PROVE  /\ step'[d] = "done" <=>
                            \E i \in DOMAIN quotes[ask'[d].opp] : quotes[ask'[d].opp][i].id = d
                      /\ step'[d] = "done" <=> versions[d] # NoVersion
    BY <1>1 DEF CallsAreWhole, NoVersion
  <2>1. CASE d # c
    BY <2>1 DEF BookInv, CallsAreWhole, IsQuote
  <2>2. CASE d = c
    <3>1. \A o \in Opps : \A i \in DOMAIN quotes[o] : quotes[o][i].id # c
      BY DEF QuoteInv, QuotesAreOfCalls, Ended
    <3> QED
      BY <1>2, <2>2, <3>1 DEF IsQuote
  <2> QED
    BY <2>1, <2>2
<1>5. ContentsAreOwn'
  BY <1>1, <1>2 DEF BookInv, ContentsAreOwn, IsQuote, NoVersion
<1>6. HoldersAreNew'
  BY <1>1 DEF BookInv, HoldersAreNew, Holds
<1> QED
  BY <1>3, <1>4, <1>5, <1>6 DEF BookInv

\* The same when the request itself and what it writes to stay as they are.
LEMMA MarchKeepsBook ==
    ASSUME QuoteInv, BookInv, NEW c \in Calls, NEW s \in Steps, Goes(c, s),
           step[c] \notin {"new"} \cup Ended, UNCHANGED rows, ask' = ask,
           \A d \in Calls \ {c} : base'[d] = base[d],
           IsQuote(c) => s # "done",
           s \in {"inserted", "appended"} =>
               \A v \in Calls : versions[v].artifact = base'[c].artifact =>
                   versions[v].content # ask[c].content
    PROVE  BookInv'
<1>1. step'[c] = s /\ \A d \in Calls \ {c} : step'[d] = step[d] /\ ask'[d] = ask[d]
  BY DEF Goes, QuoteInv, TypeOK
<1>2. /\ ask'[c].kind = "quote" => ask'[c].content = c /\ ask'[c].opp \in Opps /\ step'[c] # "done"
      /\ ask'[c].kind = "edit" => ask'[c].content \in Drafts
  BY <1>1 DEF QuoteInv, RequestsAreSound, RequestIsSound, BookInv, ContentsAreOwn, IsQuote
<1> QED
  BY <1>1, <1>2, RowlessKeepsBook

LEMMA AsksKeepBook == ASSUME QuoteInv, BookInv, NEW c \in Calls, Asks(c) PROVE BookInv'
<1>1. ASSUME NEW o \in Opps, NEW e \in Known \cup {Any, None}, NEW h \in Known \cup {Any},
             NEW q \in Quantities, AskQuote(c, o, e, h, q)
      PROVE  BookInv'
  <2>1. /\ step[c] = "new" /\ step'[c] = "asked" /\ UNCHANGED rows
        /\ ask'[c].kind = "quote" /\ ask'[c].content = c /\ ask'[c].opp = o
        /\ \A d \in Calls \ {c} : step'[d] = step[d] /\ ask'[d] = ask[d] /\ base'[d] = base[d]
    BY <1>1 DEF AskQuote, Goes, QuoteInv, TypeOK
  <2> QED
    BY <2>1, RowlessKeepsBook DEF Ended
<1>2. ASSUME NEW v \in Calls, NEW d \in Drafts, AskEdit(c, v, d) PROVE BookInv'
  <2>1. /\ step[c] = "new" /\ step'[c] = "based" /\ UNCHANGED rows
        /\ ask'[c].kind = "edit" /\ ask'[c].content = d
        /\ \A e \in Calls \ {c} : step'[e] = step[e] /\ ask'[e] = ask[e] /\ base'[e] = base[e]
    BY <1>2 DEF AskEdit, Goes, QuoteInv, TypeOK
  <2> QED
    BY <2>1, RowlessKeepsBook DEF Ended
<1> QED
  BY <1>1, <1>2 DEF Asks

\* A quote always has something new: its content is its own, and nobody can have published that.
LEMMA QuotesAreNews == ASSUME QuoteInv, BookInv, NEW c \in Calls, step[c] = "based", IsQuote(c)
                       PROVE  ~IsNothingNew(c)
<1> SUFFICES ASSUME IsNothingNew(c) PROVE FALSE
  OBVIOUS
<1>1. PICK v \in Calls : v = base[c].version /\ versions[v].content = c
  <2>1. base[c].version \in Calls
    BY DEF QuoteInv, TypeOK, Basis, IsNothingNew
  <2> QED
    BY <2>1 DEF IsNothingNew, BookInv, ContentsAreOwn
<1>2. versions[v] # NoVersion
  BY <1>1, MarkersAreNothing DEF NoVersion
<1>3. versions[v].content = ask[v].content /\ v # c
  BY <1>2 DEF BookInv, ContentsAreOwn, QuoteInv, VersionsAreSound, VersionIsSound
<1>4. ask[v].kind \in {"quote", "edit"}
  <2>1. ask[v] \in Request /\ ask[v].kind # "none"
    BY <1>2 DEF QuoteInv, TypeOK, VersionsAreSound, VersionIsSound, RequestsAreSound, RequestIsSound
  <2> QED
    BY <2>1 DEF Request
<1> QED
  BY <1>1, <1>3, <1>4, QuoteConstants DEF BookInv, ContentsAreOwn, IsQuote

LEMMA CallsKeepBook ==
    ASSUME QuoteInv, BookInv, NEW c \in Calls,
           \/ Lock(c) \/ ReadDeal(c) \/ ReadLatest(c) \/ ReadArtifact(c)
           \/ CheckPointer(c) \/ InsertVersion(c) \/ AppendAudit(c) \/ Rollback(c)
    PROVE  BookInv'
<1>1. CASE Lock(c) \/ ReadDeal(c) \/ ReadLatest(c) \/ Rollback(c)
  <2>1. PICK s \in {"locked", "passed", "failed", "current"} : Goes(c, s)
    BY <1>1 DEF Lock, ReadDeal, ReadLatest, Rollback
  <2>2. step[c] \notin {"new"} \cup Ended /\ UNCHANGED rows /\ UNCHANGED <<ask, base>> /\ s \in Steps
    BY <1>1 DEF Lock, ReadDeal, ReadLatest, Rollback, Ended, Steps
  <2> QED
    BY <2>1, <2>2, MarchKeepsBook
<1>2. CASE ReadArtifact(c)
  <2>1. /\ Goes(c, "based") /\ step[c] \notin {"new"} \cup Ended /\ UNCHANGED rows /\ ask' = ask
        /\ \A d \in Calls \ {c} : base'[d] = base[d] /\ "based" \in Steps
    BY <1>2 DEF ReadArtifact, Ended, Steps, QuoteInv, TypeOK
  <2> QED
    BY <2>1, MarchKeepsBook DEF Steps
<1>3. CASE CheckPointer(c)
  <2>1. PICK s \in {"failed", "done", "checked"} : Goes(c, s) /\ (s = "done" => IsNothingNew(c))
    BY <1>3 DEF CheckPointer
  <2>2. step[c] = "based" /\ UNCHANGED rows /\ UNCHANGED <<ask, base>> /\ s \in Steps
    BY <1>3 DEF CheckPointer, Steps
  <2>3. IsQuote(c) => s # "done"
    BY <2>1, <2>2, QuotesAreNews
  <2> QED
    BY <2>1, <2>2, <2>3, MarchKeepsBook DEF Ended
<1>4. CASE InsertVersion(c)
  <2>1. PICK s \in {"failed", "inserted"} :
           /\ Goes(c, s)
           /\ s = "inserted" => \A v \in Calls : ~Collides(c, versions[v].artifact,
                                     versions[v].number, versions[v].content)
    BY <1>4 DEF InsertVersion
  <2>2. step[c] = "checked" /\ UNCHANGED rows /\ UNCHANGED <<ask, base>> /\ s \in Steps
    BY <1>4 DEF InsertVersion, Steps
  <2> QED
    BY <2>1, <2>2, MarchKeepsBook DEF Ended, Collides
<1>5. CASE AppendAudit(c)
  <2>1. Goes(c, "appended") /\ step[c] = "inserted" /\ UNCHANGED rows /\ UNCHANGED <<ask, base>>
    BY <1>5 DEF AppendAudit
  <2>2. \A v \in Calls : versions[v].artifact = base[c].artifact =>
            versions[v].content # ask[c].content
    BY <2>1 DEF BookInv, HoldersAreNew, Holds
  <2> QED
    BY <2>1, <2>2, MarchKeepsBook DEF Ended, Steps
<1> QED
  BY <1>1, <1>2, <1>3, <1>4, <1>5

\* A version that is published takes the next number of its artifact.
LEMMA PublishKeepsGapless ==
    ASSUME QuoteInv, BookInv, NEW c \in Calls, step[c] = "appended", Publish(c)
    PROVE  /\ VersionsAreGapless'
           /\ versions'[c].content = ask[c].content
           /\ versions'[c] # NoVersion
           /\ \A v \in Calls \ {c} : versions'[v] = versions[v]
           /\ versions'[c].artifact = base[c].artifact
<1>1. PICK a \in Calls, n \in Nat :
         a = base[c].artifact /\ n = base[c].revision /\ n = pointer[a].revision
  <2>1. base[c].artifact \in Calls /\ base[c].revision = pointer[base[c].artifact].revision
    BY VersionIsNew
  <2> QED
    BY <2>1 DEF QuoteInv, TypeOK, Pointer
<1>2. PICK x, w : /\ x = ask[c].content
                  /\ w = [artifact |-> a, number |-> n + 1, content |-> x]
  OBVIOUS
<1>3. /\ versions'[c] = w /\ \A v \in Calls \ {c} : versions'[v] = versions[v]
      /\ pointer'[a] = [version |-> c, revision |-> n + 1]
      /\ \A b \in Calls \ {a} : pointer'[b] = pointer[b]
  BY <1>1, <1>2 DEF Publish, QuoteInv, TypeOK
<1>4. w.artifact = a /\ w.number = n + 1 /\ w.content = x /\ w # NoVersion
  BY <1>1, <1>2, MarkersAreNothing DEF NoVersion
<1>5. versions[c] = NoVersion
  BY VersionIsNew
<1>6. VersionsOf(a)' = VersionsOf(a) \cup {c} /\ c \notin VersionsOf(a)
  BY <1>1, <1>3, <1>4, <1>5, MarkersAreNothing DEF VersionsOf, NoVersion
<1>7. ASSUME NEW b \in Calls, b # a PROVE VersionsOf(b)' = VersionsOf(b) /\ c \notin VersionsOf(b)
  BY <1>3, <1>4, <1>5, <1>7, MarkersAreNothing DEF VersionsOf, NoVersion
<1>8. \A v \in VersionsOf(a) : versions[v].content # x
  BY <1>1, <1>2 DEF BookInv, HoldersAreNew, Holds, VersionsOf
<1>9. VersionsAreGapless'
  <2>1. ASSUME NEW b \in Calls, b # a
        PROVE  /\ {versions'[v].number : v \in VersionsOf(b)'} = 1..pointer'[b].revision
               /\ \A v, u \in VersionsOf(b)' :
                     \/ versions'[v].number = versions'[u].number
                     \/ versions'[v].content = versions'[u].content
                     => v = u
               /\ pointer'[b].revision # 0 =>
                     /\ pointer'[b].version \in VersionsOf(b)'
                     /\ versions'[pointer'[b].version].number = pointer'[b].revision
    <3>1. \A v \in VersionsOf(b) : versions'[v] = versions[v]
      BY <1>3, <1>7, <2>1 DEF VersionsOf
    <3>2. VersionsOf(b)' = VersionsOf(b) /\ pointer'[b] = pointer[b]
      BY <1>3, <1>7, <2>1
    <3>3. {versions'[v].number : v \in VersionsOf(b)} = {versions[v].number : v \in VersionsOf(b)}
      BY <3>1
    <3> QED
      BY <3>1, <3>2, <3>3 DEF BookInv, VersionsAreGapless
  <2>2. /\ {versions[v].number : v \in VersionsOf(a)} = 1..n
        /\ \A v, u \in VersionsOf(a) :
              versions[v].number = versions[u].number \/ versions[v].content = versions[u].content
              => v = u
    BY <1>1 DEF BookInv, VersionsAreGapless
  <2>3. \A v \in VersionsOf(a) : versions'[v] = versions[v]
    BY <1>3, <1>6 DEF VersionsOf
  <2>4. {versions'[v].number : v \in VersionsOf(a)'} = 1..(n + 1)
    <3>1. {versions'[v].number : v \in VersionsOf(a)'}
             = {versions[v].number : v \in VersionsOf(a)} \cup {n + 1}
      BY <1>3, <1>4, <1>6, <2>3
    <3>2. (1..n) \cup {n + 1} = 1..(n + 1)
      OBVIOUS
    <3> QED
      BY <2>2, <3>1, <3>2
  <2>5. \A v \in VersionsOf(a) : versions[v].number # n + 1
    <3>1. \A v \in VersionsOf(a) : versions[v].number \in 1..n
      BY <2>2
    <3>2. n + 1 \notin 1..n
      OBVIOUS
    <3> QED
      BY <3>1, <3>2
  <2>6. \A v, u \in VersionsOf(a)' :
           versions'[v].number = versions'[u].number \/ versions'[v].content = versions'[u].content
           => v = u
    BY <1>3, <1>4, <1>6, <1>8, <2>2, <2>3, <2>5
  <2>7. pointer'[a].version \in VersionsOf(a)' /\ versions'[pointer'[a].version].number = pointer'[a].revision
    BY <1>3, <1>4, <1>6
  <2>8. pointer'[a].revision = n + 1
    BY <1>3
  <2> QED
    BY <2>1, <2>4, <2>6, <2>7, <2>8 DEF VersionsAreGapless
<1> QED
  BY <1>1, <1>2, <1>3, <1>4, <1>9

\* A commit tells its caller of what is there.
LEMMA CommitKeepsBook ==
    ASSUME QuoteInv, BookInv, NEW c \in Calls, CommitEdit(c) \/ (CommitQuote(c) /\ LineIsKept(c))
    PROVE  BookInv'
<1>1. /\ step[c] = "appended" /\ Publish(c) /\ Goes(c, "done") /\ UNCHANGED <<ask, base>>
  BY DEF CommitEdit, CommitQuote
<1>2. /\ VersionsAreGapless' /\ versions'[c].content = ask[c].content /\ versions'[c] # NoVersion
      /\ versions'[c].artifact = base[c].artifact
      /\ \A v \in Calls \ {c} : versions'[v] = versions[v]
  BY <1>1, PublishKeepsGapless
<1>3. step'[c] = "done" /\ \A d \in Calls \ {c} : step'[d] = step[d]
  BY <1>1 DEF Goes, QuoteInv, TypeOK
<1>4. ContentsAreOwn'
  BY <1>1, <1>2 DEF BookInv, ContentsAreOwn, IsQuote, NoVersion
<1>5. HoldersAreNew'
  <2> SUFFICES ASSUME NEW d \in Calls, NEW v \in Calls, Holds(d)',
                      versions'[v].artifact = base[d].artifact
               PROVE  versions'[v].content # ask[d].content
    BY <1>1 DEF HoldersAreNew
  <2>1. d # c /\ Holds(d)
    BY <1>3 DEF Holds
  <2>2. base[d].artifact # base[c].artifact
    BY <1>1, <2>1, VersionIsNew
  <2> QED
    BY <1>2, <2>1, <2>2 DEF BookInv, HoldersAreNew
<1>6. CallsAreWhole'
  <2> SUFFICES ASSUME NEW d \in Calls, IsQuote(d), NEW o \in Opps, o = ask[d].opp
               PROVE  /\ step'[d] = "done" <=> \E i \in DOMAIN quotes'[o] : quotes'[o][i].id = d
                      /\ step'[d] = "done" <=> versions'[d] # NoVersion
    BY <1>1 DEF CallsAreWhole, IsQuote, NoVersion, QuoteInv, RequestsAreSound, RequestIsSound
  <2>1. /\ step[d] = "done" <=> \E i \in DOMAIN quotes[o] : quotes[o][i].id = d
        /\ step[d] = "done" <=> versions[d] # NoVersion
    BY DEF BookInv, CallsAreWhole
  <2>2. CASE CommitEdit(c)
    BY <1>2, <1>3, <2>1, <2>2 DEF CommitEdit
  <2>3. CASE CommitQuote(c) /\ LineIsKept(c)
    <3>1. PICK p \in Opps, k \in Nat : p = ask[c].opp /\ k = Len(quotes[p])
      <4>1. ask[c].opp \in Opps
        BY <2>3 DEF CommitQuote, QuoteInv, RequestsAreSound, RequestIsSound
      <4>2. Len(quotes[ask[c].opp]) \in Nat
        BY <2>3, <4>1, QuoteMoves
      <4> QED
        BY <4>1, <4>2
    <3>2. /\ \A q \in Opps \ {p} : quotes'[q] = quotes[q]
          /\ DOMAIN quotes[p] = 1..k
          /\ DOMAIN quotes'[p] = DOMAIN quotes[p] \cup {k + 1}
          /\ \A i \in DOMAIN quotes[p] : quotes'[p][i] = quotes[p][i]
          /\ quotes'[p][k + 1].id = c
      <4>1. /\ \A q \in Opps \ {p} : quotes'[q] = quotes[q]
            /\ DOMAIN quotes[p] = 1..Len(quotes[p])
            /\ DOMAIN quotes'[p] = DOMAIN quotes[p] \cup {Len(quotes[p]) + 1}
            /\ \A i \in DOMAIN quotes[p] : quotes'[p][i] = quotes[p][i]
            /\ quotes'[p][Len(quotes[p]) + 1] =
                  [id |-> c, version |-> Len(quotes[p]) + 1, supersedes |-> LastId(p)]
        BY <2>3, <3>1, QuoteMoves
      <4> QED
        BY <3>1, <4>1
    <3>3. CASE d = c
      BY <1>2, <1>3, <3>1, <3>2, <3>3
    <3>4. CASE d # c
      <4>1. (\E i \in DOMAIN quotes'[o] : quotes'[o][i].id = d)
               <=> \E i \in DOMAIN quotes[o] : quotes[o][i].id = d
        <5>1. CASE o # p
          BY <3>2, <5>1
        <5>2. CASE o = p
          BY <3>1, <3>2, <3>4, <5>2
        <5> QED
          BY <5>1, <5>2
      <4> QED
        BY <1>2, <1>3, <2>1, <3>4, <4>1
    <3> QED
      BY <3>3, <3>4
  <2> QED
    BY <2>2, <2>3
<1> QED
  BY <1>2, <1>4, <1>5, <1>6 DEF BookInv

LEMMA NextKeepsBook == QuoteInv /\ BookInv /\ [Next]_vars => BookInv'
<1> SUFFICES ASSUME QuoteInv, BookInv, [Next]_vars PROVE BookInv'
  OBVIOUS
<1>1. ASSUME UNCHANGED vars \/ \E o \in Opps : Requalify(o) PROVE BookInv'
  <2>1. UNCHANGED <<quotes, versions, pointer, step, ask, base>>
    BY <1>1 DEF vars, Requalify, rows
  <2>2. VersionsAreGapless'
    <3>1. \A a \in Calls : VersionsOf(a)' = VersionsOf(a)
      BY <2>1 DEF VersionsOf
    <3>2. VersionsAreGapless
      BY DEF BookInv
    <3> QED
      BY <2>1, <3>1, <3>2 DEF VersionsAreGapless
  <2>3. CallsAreWhole' /\ ContentsAreOwn' /\ HoldersAreNew'
    BY <2>1, SMTT(20) DEF BookInv, CallsAreWhole, ContentsAreOwn, HoldersAreNew, IsQuote, Holds, NoVersion
  <2> QED
    BY <2>2, <2>3 DEF BookInv
<1>2. ASSUME NEW c \in Calls, Proceeds(c) PROVE BookInv'
  <2>1. CASE \/ Lock(c) \/ ReadDeal(c) \/ ReadLatest(c) \/ ReadArtifact(c)
             \/ CheckPointer(c) \/ InsertVersion(c) \/ AppendAudit(c)
    BY <2>1, CallsKeepBook
  <2>2. CASE CommitEdit(c) \/ (CommitQuote(c) /\ LineIsKept(c))
    BY <2>2, CommitKeepsBook
  <2>3. CASE CommitQuote(c) /\ ~LineIsKept(c)
    <3>1. /\ step[c] \notin {"new"} \cup Ended /\ UNCHANGED rows /\ ask' = ask
          /\ \A d \in Calls \ {c} : base'[d] = base[d]
      BY <2>3 DEF CommitQuote, Ended
    <3>2. PICK s \in Steps : s = "failed" /\ Goes(c, s)
      BY <2>3 DEF CommitQuote, Steps
    <3>3. s # "done" /\ s \notin {"inserted", "appended"}
      BY <3>2
    <3> QED
      BY <3>1, <3>2, <3>3, MarchKeepsBook
  <2> QED
    <3>1. CASE CommitEdit(c) \/ CommitQuote(c)
      BY <2>2, <2>3, <3>1 DEF LineIsKept
    <3> QED
      BY <1>2, <2>1, <3>1 DEF Proceeds
<1>3. ASSUME NEW c \in Calls, Asks(c) \/ Rollback(c) PROVE BookInv'
  BY <1>3, AsksKeepBook, CallsKeepBook
<1> QED
  BY <1>1, <1>2, <1>3 DEF Next

\* What the rows of artifacts and the answers to calls rest on holds of every reachable state.
THEOREM BookInvariant == Spec => []BookInv
<1> QED
  BY BookInvInit, NextKeepsBook, QuoteInvariant, PTL DEF Spec

\* The quotes of an opportunity stand in one artifact, whose versions are numbered without a gap
\* and up to the pointer, however quotes and edits race for it.
THEOREM ArtifactIsOne == Spec => []OneArtifact
<1>1. QuoteInv /\ BookInv => OneArtifact
  BY DEF QuoteInv, BookInv, OneArtifact
<1> QED
  BY <1>1, QuoteInvariant, BookInvariant, PTL

\* A quote, its version and its audit rows are there together or not at all, for the caller who is
\* told of them; the trail has each once and nothing that was rolled back.
THEOREM TrailIsTold == Spec => []TrailTellsQuotes
<1>1. QuoteInv /\ BookInv => TrailTellsQuotes
  BY DEF QuoteInv, BookInv, TrailTellsQuotes
<1> QED
  BY <1>1, QuoteInvariant, BookInvariant, PTL

\* A published version is never changed, and an artifact moves on only by a new one, however late a
\* call writes.
THEOREM VersionsStand == Spec => PublishedVersionsStand
<1>1. ASSUME QuoteInv, BookInv, [Next]_vars, NEW a \in Calls
      PROVE  /\ versions[a] # NoVersion => versions'[a] = versions[a]
             /\ pointer'[a] # pointer[a] => \E c \in Calls :
                   /\ versions[c] = NoVersion
                   /\ versions'[c].artifact = a
                   /\ versions'[c].number = pointer[a].revision + 1
                   /\ pointer'[a] = [version |-> c, revision |-> pointer[a].revision + 1]
  <2>1. \/ UNCHANGED <<versions, pointer>>
        \/ \E c \in Calls : step[c] = "appended" /\ Publish(c)
    BY <1>1, ZenonT(30) DEF Next, vars, rows, Requalify, Asks, AskQuote, AskEdit, Proceeds, Lock, ReadDeal,
                ReadLatest, ReadArtifact, CheckPointer, InsertVersion, AppendAudit, CommitEdit,
                CommitQuote, Rollback
  <2>2. ASSUME NEW c \in Calls, step[c] = "appended", Publish(c)
        PROVE  /\ versions[a] # NoVersion => versions'[a] = versions[a]
               /\ pointer'[a] # pointer[a] =>
                     /\ versions[c] = NoVersion
                     /\ versions'[c].artifact = a
                     /\ versions'[c].number = pointer[a].revision + 1
                     /\ pointer'[a] = [version |-> c, revision |-> pointer[a].revision + 1]
    <3>1. /\ versions[c] = NoVersion /\ base[c].artifact \in Calls
          /\ base[c].revision = pointer[base[c].artifact].revision
      BY <1>1, <2>2, VersionIsNew
    <3>2. /\ \A b \in Calls \ {base[c].artifact} : pointer'[b] = pointer[b]
          /\ pointer'[base[c].artifact] = [version |-> c, revision |-> base[c].revision + 1]
          /\ \A v \in Calls \ {c} : versions'[v] = versions[v]
          /\ versions'[c].artifact = base[c].artifact
          /\ versions'[c].number = base[c].revision + 1
      BY <1>1, <2>2, <3>1 DEF Publish, QuoteInv, TypeOK
    <3>3. CASE a = base[c].artifact
      BY <3>1, <3>2, <3>3
    <3>4. CASE a # base[c].artifact
      BY <3>1, <3>2, <3>4
    <3> QED
      BY <3>3, <3>4
  <2> QED
    BY <2>1, <2>2
<1>2. QuoteInv /\ BookInv /\ [Next]_vars =>
         [\A a \in Calls :
            /\ versions[a] # NoVersion => versions'[a] = versions[a]
            /\ pointer'[a] # pointer[a] => \E c \in Calls :
                  /\ versions[c] = NoVersion
                  /\ versions'[c].artifact = a
                  /\ versions'[c].number = pointer[a].revision + 1
                  /\ pointer'[a] = [version |-> c, revision |-> pointer[a].revision + 1]]_vars
  BY <1>1
<1> QED
  BY <1>2, QuoteInvariant, BookInvariant, PTL DEF Spec, PublishedVersionsStand

-----------------------------------------------------------------------------
(* The book *)

Entry == [id : Calls, expects : Calls \cup {Any}, hash : Calls \cup {Any}]

LEMMA SameLength == ASSUME NEW m \in Nat, NEW n \in Nat, 1..m = 1..n PROVE m = n
<1>1. (m # 0 => m \in 1..m) /\ (n # 0 => n \in 1..n)
  OBVIOUS
<1>2. (m # 0 => m <= n) /\ (n # 0 => n <= m)
  BY <1>1
<1> QED
  BY <1>2

\* The book of an opportunity is a sequence as long as the line of its quotes.
LEMMA BookIsLine ==
    ASSUME TypeOK, NEW o \in Opps
    PROVE  /\ BookOf(o) \in Seq(Entry) /\ Len(BookOf(o)) = Len(quotes[o])
           /\ DOMAIN BookOf(o) = DOMAIN quotes[o]
           /\ \A i \in DOMAIN quotes[o] : BookOf(o)[i] = EntryOf(quotes[o][i])
<1>1. PICK q \in Seq(Quote) : q = quotes[o]
  BY DEF TypeOK
<1>2. PICK l \in Nat : l = Len(q) /\ DOMAIN q = 1..l
  BY <1>1
<1>3. ASSUME NEW i \in 1..l PROVE EntryOf(q[i]) \in Entry
  <2>1. PICK r \in Quote : r = q[i]
    BY <1>2, <1>3
  <2>2. PICK k \in Request : k = ask[r.id]
    BY <2>1 DEF Quote, TypeOK
  <2> QED
    BY <2>1, <2>2 DEF EntryOf, Entry, Quote, Request
<1>4. BookOf(o) \in [1..l -> Entry]
  BY <1>1, <1>2, <1>3 DEF BookOf
<1>5. BookOf(o) \in Seq(Entry)
  BY <1>4
<1>6. DOMAIN BookOf(o) = 1..Len(BookOf(o)) /\ DOMAIN BookOf(o) = 1..l /\ Len(BookOf(o)) \in Nat
  BY <1>4, <1>5, LenProperties
<1>7. Len(BookOf(o)) = l
  BY <1>6, SameLength
<1> QED
  BY <1>1, <1>2, <1>5, <1>6, <1>7 DEF BookOf

\* A step of a request that adds no quote leaves its entries what they were: the request of a
\* quote that is in the book is never changed.
LEMMA BookStays ==
    ASSUME QuoteInv, UNCHANGED quotes,
           \A d \in Calls : step[d] = "done" => ask'[d] = ask[d]
    PROVE  UNCHANGED Book
<1> SUFFICES ASSUME NEW o \in Opps PROVE BookOf(o)' = BookOf(o)
  BY DEF Book
<1> SUFFICES ASSUME NEW i \in DOMAIN quotes[o] PROVE EntryOf(quotes[o][i])' = EntryOf(quotes[o][i])
  BY DEF BookOf
<1>1. PICK d \in Calls : d = quotes[o][i].id /\ step[d] = "done"
  BY QuotesAreRows DEF QuoteInv, QuotesAreOfCalls
<1> QED
  BY <1>1 DEF EntryOf

LEMMA CommitEnters ==
    ASSUME QuoteInv, NEW c \in Calls, CommitQuote(c), LineIsKept(c)
    PROVE  Abstract!Next
<1>1. PICK o \in Opps : o = ask[c].opp
  BY DEF CommitQuote, QuoteInv, RequestsAreSound, RequestIsSound
<1>2. PICK e \in Calls \cup {Any}, h \in Calls \cup {Any} : e = ask[c].expects /\ h = ask[c].hash
  BY DEF QuoteInv, TypeOK, Request
<1>3. PICK l \in Nat : l = Len(quotes[o])
  BY <1>1, QuoteMoves
<1>4. /\ Inside(c) /\ step[c] = "appended" /\ UNCHANGED ask
      /\ \A p \in Opps \ {o} : quotes'[p] = quotes[p]
      /\ DOMAIN quotes[o] = 1..l /\ DOMAIN quotes'[o] = DOMAIN quotes[o] \cup {l + 1}
      /\ \A i \in DOMAIN quotes[o] : quotes'[o][i] = quotes[o][i]
      /\ quotes'[o][l + 1].id = c
  <2>1. quotes'[o][l + 1] = [id |-> c, version |-> l + 1, supersedes |-> LastId(o)]
    BY <1>1, <1>3, QuoteMoves
  <2>2. /\ Inside(c) /\ step[c] = "appended" /\ UNCHANGED ask
        /\ \A p \in Opps \ {o} : quotes'[p] = quotes[p]
        /\ DOMAIN quotes[o] = 1..l /\ DOMAIN quotes'[o] = DOMAIN quotes[o] \cup {l + 1}
        /\ \A i \in DOMAIN quotes[o] : quotes'[o][i] = quotes[o][i]
    BY <1>1, <1>3, QuoteMoves
  <2> QED
    BY <2>1, <2>2
<1>5. \A p \in Opps : \A i \in DOMAIN quotes[p] : quotes[p][i].id # c
  BY <1>4, VersionIsNew
<1>6. ~ Abstract!InSomeBook(c)
  <2> SUFFICES ASSUME NEW p \in Opps, NEW i \in DOMAIN Book[p] PROVE Book[p][i].id # c
    BY DEF Abstract!InSomeBook
  <2>1. Book[p] = BookOf(p)
    BY DEF Book
  <2>2. i \in DOMAIN quotes[p] /\ BookOf(p)[i] = EntryOf(quotes[p][i])
    BY <2>1, BookIsLine DEF QuoteInv
  <2> QED
    BY <1>5, <2>1, <2>2 DEF EntryOf
<1>7. Abstract!LastOf(o) = LastId(o) /\ (Book[o] = <<>> <=> quotes[o] = <<>>)
  <2>1. quotes[o] \in Seq(Quote)
    BY DEF QuoteInv, TypeOK
  <2>2. /\ Book[o] = BookOf(o) /\ BookOf(o) \in Seq(Entry) /\ Len(BookOf(o)) = l
        /\ \A i \in DOMAIN quotes[o] : BookOf(o)[i] = EntryOf(quotes[o][i])
    BY <1>3, BookIsLine DEF Book, QuoteInv
  <2>3. CASE l = 0
    <3>1. quotes[o] = <<>> /\ BookOf(o) = <<>>
      <4>1. quotes[o] = <<>>
        BY <1>3, <2>1, <2>3, EmptySeq
      <4>2. BookOf(o) = <<>>
        BY <2>2, <2>3, EmptySeq
      <4> QED
        BY <4>1, <4>2
    <3> QED
      BY <2>2, <3>1 DEF Abstract!LastOf, LastId
  <2>4. CASE l # 0
    <3>1. quotes[o] # <<>> /\ BookOf(o) # <<>> /\ l \in DOMAIN quotes[o]
      <4>1. Len(<<>>) = 0
        BY EmptySeq
      <4> QED
        BY <1>3, <1>4, <2>2, <2>4, <4>1
    <3>2. BookOf(o)[l].id = quotes[o][l].id
      <4>1. BookOf(o)[l] = EntryOf(quotes[o][l])
        BY <2>2, <3>1
      <4> QED
        BY <4>1 DEF EntryOf
    <3> QED
      BY <1>3, <2>2, <3>1, <3>2 DEF Abstract!LastOf, LastId
  <2> QED
    BY <2>3, <2>4
<1>8. e \in {Any, LastId(o)} /\ (h \in {Any, LastId(o)} \/ quotes[o] = <<>>)
  BY <1>1, <1>2, <1>4 DEF QuoteInv, AllReadsStand, ReadsStand
<1>9. Book' = [Book EXCEPT ![o] = Append(@, [id |-> c, expects |-> e, hash |-> h])]
  <2>1. ASSUME NEW p \in Opps \ {o} PROVE BookOf(p)' = BookOf(p)
    BY <1>4, <2>1 DEF BookOf, EntryOf
  <2>2. BookOf(o)' = Append(BookOf(o), [id |-> c, expects |-> e, hash |-> h])
    <3>1. PICK f \in Seq(Entry) : f = BookOf(o)
      BY BookIsLine DEF QuoteInv
    <3>2. PICK x \in Entry : x = [id |-> c, expects |-> e, hash |-> h]
      BY DEF Entry
    <3>3. /\ Len(f) = l /\ DOMAIN f = 1..l /\ Len(Append(f, x)) = l + 1
          /\ Append(f, x)[l + 1] = x /\ \A i \in 1..l : Append(f, x)[i] = f[i]
          /\ Append(f, x) \in Seq(Entry)
      BY <1>3, <3>1, BookIsLine DEF QuoteInv
    <3>4. Append(f, x) \in [1..(l + 1) -> Entry]
      <4>1. PICK g : g = Append(f, x)
        OBVIOUS
      <4>2. g \in Seq(Entry) /\ Len(g) = l + 1
        BY <3>3, <4>1
      <4>3. g \in [1..Len(g) -> Entry]
        BY <4>2, LenProperties
      <4> QED
        BY <4>1, <4>2, <4>3
    <3>5. BookOf(o)' = [i \in 1..(l + 1) |-> EntryOf(quotes[o][i])']
      BY <1>4 DEF BookOf
    <3>6. \A i \in 1..l : EntryOf(quotes[o][i])' = f[i]
      BY <1>4, <3>1 DEF BookOf, EntryOf
    <3>7. EntryOf(quotes[o][l + 1])' = x
      BY <1>2, <1>4, <3>2 DEF EntryOf
    <3>8. \A i \in 1..(l + 1) : EntryOf(quotes[o][i])' = Append(f, x)[i]
      <4>1. \A i \in 1..(l + 1) : i \in 1..l \/ i = l + 1
        OBVIOUS
      <4> QED
        BY <3>3, <3>6, <3>7, <4>1
    <3> QED
      BY <3>1, <3>2, <3>4, <3>5, <3>8
  <2>3. Book[o] = BookOf(o)
    BY DEF Book
  <2> QED
    BY <2>1, <2>2, <2>3 DEF Book
<1>10. Abstract!Enter(o, c, e, h)
  BY <1>6, <1>7, <1>8, <1>9 DEF Abstract!Enter
<1> QED
  BY <1>10 DEF Abstract!Next

\* Calls of createQuoteVersion, each a transaction among others, add up to an append-only book in
\* which a caller who names the quote it builds on is put right behind that quote or not at all.
THEOREM CallsImplementQuoteBook == Spec => ImplementsQuoteBook
<1>1. Init => Abstract!Init
  BY DEF Init, Abstract!Init, Book, BookOf
<1>2. QuoteInv /\ [Next]_vars => [Abstract!Next]_Book
  <2> SUFFICES ASSUME QuoteInv, [Next]_vars PROVE Abstract!Next \/ UNCHANGED Book
    OBVIOUS
  <2>1. CASE UNCHANGED vars
    BY <2>1, BookStays DEF vars
  <2>2. ASSUME NEW o \in Opps, Requalify(o) PROVE UNCHANGED Book
    BY <2>2, BookStays DEF Requalify, rows
  <2>3. ASSUME NEW c \in Calls, Asks(c) PROVE UNCHANGED Book
    <3>1. quotes' = quotes /\ step[c] = "new" /\ \A d \in Calls \ {c} : ask'[d] = ask[d]
      BY <2>3 DEF Asks, AskQuote, AskEdit, rows, QuoteInv, TypeOK
    <3> QED
      BY <3>1, BookStays
  <2>4. ASSUME NEW c \in Calls, Proceeds(c) \/ Rollback(c), ~ CommitQuote(c)
        PROVE  UNCHANGED Book
    <3>1. quotes' = quotes /\ ask' = ask
      BY <2>4 DEF Proceeds, Lock, ReadDeal, ReadLatest, ReadArtifact, CheckPointer, InsertVersion,
                  AppendAudit, CommitEdit, Rollback, rows
    <3> QED
      BY <3>1, BookStays
  <2>5. ASSUME NEW c \in Calls, CommitQuote(c) PROVE Abstract!Next \/ UNCHANGED Book
    <3>1. CASE LineIsKept(c)
      BY <2>5, <3>1, CommitEnters
    <3>2. CASE ~ LineIsKept(c)
      <4>1. quotes' = quotes /\ ask' = ask
        BY <2>5, <3>2 DEF CommitQuote, rows
      <4> QED
        BY <4>1, BookStays
    <3> QED
      BY <3>1, <3>2
  <2> QED
    BY <2>1, <2>2, <2>3, <2>4, <2>5 DEF Next
<1> QED
  BY <1>1, <1>2, QuoteInvariant, PTL DEF Spec, ImplementsQuoteBook, Abstract!Spec
=============================================================================
