------------------------ MODULE ChannelTable_proofs ------------------------
(***************************************************************************)
(* Proof that the table of channels shows what its controls name, for any  *)
(* number of pages, filters, lists and operations.                         *)
(***************************************************************************)
EXTENDS ChannelTable, TLAPS

\* A load carries a number that was given out, and the kind of a list tells whether the
\* form was filled.
Numbered == \A q \in pending :
    /\ q.kind = "load" => q.id <= requestCounter
    /\ q.view.form = IF q.kind = "search" THEN "filled" ELSE "empty"

\* The answer of list q will show the view that is selected.
Fits(q) ==
    /\ q.view.filter = filter /\ q.view.form = form
    /\ IF q.kind = "search" THEN q.view.page # EventPage
       ELSE ServerPage(q.view.page) = activePage

\* What a choice that nothing has crossed relies on: every list that may still change
\* the table fits, all such lists are one request, and once there is none left the rows
\* are the right ones.
Crossed == clean =>
    /\ ops = {} /\ timer = {}
    /\ \A q \in pending : Applies(q) => Fits(q)
    /\ \A q, r \in pending : Applies(q) /\ Applies(r) => q.view = r.view
    /\ (\A q \in pending : ~Applies(q)) => channels = {Selected}

\* The inductive invariant.
TableInv == TypeOK /\ Numbered /\ Crossed

\* The conjuncts of TypeOK beside pending, requestCounter and clean.
ValuesOK ==
    /\ activePage \in AllPages /\ filter \in Filters /\ form \in Forms
    /\ channels \in SUBSET Views /\ queries \in Nat /\ ops \in SUBSET Ops
    /\ timer \in SUBSET [page : AllPages, filter : Filters] /\ faults \in Nat

FlagsOK == loading \in BOOLEAN /\ searching \in BOOLEAN /\ failed \in BOOLEAN

LEMMA InitTable == Init => TableInv
  <1> SUFFICES ASSUME Init PROVE TableInv
    OBVIOUS
  <1> DEFINE q0 == [kind |-> "load", view |-> [page |-> 1, filter |-> filter, form |-> "empty"],
                    id |-> 1, finally |-> FALSE, after |-> FALSE]
  <1>1. q0 \in Requests /\ pending = {q0}
    BY PagesAssumption DEF Init, Requests, Views, Forms, Kinds, AllPages
  <1>2. TypeOK
    BY <1>1, PagesAssumption DEF Init, TypeOK, AllPages, Forms, Views, Ops
  <1>3. Numbered
    BY <1>1 DEF Init, Numbered
  <1>4. Crossed
    BY <1>1 DEF Init, Crossed, Fits, Applies, ServerPage, EventPage
  <1> QED BY <1>2, <1>3, <1>4 DEF TableInv

-----------------------------------------------------------------------------
(* What sending a list does.                                               *)

\* A load that is sent is the one load that applies.
LEMMA LoadSent ==
    ASSUME TypeOK, Numbered, NEW page \in AllPages, NEW f \in Filters,
           NEW fin \in BOOLEAN, NEW aft \in BOOLEAN, SendLoad(page, f, fin, aft)
    PROVE  /\ pending' \in SUBSET Requests /\ requestCounter' \in Nat /\ Numbered'
           /\ \A q \in pending' : Applies(q)' /\ q.kind = "load" =>
                q.view = [page |-> page, filter |-> f, form |-> "empty"]
           /\ \E q \in pending' : Applies(q)'
           /\ \A q \in pending' : q \in pending \/ q.kind = "load"
  <1> DEFINE v == [page |-> page, filter |-> f, form |-> "empty"]
             new == [kind |-> "load", view |-> v, id |-> requestCounter + 1,
                     finally |-> fin, after |-> aft]
  <1>1. requestCounter \in Nat /\ pending \subseteq Requests
    BY DEF TypeOK
  <1>2. v \in Views
    BY DEF Views, Forms
  <1>3. new \in Requests
    BY <1>1, <1>2 DEF Requests, Kinds
  <1>4. pending' = pending \cup {new} /\ requestCounter' = requestCounter + 1
    BY DEF SendLoad
  <1>5. \A q \in pending : q.id \in Nat /\ (q.kind = "load" => q.id < requestCounter')
    BY <1>1, <1>4 DEF Numbered, Requests
  <1>6. Numbered'
    BY <1>1, <1>4, <1>5 DEF Numbered
  <1>7. \A q \in pending' : Applies(q)' /\ q.kind = "load" => q = new
    BY <1>4, <1>5, <1>1 DEF Applies
  <1>8. \E q \in pending' : Applies(q)'
    <2>1. new \in pending' /\ new.id = requestCounter'
      BY <1>4
    <2> HIDE DEF new
    <2> QED BY <2>1 DEF Applies
  <1>9. \A q \in pending' : Applies(q)' /\ q.kind = "load" => q.view = v
    BY <1>7
  <1>10. \A q \in pending' : q \in pending \/ q.kind = "load"
    BY <1>4
  <1>11. pending' \in SUBSET Requests /\ requestCounter' \in Nat
    BY <1>1, <1>3, <1>4
  <1> QED BY <1>6, <1>8, <1>9, <1>10, <1>11

\* A search that is sent applies, whatever else is awaited.
LEMMA SearchSent ==
    ASSUME TypeOK, Numbered, NEW page \in AllPages, NEW f \in Filters,
           NEW aft \in BOOLEAN, SendSearch(page, f, aft)
    PROVE  /\ pending' \in SUBSET Requests /\ requestCounter' \in Nat /\ Numbered'
           /\ pending = {} => \A q \in pending' :
                /\ q.kind = "search"
                /\ q.view = [page |-> page, filter |-> f, form |-> "filled"]
           /\ \E q \in pending' : Applies(q)'
  <1> DEFINE v == [page |-> page, filter |-> f, form |-> "filled"]
             new == [kind |-> "search", view |-> v, id |-> 0, finally |-> TRUE, after |-> aft]
  <1>1. requestCounter \in Nat /\ pending \subseteq Requests
    BY DEF TypeOK
  <1>2. v \in Views
    BY DEF Views, Forms
  <1>3. new \in Requests
    BY <1>2 DEF Requests, Kinds
  <1>4. pending' = pending \cup {new} /\ requestCounter' = requestCounter
    BY DEF SendSearch
  <1>5. Numbered'
    BY <1>4 DEF Numbered
  <1>6. \E q \in pending' : Applies(q)'
    <2>1. new \in pending' /\ new.kind = "search"
      BY <1>4
    <2> HIDE DEF new
    <2> QED BY <2>1 DEF Applies
  <1>7. pending = {} => \A q \in pending' : q.kind = "search" /\ q.view = v
    BY <1>4
  <1>8. pending' \in SUBSET Requests /\ requestCounter' \in Nat
    BY <1>1, <1>3, <1>4
  <1> QED BY <1>5, <1>6, <1>7, <1>8

\* The list that refresh, loadChannels or searchChannels sends for page and filters.
Sends(page, f) ==
    IF form = "filled" THEN \E after \in BOOLEAN : SendSearch(page, f, after)
    ELSE \E finally, after \in BOOLEAN : SendLoad(page, f, finally, after)

\* The step that sends it leaves the choice of this view uncrossed, if any.
Uncrossed(page, f) == clean' =>
    /\ ops' = {} /\ timer' = {} /\ form' = form /\ filter' = f
    /\ IF form = "filled" THEN pending = {} /\ page # EventPage
       ELSE /\ \A q \in pending : q.kind = "load"
            /\ ServerPage(page) = activePage'

\* A choice of a view that nothing crosses establishes the invariant.
LEMMA Chosen ==
    ASSUME TypeOK, Numbered, NEW page \in AllPages, NEW f \in Filters,
           Sends(page, f), Uncrossed(page, f)
    PROVE  pending' \in SUBSET Requests /\ requestCounter' \in Nat /\ Numbered' /\ Crossed'
  <1>1. CASE form = "filled"
    <2>1. PICK aft1 \in BOOLEAN : SendSearch(page, f, aft1)
      BY <1>1 DEF Sends
    <2>2. /\ pending' \in SUBSET Requests /\ requestCounter' \in Nat /\ Numbered'
          /\ pending = {} => \A q \in pending' :
                /\ q.kind = "search"
                /\ q.view = [page |-> page, filter |-> f, form |-> "filled"]
          /\ \E q \in pending' : Applies(q)'
      BY <2>1, SearchSent
    <2>3. Crossed'
      BY <1>1, <2>2 DEF Crossed, Fits, Uncrossed
    <2> QED BY <2>2, <2>3
  <1>2. CASE form = "empty"
    <2>1. PICK fin \in BOOLEAN, aft2 \in BOOLEAN : SendLoad(page, f, fin, aft2)
      BY <1>2 DEF Sends
    <2>2. /\ pending' \in SUBSET Requests /\ requestCounter' \in Nat /\ Numbered'
          /\ \A q \in pending' : Applies(q)' /\ q.kind = "load" =>
                q.view = [page |-> page, filter |-> f, form |-> "empty"]
          /\ \E q \in pending' : Applies(q)'
          /\ \A q \in pending' : q \in pending \/ q.kind = "load"
      BY <2>1, LoadSent
    <2>3. Crossed'
      BY <1>2, <2>2 DEF Crossed, Fits, Uncrossed
    <2> QED BY <2>2, <2>3
  <1> QED BY <1>1, <1>2 DEF TypeOK, Forms

-----------------------------------------------------------------------------
(* The controls choose a view.                                             *)

LEMMA ControlsStep ==
    ASSUME TableInv
    PROVE  /\ \A page \in Pages : HandlePageChange(page) => TableInv'
           /\ \A f \in Filters : HandlePageSizeChange(f) => TableInv'
           /\ \A f \in Filters : Narrow(f) => TableInv'
           /\ \A f \in Filters : Sort(f) => TableInv'
           /\ Submit => TableInv'
           /\ RefreshButton => TableInv'
  <1> USE DEF TableInv
  <1>1. ASSUME NEW page \in Pages, HandlePageChange(page) PROVE TableInv'
    <2>f. PICK f \in Filters : f = filter
      BY DEF TypeOK
    <2>1. Sends(page, f)
      BY <1>1, <2>f DEF HandlePageChange, Refresh, Sends
    <2>2. Uncrossed(page, f)
      BY <1>1, <2>f, PagesAssumption DEF HandlePageChange, Uncrossed, Undisturbed, ServerPage, EventPage
    <2>3. page \in AllPages
      BY PagesAssumption DEF AllPages
    <2>4. pending' \in SUBSET Requests /\ requestCounter' \in Nat /\ Numbered' /\ Crossed'
      BY <2>1, <2>2, <2>3, Chosen
    <2>5. ValuesOK'
      BY <1>1, PagesAssumption DEF ValuesOK, TypeOK, AllPages, HandlePageChange, Refresh
    <2>6. FlagsOK'
      BY <1>1 DEF FlagsOK, TypeOK, HandlePageChange, Refresh
    <2>7. clean' \in BOOLEAN
      BY <1>1 DEF HandlePageChange, Refresh, Undisturbed
    <2> QED BY <2>4, <2>5, <2>6, <2>7 DEF TypeOK, ValuesOK, FlagsOK
  <1>2. ASSUME NEW f \in Filters, HandlePageSizeChange(f) PROVE TableInv'
    <2>1. Sends(1, f)
      BY <1>2 DEF HandlePageSizeChange, Refresh, Sends
    <2>2. Uncrossed(1, f)
      BY <1>2, PagesAssumption DEF HandlePageSizeChange, Uncrossed, Undisturbed, ServerPage, EventPage
    <2>3. 1 \in AllPages
      BY PagesAssumption DEF AllPages
    <2>4. pending' \in SUBSET Requests /\ requestCounter' \in Nat /\ Numbered' /\ Crossed'
      BY <2>1, <2>2, <2>3, Chosen
    <2>5. ValuesOK'
      BY <1>2, PagesAssumption DEF ValuesOK, TypeOK, AllPages, HandlePageSizeChange, Refresh
    <2>6. FlagsOK'
      BY <1>2 DEF FlagsOK, TypeOK, HandlePageSizeChange, Refresh
    <2>7. clean' \in BOOLEAN
      BY <1>2 DEF HandlePageSizeChange, Refresh, Undisturbed
    <2> QED BY <2>4, <2>5, <2>6, <2>7 DEF TypeOK, ValuesOK, FlagsOK
  <1>3. ASSUME NEW f \in Filters, Narrow(f) PROVE TableInv'
    <2>1. Sends(1, f)
      BY <1>3 DEF Narrow, LoadChannels, Sends
    <2>2. Uncrossed(1, f)
      BY <1>3, PagesAssumption DEF Narrow, Uncrossed, Undisturbed, ServerPage, EventPage
    <2>3. 1 \in AllPages
      BY PagesAssumption DEF AllPages
    <2>4. pending' \in SUBSET Requests /\ requestCounter' \in Nat /\ Numbered' /\ Crossed'
      BY <2>1, <2>2, <2>3, Chosen
    <2>5. ValuesOK'
      BY <1>3, PagesAssumption DEF ValuesOK, TypeOK, AllPages, Narrow, LoadChannels
    <2>6. FlagsOK'
      BY <1>3 DEF FlagsOK, TypeOK, Narrow, LoadChannels
    <2>7. clean' \in BOOLEAN
      BY <1>3 DEF Narrow, LoadChannels, Undisturbed
    <2> QED BY <2>4, <2>5, <2>6, <2>7 DEF TypeOK, ValuesOK, FlagsOK
  <1>4. ASSUME NEW f \in Filters, Sort(f) PROVE TableInv'
    <2>p. PICK page \in AllPages : page = activePage
      BY DEF TypeOK
    <2>1. Sends(page, f)
      BY <1>4, <2>p DEF Sort, Refresh, Sends
    <2>2. Uncrossed(page, f)
      BY <1>4, <2>p, PagesAssumption DEF Sort, Uncrossed, Undisturbed, ServerPage, EventPage
    <2>3. page \in AllPages
      BY PagesAssumption DEF AllPages
    <2>4. pending' \in SUBSET Requests /\ requestCounter' \in Nat /\ Numbered' /\ Crossed'
      BY <2>1, <2>2, <2>3, Chosen
    <2>5. ValuesOK'
      BY <1>4, PagesAssumption DEF ValuesOK, TypeOK, AllPages, Sort, Refresh
    <2>6. FlagsOK'
      BY <1>4 DEF FlagsOK, TypeOK, Sort, Refresh
    <2>7. clean' \in BOOLEAN
      BY <1>4 DEF Sort, Refresh, Undisturbed
    <2> QED BY <2>4, <2>5, <2>6, <2>7 DEF TypeOK, ValuesOK, FlagsOK
  <1>5. ASSUME Submit PROVE TableInv'
    <2>f. PICK f \in Filters : f = filter
      BY DEF TypeOK
    <2>1. Sends(1, f)
      BY <1>5, <2>f DEF Submit, SearchChannels, controls, Sends
    <2>2. Uncrossed(1, f)
      BY <1>5, <2>f, PagesAssumption DEF Submit, controls, Uncrossed, Undisturbed, ServerPage, EventPage
    <2>3. 1 \in AllPages
      BY PagesAssumption DEF AllPages
    <2>4. pending' \in SUBSET Requests /\ requestCounter' \in Nat /\ Numbered' /\ Crossed'
      BY <2>1, <2>2, <2>3, Chosen
    <2>5. ValuesOK'
      BY <1>5, PagesAssumption DEF ValuesOK, TypeOK, AllPages, Submit, SearchChannels, controls
    <2>6. FlagsOK'
      BY <1>5 DEF FlagsOK, TypeOK, Submit, SearchChannels, controls
    <2>7. clean' \in BOOLEAN
      BY <1>5 DEF Submit, SearchChannels, controls, Undisturbed
    <2> QED BY <2>4, <2>5, <2>6, <2>7 DEF TypeOK, ValuesOK, FlagsOK
  <1>6. ASSUME RefreshButton PROVE TableInv'
    <2>f. PICK f \in Filters : f = filter
      BY DEF TypeOK
    <2>1. Sends(EventPage, f)
      BY <1>6, <2>f DEF RefreshButton, Refresh, controls, Sends
    <2>2. Uncrossed(EventPage, f)
      BY <1>6, <2>f, PagesAssumption DEF RefreshButton, controls, Uncrossed, Undisturbed, ServerPage, EventPage
    <2>3. EventPage \in AllPages
      BY PagesAssumption DEF AllPages
    <2>4. pending' \in SUBSET Requests /\ requestCounter' \in Nat /\ Numbered' /\ Crossed'
      BY <2>1, <2>2, <2>3, Chosen
    <2>5. ValuesOK'
      BY <1>6, PagesAssumption DEF ValuesOK, TypeOK, AllPages, RefreshButton, Refresh, controls
    <2>6. FlagsOK'
      BY <1>6 DEF FlagsOK, TypeOK, RefreshButton, Refresh, controls
    <2>7. clean' \in BOOLEAN
      BY <1>6 DEF RefreshButton, Refresh, controls, Undisturbed
    <2> QED BY <2>4, <2>5, <2>6, <2>7 DEF TypeOK, ValuesOK, FlagsOK
  <1> QED BY <1>1, <1>2, <1>3, <1>4, <1>5, <1>6

-----------------------------------------------------------------------------
(* The form, the timer and the operations.                                 *)

LEMMA FormStep ==
    ASSUME TableInv
    PROVE  /\ EditForm => TableInv'
           /\ Reset => TableInv'
           /\ ResetTimer => TableInv'
  <1> USE DEF TableInv
  <1>1. ASSUME EditForm PROVE TableInv'
    <2>1. ValuesOK' /\ FlagsOK' /\ clean' = FALSE
      BY <1>1 DEF ValuesOK, FlagsOK, TypeOK, EditForm, list
    <2>2. pending' = pending /\ requestCounter' = requestCounter
      BY <1>1 DEF EditForm, list
    <2> QED BY <2>1, <2>2 DEF TypeOK, ValuesOK, FlagsOK, Numbered, Crossed
  <1>2. ASSUME Reset PROVE TableInv'
    <2>1. ValuesOK' /\ FlagsOK' /\ clean' = FALSE
      BY <1>2 DEF ValuesOK, FlagsOK, TypeOK, Reset, list, Forms
    <2>2. pending' = pending /\ requestCounter' = requestCounter
      BY <1>2 DEF Reset, list
    <2> QED BY <2>1, <2>2 DEF TypeOK, ValuesOK, FlagsOK, Numbered, Crossed
  <1>3. ASSUME ResetTimer PROVE TableInv'
    <2>c. PICK c \in timer :
             /\ Refresh(c.page, c.filter, FALSE)
             /\ clean' = (/\ ops = {} /\ form = "empty" /\ c.page = activePage
                           /\ c.filter = filter /\ c.page # EventPage
                           /\ \A q \in pending : q.kind = "load")
      BY <1>3 DEF ResetTimer
    <2>3. c.page \in AllPages /\ c.filter \in Filters
      BY DEF TypeOK
    <2>1. Sends(c.page, c.filter)
      BY <2>c DEF Refresh, Sends
    <2>2. Uncrossed(c.page, c.filter)
      BY <1>3, <2>c, <2>3 DEF ResetTimer, controls, Uncrossed, ServerPage
    <2>4. pending' \in SUBSET Requests /\ requestCounter' \in Nat /\ Numbered' /\ Crossed'
      BY <2>1, <2>2, <2>3, Chosen
    <2>5. ValuesOK'
      BY <1>3, <2>c DEF ValuesOK, TypeOK, ResetTimer, Refresh, controls
    <2>6. FlagsOK'
      BY <1>3, <2>c DEF FlagsOK, TypeOK, ResetTimer, Refresh
    <2>7. clean' \in BOOLEAN
      BY <2>c
    <2> QED BY <2>4, <2>5, <2>6, <2>7 DEF TypeOK, ValuesOK, FlagsOK
  <1> QED BY <1>1, <1>2, <1>3

LEMMA OpStep ==
    ASSUME TableInv
    PROVE  /\ \A kind \in OpKinds : StartOp(kind) => TableInv'
           /\ \A o \in ops : OpDone(o) => TableInv'
           /\ \A o \in ops : OpRefused(o) => TableInv'
           /\ \A o \in ops : OpFails(o) => TableInv'
  <1> USE DEF TableInv
  <1>1. ASSUME NEW kind \in OpKinds, StartOp(kind) PROVE TableInv'
    <2>1. PICK n \in 1 .. MaxOps :
             ops' = ops \cup {[n |-> n, kind |-> kind, rows |-> channels, page |-> activePage,
                               filter |-> filter]}
      BY <1>1 DEF StartOp
    <2>2. ops' \in SUBSET Ops
      BY <2>1 DEF TypeOK, Ops
    <2>3. ValuesOK'
      BY <1>1, <2>2 DEF ValuesOK, TypeOK, StartOp, controls
    <2>4. FlagsOK' /\ clean' = FALSE
      BY <1>1 DEF FlagsOK, TypeOK, StartOp
    <2>5. pending' = pending /\ requestCounter' = requestCounter
      BY <1>1 DEF StartOp
    <2> QED BY <2>3, <2>4, <2>5 DEF TypeOK, ValuesOK, FlagsOK, Numbered, Crossed
  <1>2. ASSUME NEW o \in ops, OpDone(o) PROVE TableInv'
    <2>1. o.page \in AllPages /\ o.filter \in Filters /\ o.rows \in SUBSET Views
      BY DEF TypeOK, Ops
    <2>2. ValuesOK'
      <3>1. queries' \in Nat
        <4>1. CASE o.kind # "row"
          <5>1. queries' = queries + 1
            BY <1>2, <4>1 DEF OpDone, Refresh
          <5> QED BY <5>1 DEF TypeOK
        <4>2. CASE o.kind = "row"
          <5>1. queries' = queries
            BY <1>2, <4>2 DEF OpDone
          <5> QED BY <5>1 DEF TypeOK
        <4> QED BY <4>1, <4>2
      <3>2. channels' \in SUBSET Views /\ ops' \in SUBSET Ops /\ faults' \in Nat
        BY <1>2, <2>1 DEF TypeOK, OpDone
      <3>3. activePage' = activePage /\ filter' = filter /\ form' = form /\ timer' = timer
        BY <1>2 DEF OpDone, controls
      <3> QED BY <3>1, <3>2, <3>3 DEF ValuesOK, TypeOK
    <2>3. FlagsOK' /\ clean' = FALSE
      BY <1>2 DEF FlagsOK, TypeOK, OpDone, Refresh
    <2>4. pending' \in SUBSET Requests /\ requestCounter' \in Nat /\ Numbered' /\ Crossed'
      <3>1. CASE o.kind = "row"
        BY <1>2, <3>1, <2>3 DEF OpDone, TypeOK, Numbered, Crossed
      <3>2. CASE o.kind # "row"
        <4>1. Sends(o.page, o.filter)
          BY <1>2, <3>2 DEF OpDone, Refresh, Sends
        <4>2. Uncrossed(o.page, o.filter)
          BY <2>3 DEF Uncrossed
        <4> QED BY <4>1, <4>2, <2>1, Chosen
      <3> QED BY <3>1, <3>2
    <2> QED BY <2>2, <2>3, <2>4 DEF TypeOK, ValuesOK, FlagsOK
  <1>3. ASSUME NEW o \in ops, OpRefused(o) PROVE TableInv'
    <2>1. o.page \in AllPages /\ o.filter \in Filters
      BY DEF TypeOK, Ops
    <2>2. ValuesOK'
      <3>1. queries' \in Nat
        <4>1. CASE o.kind = "delete"
          <5>1. queries' = queries + 1
            BY <1>3, <4>1 DEF OpRefused, Refresh
          <5> QED BY <5>1 DEF TypeOK
        <4>2. CASE o.kind # "delete"
          <5>1. queries' = queries
            BY <1>3, <4>2 DEF OpRefused
          <5> QED BY <5>1 DEF TypeOK
        <4> QED BY <4>1, <4>2
      <3>2. channels' \in SUBSET Views /\ ops' \in SUBSET Ops /\ faults' \in Nat
        BY <1>3, <2>1 DEF TypeOK, OpRefused
      <3>3. activePage' = activePage /\ filter' = filter /\ form' = form /\ timer' = timer
        BY <1>3 DEF OpRefused, controls
      <3> QED BY <3>1, <3>2, <3>3 DEF ValuesOK, TypeOK
    <2>3. FlagsOK' /\ clean' = FALSE
      <3>1. CASE o.kind = "delete"
        BY <1>3, <3>1 DEF FlagsOK, TypeOK, OpRefused, Refresh
      <3>2. CASE o.kind # "delete"
        <4>1. loading' \in BOOLEAN
          BY <1>3, <3>2 DEF OpRefused
        <4> QED BY <1>3, <3>2, <4>1 DEF FlagsOK, TypeOK, OpRefused
      <3> QED BY <3>1, <3>2
    <2>4. pending' \in SUBSET Requests /\ requestCounter' \in Nat /\ Numbered' /\ Crossed'
      <3>1. CASE o.kind # "delete"
        BY <1>3, <3>1, <2>3 DEF OpRefused, TypeOK, Numbered, Crossed
      <3>2. CASE o.kind = "delete"
        <4>1. Sends(o.page, o.filter)
          BY <1>3, <3>2 DEF OpRefused, Refresh, Sends
        <4>2. Uncrossed(o.page, o.filter)
          BY <2>3 DEF Uncrossed
        <4> QED BY <4>1, <4>2, <2>1, Chosen
      <3> QED BY <3>1, <3>2
    <2> QED BY <2>2, <2>3, <2>4 DEF TypeOK, ValuesOK, FlagsOK
  <1>4. ASSUME NEW o \in ops, OpFails(o) PROVE TableInv'
    <2>1. ValuesOK' /\ FlagsOK'
      BY <1>4 DEF ValuesOK, FlagsOK, TypeOK, OpFails, controls, list
    <2>2. pending' = pending /\ requestCounter' = requestCounter /\ clean' = clean
      BY <1>4 DEF OpFails, list
    <2>3. ~clean
      BY DEF Crossed
    <2>4. TypeOK' /\ Numbered'
      BY <2>1, <2>2 DEF TypeOK, ValuesOK, FlagsOK, Numbered
    <2>5. Crossed'
      BY <2>2, <2>3 DEF Crossed
    <2> QED BY <2>4, <2>5
  <1> QED BY <1>1, <1>2, <1>3, <1>4

-----------------------------------------------------------------------------
(* The answers.                                                            *)

\* Lists that are no longer awaited take nothing from the numbering.
LEMMA FewerPending ==
    ASSUME TypeOK, Numbered, NEW shared, pending' = pending \ shared,
           requestCounter' = requestCounter
    PROVE  /\ pending' \in SUBSET Requests /\ requestCounter' \in Nat /\ Numbered'
           /\ \A q : Applies(q)' <=> Applies(q)
  BY DEF TypeOK, Numbered, Applies

\* Every list that applies is answered together with this one, if this one applies.
LEMMA OneRequest ==
    ASSUME TypeOK, Numbered, Crossed, clean, NEW kind, NEW view,
           NEW q \in Awaiting(kind, view), Applies(q),
           NEW r \in pending, Applies(r)
    PROVE  r \in Awaiting(kind, view)
  <1>1. q \in pending /\ q.kind = kind /\ q.view = view
    BY DEF Awaiting
  <1>2. r.view = view /\ r.view.form = q.view.form
    BY <1>1 DEF Crossed
  <1>3. r.kind \in Kinds /\ q.kind \in Kinds
    BY <1>1 DEF TypeOK, Requests
  <1>4. r.kind = q.kind
    BY <1>1, <1>2, <1>3 DEF Numbered, Kinds
  <1> QED BY <1>1, <1>2, <1>4 DEF Awaiting

LEMMA AnswerStep ==
    ASSUME TableInv, NEW kind \in Kinds, NEW view \in Views
    PROVE  /\ Answer(kind, view) => TableInv'
           /\ AnswerRefused(kind, view) => TableInv'
           /\ AnswerFails(kind, view) => TableInv'
  <1> USE DEF TableInv
  <1> DEFINE shared == Awaiting(kind, view)
  <1>1. ASSUME Answer(kind, view) PROVE TableInv'
    <2>1. pending' = pending \ shared /\ requestCounter' = requestCounter
      BY <1>1 DEF Answer
    <2>2. /\ pending' \in SUBSET Requests /\ requestCounter' \in Nat /\ Numbered'
          /\ \A q : Applies(q)' <=> Applies(q)
      BY <2>1, FewerPending
    <2>3. [view EXCEPT !.page = ServerPage(@)] \in Views
      BY PagesAssumption DEF Views, AllPages, ServerPage
    <2>4. ValuesOK'
      BY <1>1, <2>3 DEF Answer, ValuesOK, TypeOK, Views
    <2>5. FlagsOK' /\ clean' = clean
      BY <1>1 DEF Answer, FlagsOK, TypeOK
    <2>6. filter' = filter /\ form' = form /\ ops' = ops /\ timer' = timer
      BY <1>1 DEF Answer
    <2>7. ASSUME clean PROVE Crossed'
      <3>1. CASE \E q \in shared : Applies(q)
        <4>1. PICK q \in shared : Applies(q)
          BY <3>1
        <4>2. q \in pending /\ q.kind = kind /\ q.view = view
          BY DEF Awaiting
        <4>3. \A r \in pending' : ~Applies(r)
          BY <2>1, <2>7, <4>1, OneRequest
        <4>4. view.filter = filter /\ view.form = form
          BY <2>7, <4>1, <4>2 DEF Crossed, Fits
        <4>5. ServerPage(view.page) = activePage'
          <5>1. CASE kind = "search"
            <6>1. activePage' = view.page /\ view.page # EventPage
              BY <1>1, <2>7, <5>1, <4>1, <4>2 DEF Answer, Crossed, Fits
            <6> QED BY <6>1 DEF ServerPage
          <5>2. CASE kind # "search"
            BY <1>1, <2>7, <5>2, <4>1, <4>2 DEF Answer, Crossed, Fits
          <5> QED BY <5>1, <5>2
        <4>6. channels' = {[view EXCEPT !.page = ServerPage(@)]}
          BY <1>1, <3>1 DEF Answer
        <4>7. [view EXCEPT !.page = ServerPage(@)] = Selected'
          BY <4>4, <4>5, <2>6 DEF Views, Selected
        <4> QED BY <4>3, <4>6, <4>7, <2>2, <2>6, <2>7 DEF Crossed
      <3>2. CASE \A q \in shared : ~Applies(q)
        <4>1. kind # "search"
          BY <1>1, <3>2 DEF Answer, Awaiting, Applies
        <4>2. activePage' = activePage /\ channels' = channels
          BY <1>1, <3>2, <4>1 DEF Answer
        <4>3. \A q \in pending : Applies(q) => q \in pending'
          BY <2>1, <3>2
        <4>4. \A q \in pending' : q \in pending
          BY <2>1
        <4> QED BY <4>2, <4>3, <4>4, <2>2, <2>6, <2>7 DEF Crossed, Fits, Selected
      <3> QED BY <3>1, <3>2
    <2>8. Crossed'
      BY <2>5, <2>7 DEF Crossed
    <2>9. TypeOK'
      BY <2>2, <2>4, <2>5 DEF TypeOK, ValuesOK, FlagsOK
    <2> QED BY <2>2, <2>8, <2>9
  <1>2. ASSUME AnswerRefused(kind, view) PROVE TableInv'
    <2>1. pending' = pending \ shared /\ requestCounter' = requestCounter
      BY <1>2 DEF AnswerRefused
    <2>2. /\ pending' \in SUBSET Requests /\ requestCounter' \in Nat /\ Numbered'
          /\ \A q : Applies(q)' <=> Applies(q)
      BY <2>1, FewerPending
    <2>3. ValuesOK'
      BY <1>2 DEF AnswerRefused, ValuesOK, TypeOK, controls
    <2>4. FlagsOK'
      BY <1>2 DEF AnswerRefused, FlagsOK, TypeOK
    <2>5. clean' = (clean /\ \A q \in shared : ~Applies(q))
      BY <1>2 DEF AnswerRefused
    <2>6. /\ activePage' = activePage /\ filter' = filter /\ form' = form
          /\ channels' = channels /\ ops' = ops /\ timer' = timer
      BY <1>2 DEF AnswerRefused, controls
    <2>7. ASSUME clean, \A q \in shared : ~Applies(q) PROVE Crossed'
      <3>1. \A q \in pending : Applies(q) => q \in pending'
        BY <2>1, <2>7
      <3>2. \A q \in pending' : q \in pending
        BY <2>1
      <3> QED BY <3>1, <3>2, <2>2, <2>6, <2>7 DEF Crossed, Fits, Selected
    <2>8. Crossed'
      BY <2>5, <2>7 DEF Crossed
    <2>9. TypeOK'
      BY <2>2, <2>3, <2>4, <2>5 DEF TypeOK, ValuesOK, FlagsOK
    <2> QED BY <2>2, <2>8, <2>9
  <1>3. ASSUME AnswerFails(kind, view) PROVE TableInv'
    <2>1. pending' = pending \ shared /\ requestCounter' = requestCounter
      BY <1>3 DEF AnswerFails
    <2>2. /\ pending' \in SUBSET Requests /\ requestCounter' \in Nat /\ Numbered'
          /\ \A q : Applies(q)' <=> Applies(q)
      BY <2>1, FewerPending
    <2>3. ValuesOK'
      BY <1>3 DEF AnswerFails, ValuesOK, TypeOK, controls
    <2>4. FlagsOK'
      BY <1>3 DEF AnswerFails, FlagsOK, TypeOK
    <2>5. clean' = (clean /\ \A q \in shared : ~Applies(q))
      BY <1>3 DEF AnswerFails
    <2>6. /\ activePage' = activePage /\ filter' = filter /\ form' = form
          /\ channels' = channels /\ ops' = ops /\ timer' = timer
      BY <1>3 DEF AnswerFails, controls
    <2>7. ASSUME clean, \A q \in shared : ~Applies(q) PROVE Crossed'
      <3>1. \A q \in pending : Applies(q) => q \in pending'
        BY <2>1, <2>7
      <3>2. \A q \in pending' : q \in pending
        BY <2>1
      <3> QED BY <3>1, <3>2, <2>2, <2>6, <2>7 DEF Crossed, Fits, Selected
    <2>8. Crossed'
      BY <2>5, <2>7 DEF Crossed
    <2>9. TypeOK'
      BY <2>2, <2>3, <2>4, <2>5 DEF TypeOK, ValuesOK, FlagsOK
    <2> QED BY <2>2, <2>8, <2>9
  <1> QED BY <1>1, <1>2, <1>3

-----------------------------------------------------------------------------
(* The theorems.                                                           *)

\* Every step of the table page keeps the inductive invariant.
LEMMA NextTable == TableInv /\ [Next]_vars => TableInv'
  <1> SUFFICES ASSUME TableInv, [Next]_vars PROVE TableInv'
    OBVIOUS
  <1>1. CASE \E page \in Pages : HandlePageChange(page)
    BY <1>1, ControlsStep
  <1>2. CASE \E f \in Filters : HandlePageSizeChange(f) \/ Narrow(f) \/ Sort(f)
    BY <1>2, ControlsStep
  <1>3. CASE Submit \/ RefreshButton
    BY <1>3, ControlsStep
  <1>4. CASE EditForm \/ Reset \/ ResetTimer
    BY <1>4, FormStep
  <1>5. CASE \E kind \in OpKinds : StartOp(kind)
    BY <1>5, OpStep
  <1>6. CASE OpAnswers
    BY <1>6, OpStep DEF OpAnswers
  <1>7. CASE Answers
    BY <1>7, AnswerStep DEF Answers
  <1>8. CASE UNCHANGED vars
    BY <1>8 DEF vars, controls, list, TableInv, TypeOK, Numbered, Crossed, Fits, Applies, Selected
  <1> QED BY <1>1, <1>2, <1>3, <1>4, <1>5, <1>6, <1>7, <1>8 DEF Next

\* Numbering the loads keeps every load but the newest from changing the table, whatever
\* the order of the answers and however many pages, filters and lists there are.
THEOREM TableInvariant == Spec => []TableInv
  <1>1. Init => TableInv
    BY InitTable
  <1>2. TableInv /\ [Next]_vars => TableInv'
    BY NextTable
  <1> QED BY <1>1, <1>2, PTL DEF Spec

\* Once all lists are answered the table shows what pager, filters and form name, unless
\* a search, an operation or a failure has crossed the choice (loadChannels).
THEOREM TableShowsSelection == Spec => []ShowsSelection
  <1>1. TableInv => ShowsSelection
    BY DEF TableInv, Crossed, ShowsSelection
  <1> QED BY <1>1, TableInvariant, PTL
=============================================================================
