---------------------------- MODULE ReleaseProofs ----------------------------
(***************************************************************************)
(* Proofs about the release switch: what a script still has to write, and  *)
(* what it may do to the line of releases.                                 *)
(***************************************************************************)
EXTENDS ReleaseSwitch, SequenceTheorems, TLAPS

-----------------------------------------------------------------------------
(* The release switch.                                                      *)

Values == Releases \cup {Absent}

Docs == [first : Values, line : Seq(Values) \ {<<>>}]
Markers == [origin : Docs, established : BOOLEAN]
Intents == [base : Nat, from : Values, to : Values]

Kinds == {"portal", "backend"}
Files == {"portal", "portalMarker", "backend", "backendMarker", "intent"}

ContentOf(f) ==
    {Absent} \cup (IF f \in Kinds THEN Docs ELSE IF f = "intent" THEN Intents ELSE Markers)

Contents == {Absent} \cup Docs \cup Markers \cup Intents

Writes == {w \in [file : Files, content : Contents] : w.content \in ContentOf(w.file)}

ScriptSteps == {"check", "verify", "install", "migrations", "record", "installed", "begin",
                "up", "probe", "complete", "restore", "abort", "live", "done"}

SwitchTypeOK ==
    /\ DOMAIN disk = Files /\ \A f \in Files : disk[f] \in ContentOf(f)
    /\ \A k \in Kinds : legacy[k] \in Docs \cup {Absent}
    /\ script = NoScript
          \/ script \in [name : {"release", "rollback", "recover", "install"}, release : Values,
                         step : ScriptSteps, writes : Seq(Writes)]
    /\ container \in [release : Values, status : {"up", "down", "stopped"}]

(* Of the writes a script has yet to make at most one is of the Portal's    *)
(* document; no marker before it is an established one; and once the marker *)
(* of the host is, it adds one release to the line that is there.           *)
Extends(d, e) == d # Absent /\ e.first = d.first /\ Front(e.line) = d.line

LinePlanned(ws) ==
    \A i \in 1 .. Len(ws) : ws[i].file = "portal" =>
        /\ \A k \in 1 .. Len(ws) : ws[k].file = "portal" => k = i
        /\ \A k \in 1 .. Len(ws) : k < i /\ ws[k].file = "portalMarker"
              => ws[k].content = Absent \/ ~ws[k].content.established
        /\ Established("portal") => Extends(disk.portal, ws[i].content)

LineInv == SwitchTypeOK /\ (script # NoScript => LinePlanned(script.writes))

Aside(ws) == \A i \in 1 .. Len(ws) : ws[i].file # "portal"

Unestablishing(ws) ==
    \A i \in 1 .. Len(ws) : ws[i].file = "portalMarker"
        => ws[i].content = Absent \/ ~ws[i].content.established

LEMMA PutFileIs ==
  ASSUME NEW f \in Files, NEW c \in ContentOf(f)
  PROVE  /\ PutFile(f, c) \in Seq(Writes) /\ Len(PutFile(f, c)) = 1
         /\ PutFile(f, c)[1].file = f /\ PutFile(f, c)[1].content = c
<1>1. PICK w : w = [file |-> f, content |-> c]
  OBVIOUS
<1>2. c \in Contents
  BY DEF ContentOf, Contents
<1>3. w \in Writes
  BY <1>1, <1>2 DEF Writes
<1>4. PutFile(f, c) = <<w>>
  BY <1>1 DEF PutFile
<1> QED
  BY <1>1, <1>3, <1>4

LEMMA Joined ==
  ASSUME NEW s \in Seq(Writes), NEW t \in Seq(Writes)
  PROVE  /\ s \o t \in Seq(Writes) /\ Len(s \o t) = Len(s) + Len(t)
         /\ Len(s) \in Nat /\ Len(t) \in Nat
         /\ \A i \in 1 .. Len(s) + Len(t) :
              (s \o t)[i] = IF i <= Len(s) THEN s[i] ELSE t[i - Len(s)]
         /\ Aside(s) /\ Aside(t) => Aside(s \o t)
         /\ Unestablishing(s) /\ Unestablishing(t) => Unestablishing(s \o t)
<1>1. PICK u : u = s \o t
  OBVIOUS
<1>2. /\ u \in Seq(Writes) /\ Len(u) = Len(s) + Len(t)
      /\ Len(s) \in Nat /\ Len(t) \in Nat
      /\ \A i \in 1 .. Len(s) + Len(t) :
            u[i] = IF i <= Len(s) THEN s[i] ELSE t[i - Len(s)]
  BY <1>1, ConcatProperties, LenProperties
<1>3. \A i \in 1 .. Len(s) + Len(t) : 
        i \in 1 .. Len(s) \/ (i > Len(s) /\ i - Len(s) \in 1 .. Len(t))
  BY <1>2
<1>4. ASSUME NEW i \in 1 .. Len(u)
      PROVE  (\E j \in 1 .. Len(s) : u[i] = s[j]) \/ (\E j \in 1 .. Len(t) : u[i] = t[j])
  <2>1. i \in 1 .. Len(s) + Len(t)
    BY <1>2
  <2>2. CASE i \in 1 .. Len(s)
    BY <1>2, <2>1, <2>2
  <2>3. CASE i > Len(s) /\ i - Len(s) \in 1 .. Len(t)
    BY <1>2, <2>1, <2>3
  <2> QED
    BY <1>3, <2>1, <2>2, <2>3
<1>5. /\ Aside(s) /\ Aside(t) => Aside(u)
      /\ Unestablishing(s) /\ Unestablishing(t) => Unestablishing(u)
  <2>1. Aside(s) /\ Aside(t) => Aside(u)
    BY <1>4 DEF Aside
  <2>2. Unestablishing(s) /\ Unestablishing(t) => Unestablishing(u)
    BY <1>4 DEF Unestablishing
  <2> QED
    BY <2>1, <2>2
<1> QED
  BY <1>1, <1>2, <1>5

LEMMA AsidePlanned ==
  ASSUME NEW ws, Aside(ws)
  PROVE  LinePlanned(ws)
  BY DEF Aside, LinePlanned

LEMMA AsideThen ==
  ASSUME NEW s \in Seq(Writes), NEW t \in Seq(Writes),
         Aside(s), Unestablishing(s), LinePlanned(t)
  PROVE  LinePlanned(s \o t)
<1>1. PICK u : u = s \o t
  OBVIOUS
<1>2. /\ Len(u) = Len(s) + Len(t) /\ Len(s) \in Nat /\ Len(t) \in Nat
      /\ \A i \in 1 .. Len(u) : u[i] = IF i <= Len(s) THEN s[i] ELSE t[i - Len(s)]
  BY <1>1, Joined
<1>3. ASSUME NEW i \in 1 .. Len(u), u[i].file = "portal"
      PROVE  /\ \A k \in 1 .. Len(u) : u[k].file = "portal" => k = i
             /\ \A k \in 1 .. Len(u) : k < i /\ u[k].file = "portalMarker"
                  => u[k].content = Absent \/ ~u[k].content.established
             /\ Established("portal") => Extends(disk.portal, u[i].content)
  <2>1. /\ i > Len(s) /\ i - Len(s) \in 1 .. Len(t) /\ u[i] = t[i - Len(s)]
        /\ t[i - Len(s)].file = "portal"
    BY <1>2, <1>3 DEF Aside
  <2>2. /\ \A k \in 1 .. Len(t) : t[k].file = "portal" => k = i - Len(s)
        /\ \A k \in 1 .. Len(t) : k < i - Len(s) /\ t[k].file = "portalMarker"
             => t[k].content = Absent \/ ~t[k].content.established
        /\ Established("portal") => Extends(disk.portal, t[i - Len(s)].content)
    BY <2>1 DEF LinePlanned
  <2>3. ASSUME NEW k \in 1 .. Len(u)
        PROVE  /\ u[k].file = "portal" => k = i
               /\ k < i /\ u[k].file = "portalMarker"
                    => u[k].content = Absent \/ ~u[k].content.established
    <3>1. CASE k <= Len(s)
      BY <1>2, <3>1 DEF Aside, Unestablishing
    <3>2. CASE k > Len(s)
      <4>1. k - Len(s) \in 1 .. Len(t) /\ u[k] = t[k - Len(s)]
        BY <1>2, <3>2
      <4> QED
        BY <1>2, <2>1, <2>2, <4>1
    <3> QED
      BY <1>2, <3>1, <3>2
  <2> QED
    BY <2>1, <2>2, <2>3
<1> QED
  BY <1>1, <1>3 DEF LinePlanned

LEMMA ThenAside ==
  ASSUME NEW s \in Seq(Writes), NEW t \in Seq(Writes), LinePlanned(s), Aside(t)
  PROVE  LinePlanned(s \o t)
<1>1. PICK u : u = s \o t
  OBVIOUS
<1>2. /\ Len(u) = Len(s) + Len(t) /\ Len(s) \in Nat /\ Len(t) \in Nat
      /\ \A i \in 1 .. Len(u) : u[i] = IF i <= Len(s) THEN s[i] ELSE t[i - Len(s)]
  BY <1>1, Joined
<1>3. ASSUME NEW i \in 1 .. Len(u), u[i].file = "portal"
      PROVE  /\ \A k \in 1 .. Len(u) : u[k].file = "portal" => k = i
             /\ \A k \in 1 .. Len(u) : k < i /\ u[k].file = "portalMarker"
                  => u[k].content = Absent \/ ~u[k].content.established
             /\ Established("portal") => Extends(disk.portal, u[i].content)
  <2>1. \A k \in 1 .. Len(u) : k > Len(s) => u[k].file # "portal"
    BY <1>2 DEF Aside
  <2>2. i \in 1 .. Len(s) /\ u[i] = s[i] /\ s[i].file = "portal"
    BY <1>2, <1>3, <2>1
  <2>3. /\ \A k \in 1 .. Len(s) : s[k].file = "portal" => k = i
        /\ \A k \in 1 .. Len(s) : k < i /\ s[k].file = "portalMarker"
             => s[k].content = Absent \/ ~s[k].content.established
        /\ Established("portal") => Extends(disk.portal, s[i].content)
    BY <2>2 DEF LinePlanned
  <2>4. \A k \in 1 .. Len(u) : k <= Len(s) => k \in 1 .. Len(s) /\ u[k] = s[k]
    BY <1>2
  <2>5. ASSUME NEW k \in 1 .. Len(u)
        PROVE  /\ u[k].file = "portal" => k = i
               /\ k < i /\ u[k].file = "portalMarker"
                    => u[k].content = Absent \/ ~u[k].content.established
    BY <1>2, <2>1, <2>2, <2>3, <2>4
  <2> QED
    BY <2>2, <2>3, <2>5
<1> QED
  BY <1>1, <1>3 DEF LinePlanned

(* One write, and where it may stand.                                       *)
LEMMA OneWrite ==
  ASSUME NEW f \in Files, NEW c \in ContentOf(f)
  PROVE  /\ PutFile(f, c) \in Seq(Writes)
         /\ f # "portal" => Aside(PutFile(f, c)) /\ LinePlanned(PutFile(f, c))
         /\ f = "portalMarker" /\ (c = Absent \/ ~c.established)
              => Unestablishing(PutFile(f, c))
         /\ f # "portalMarker" => Unestablishing(PutFile(f, c))
         /\ f = "portal" /\ (Established("portal") => Extends(disk.portal, c))
              => LinePlanned(PutFile(f, c))
<1>1. PICK ws : ws = PutFile(f, c)
  OBVIOUS
<1>2. ws \in Seq(Writes) /\ Len(ws) = 1 /\ ws[1].file = f /\ ws[1].content = c
  BY <1>1, PutFileIs
<1>3. \A i \in 1 .. Len(ws) : i = 1
  BY <1>2
<1>4. f # "portal" => Aside(ws)
  BY <1>2, <1>3 DEF Aside
<1>5. (f = "portalMarker" => c = Absent \/ ~c.established) => Unestablishing(ws)
  BY <1>2, <1>3 DEF Unestablishing
<1>6. (Established("portal") => Extends(disk.portal, c)) => LinePlanned(ws)
  BY <1>2, <1>3 DEF LinePlanned
<1> QED
  BY <1>1, <1>2, <1>4, <1>5, <1>6, AsidePlanned

LEMMA NoWrite ==
  <<>> \in Seq(Writes) /\ Aside(<<>>) /\ Unestablishing(<<>>) /\ LinePlanned(<<>>)
<1>1. PICK ws : ws = <<>>
  OBVIOUS
<1>2. ws \in Seq(Writes) /\ Len(ws) = 0
  BY <1>1, EmptySeq
<1> QED
  BY <1>1, <1>2 DEF Aside, Unestablishing, LinePlanned

LEMMA MarkerIsTyped ==
  ASSUME NEW d \in Docs, NEW b \in BOOLEAN, NEW k \in Kinds
  PROVE  /\ MarkerFor(d, b) \in Markers /\ MarkerFor(d, b).established = b
         /\ MarkerOf[k] \in Files /\ MarkerFor(d, b) \in ContentOf(MarkerOf[k])
         /\ d \in ContentOf(k) /\ k \in Files
         /\ MarkerOf[k] = IF k = "portal" THEN "portalMarker" ELSE "backendMarker"
         /\ Absent \in ContentOf(k) /\ Absent \in ContentOf(MarkerOf[k])
<1>1. d.line[1] \in Values /\ d.first \in Values
  BY DEF Docs
<1>2. PICK x \in Values : x = d.line[1]
  BY <1>1
<1>3. <<x>> \in Seq(Values) \ {<<>>}
  OBVIOUS
<1>4. Origin(d) \in Docs
  BY <1>1, <1>2, <1>3 DEF Origin, Document, Docs
<1>5. MarkerFor(d, b) \in Markers /\ MarkerFor(d, b).established = b
  BY <1>4 DEF MarkerFor, Markers
<1>6. MarkerOf[k] = IF k = "portal" THEN "portalMarker" ELSE "backendMarker"
  BY DEF MarkerOf, Kinds
<1> QED
  BY <1>5, <1>6 DEF Kinds, Files, ContentOf

LEMMA EstablishPlanned ==
  ASSUME NEW k \in Kinds, NEW d \in Docs, k = "portal" => ~Established("portal")
  PROVE  /\ Establish(k, d) \in Seq(Writes) /\ LinePlanned(Establish(k, d))
         /\ k = "backend" => Aside(Establish(k, d))
<1>1. PICK m \in Files : m = MarkerOf[k]
  BY MarkerIsTyped
<1>2. PICK x \in ContentOf(m) : x = MarkerFor(d, FALSE)
  BY <1>1, MarkerIsTyped
<1>3. PICK y \in ContentOf(m) : y = MarkerFor(d, TRUE)
  BY <1>1, MarkerIsTyped
<1>4. PICK a : a = IF disk[m] = Absent THEN PutFile(m, x) ELSE <<>>
  OBVIOUS
<1>5. PICK b : b = PutFile(k, d)
  OBVIOUS
<1>6. PICK c : c = PutFile(m, y)
  OBVIOUS
<1>7. Establish(k, d) = (a \o b) \o c
  BY <1>1, <1>2, <1>3, <1>4, <1>5, <1>6 DEF Establish
<1>8. ~x.established /\ m # "portal" /\ k \in Files /\ d \in ContentOf(k)
  BY <1>1, <1>2, MarkerIsTyped
<1>9. a \in Seq(Writes) /\ Aside(a) /\ Unestablishing(a)
  BY <1>4, <1>8, OneWrite, NoWrite
<1>10. b \in Seq(Writes) /\ LinePlanned(b) /\ (k = "backend" => Aside(b))
  BY <1>5, <1>8, OneWrite DEF Kinds
<1>11. c \in Seq(Writes) /\ Aside(c)
  BY <1>6, <1>8, OneWrite
<1>12. PICK ab : ab = a \o b
  OBVIOUS
<1>13. ab \in Seq(Writes) /\ LinePlanned(ab) /\ (k = "backend" => Aside(ab))
  BY <1>9, <1>10, <1>12, Joined, AsideThen
<1>14. ab \o c \in Seq(Writes) /\ LinePlanned(ab \o c) /\ (k = "backend" => Aside(ab \o c))
  BY <1>11, <1>13, Joined, ThenAside
<1> QED
  BY <1>7, <1>12, <1>14

LEMMA MigrationPlanned ==
  ASSUME SwitchTypeOK, NEW k \in Kinds, MayMigrate(k)
  PROVE  /\ Migration(k) \in Seq(Writes) /\ LinePlanned(Migration(k))
         /\ k = "backend" => Aside(Migration(k))
<1>1. /\ disk[k] \in Docs \cup {Absent} /\ legacy[k] \in Docs \cup {Absent}
  BY DEF SwitchTypeOK, Kinds, Files, ContentOf
<1>2. CASE disk[k] # Absent /\ ~Established(k)
  <2>1. PICK m \in Files : m = MarkerOf[k]
    BY MarkerIsTyped, <1>1, <1>2
  <2>2. PICK y \in ContentOf(m) : y = MarkerFor(disk[k], TRUE)
    BY <1>1, <1>2, <2>1, MarkerIsTyped
  <2>3. Migration(k) = PutFile(m, y)
    BY <1>2, <2>1, <2>2 DEF Migration
  <2>4. m # "portal"
    BY <1>1, <1>2, <2>1, MarkerIsTyped
  <2> QED
    BY <2>3, <2>4, OneWrite
<1>3. CASE disk[k] = Absent /\ legacy[k] # Absent
  <2>1. ~Established(k) /\ Migration(k) = Establish(k, legacy[k]) /\ legacy[k] \in Docs
    BY <1>1, <1>3 DEF MayMigrate, Migration
  <2> QED
    BY <2>1, EstablishPlanned
<1>4. CASE (disk[k] # Absent /\ Established(k)) \/ (disk[k] = Absent /\ legacy[k] = Absent)
  <2>1. Migration(k) = <<>>
    BY <1>4 DEF Migration
  <2> QED
    BY <2>1, NoWrite
<1> QED
  BY <1>2, <1>3, <1>4

LEMMA DocIs ==
  ASSUME NEW d \in Docs
  PROVE  /\ d.line \in Seq(Values) /\ d.first \in Values
         /\ Len(d.line) \in Nat /\ Len(d.line) > 0
         /\ Current(d) \in Values /\ Generation(d) \in Nat
         /\ \A r \in Values : /\ [d EXCEPT !.line = Append(@, r)] \in Docs
                              /\ d # Absent => Extends(d, [d EXCEPT !.line = Append(@, r)])
<1>1. d.line \in Seq(Values) /\ d.line # <<>> /\ d.first \in Values
  BY DEF Docs
<1>2. PICK s \in Seq(Values) : s = d.line
  BY <1>1
<1>3. Len(s) \in Nat /\ Len(s) > 0
  BY <1>1, <1>2, EmptySeq, LenProperties
<1>4. s[Len(s)] \in Values
  BY <1>2, <1>3, ElementOfSeq
<1>5. Current(d) \in Values /\ Generation(d) \in Nat
  BY <1>2, <1>3, <1>4 DEF Current, Generation, Last
<1>6. ASSUME NEW r \in Values
      PROVE  /\ [d EXCEPT !.line = Append(@, r)] \in Docs
             /\ d # Absent => Extends(d, [d EXCEPT !.line = Append(@, r)])
  <2>1. PICK e : e = [d EXCEPT !.line = Append(@, r)]
    OBVIOUS
  <2>2. e.line = Append(s, r) /\ e.first = d.first
    BY <1>2, <2>1 DEF Docs
  <2>3. Append(s, r) \in Seq(Values) /\ Append(s, r) # <<>>
    BY AppendProperties
  <2>4. e \in Docs
    <3>1. e = [first |-> d.first, line |-> e.line]
      BY <2>1 DEF Docs
    <3>2. e.line \in Seq(Values) \ {<<>>} /\ d.first \in Values
      BY <1>1, <2>2, <2>3
    <3> QED
      BY <3>1, <3>2 DEF Docs
  <2>5. SubSeq(Append(s, r), 1, Len(Append(s, r)) - 1) = s
    OBVIOUS
  <2>6. Front(e.line) = d.line
    BY <1>2, <2>2, <2>5 DEF Front
  <2> QED
    BY <2>1, <2>2, <2>4, <2>6 DEF Extends
<1> QED
  BY <1>2, <1>1, <1>3, <1>5, <1>6

LEMMA CommitmentPlanned ==
  ASSUME SwitchTypeOK, NEW i \in Intents, MayComplete(i)
  PROVE  Commitment(i) \in Seq(Writes) /\ LinePlanned(Commitment(i))
<1>1. /\ disk.portal \in Docs \cup {Absent}
      /\ disk.portalMarker \in Markers \cup {Absent}
      /\ i.to \in Values
  BY DEF SwitchTypeOK, Kinds, Files, ContentOf, Intents
<1>2. MarkerOf["portal"] = "portalMarker"
  BY DEF MarkerOf
<1>3. CASE i.base > 0 /\ ~Committed(i)
  <2>1. PICK d : d = disk.portal
    OBVIOUS
  <2>2. d \in Docs /\ d # Absent
    BY <1>1, <1>3, <2>1 DEF MayComplete, Unmoved, Loadable
  <2>3. PICK e : e = [d EXCEPT !.line = Append(@, i.to)]
    OBVIOUS
  <2>4. e \in Docs /\ Extends(d, e)
    BY <1>1, <2>2, <2>3, DocIs
  <2>5. Commitment(i) = WithMarker("portal", e)
    BY <1>3, <2>1, <2>3 DEF Commitment
  <2>6. CASE disk.portalMarker = Absent
    <3>1. Commitment(i) = Establish("portal", e) /\ ~Established("portal")
      BY <1>2, <2>5, <2>6 DEF WithMarker, Established
    <3> QED
      BY <2>4, <3>1, EstablishPlanned DEF Kinds
  <2>7. CASE disk.portalMarker # Absent
    <3>1. Commitment(i) = PutFile("portal", e)
      BY <1>2, <2>5, <2>7 DEF WithMarker
    <3>2. e \in ContentOf("portal") /\ "portal" \in Files
      BY <2>4 DEF ContentOf, Kinds, Files
    <3> QED
      BY <2>1, <2>4, <3>1, <3>2, OneWrite
  <2> QED
    BY <2>6, <2>7
<1>4. CASE (i.base > 0 /\ Committed(i)) \/ (~(i.base > 0) /\ Established("portal"))
  BY <1>4, NoWrite DEF Commitment
<1>5. CASE ~(i.base > 0) /\ ~Established("portal")
  <2>1. PICK x \in Values : x = i.to
    BY <1>1
  <2>2. <<x>> \in Seq(Values) \ {<<>>}
    OBVIOUS
  <2>3. FirstOf(i) \in Docs
    BY <2>1, <2>2 DEF FirstOf, Document, Docs, Values
  <2>4. CASE disk.portal = Absent
    BY <1>5, <2>3, <2>4, EstablishPlanned DEF Commitment, Kinds
  <2>5. CASE disk.portal # Absent
    <3>1. PICK m : m = MarkerFor(FirstOf(i), TRUE)
      OBVIOUS
    <3>2. m \in ContentOf("portalMarker") /\ "portalMarker" \in Files
      BY <2>3, <3>1, MarkerIsTyped, <1>2 DEF Kinds
    <3>3. Commitment(i) = PutFile("portalMarker", m)
      BY <1>5, <2>5, <3>1 DEF Commitment
    <3> QED
      BY <3>2, <3>3, OneWrite
  <2> QED
    BY <2>4, <2>5
<1> QED
  BY <1>3, <1>4, <1>5

LEMMA IntentCleared ==
  PutFile("intent", Absent) \in Seq(Writes) /\ Aside(PutFile("intent", Absent))
    /\ LinePlanned(PutFile("intent", Absent))
<1>1. Absent \in ContentOf("intent") /\ "intent" \in Files
  BY DEF ContentOf, Files
<1> QED
  BY <1>1, OneWrite

LEMMA CompletionPlanned ==
  ASSUME SwitchTypeOK, NEW i \in Intents, MayComplete(i)
  PROVE  Completion(i) \in Seq(Writes) /\ LinePlanned(Completion(i))
<1>1. PICK a : a = Commitment(i)
  OBVIOUS
<1>2. PICK b : b = PutFile("intent", Absent)
  OBVIOUS
<1>3. a \in Seq(Writes) /\ LinePlanned(a)
  BY <1>1, CommitmentPlanned
<1>4. b \in Seq(Writes) /\ Aside(b)
  BY <1>2, IntentCleared
<1>5. a \o b \in Seq(Writes) /\ LinePlanned(a \o b)
  BY <1>3, <1>4, Joined, ThenAside
<1> QED
  BY <1>1, <1>2, <1>5 DEF Completion

LEMMA AbortionPlanned ==
  ASSUME SwitchTypeOK, NEW i \in Intents, MayAbort(i)
  PROVE  Abortion(i) \in Seq(Writes) /\ LinePlanned(Abortion(i))
<1>1. PICK c : c = PutFile("intent", Absent)
  OBVIOUS
<1>2. c \in Seq(Writes) /\ Aside(c)
  BY <1>1, IntentCleared
<1>3. CASE i.base = 0 /\ disk.portalMarker # Absent
  <2>1. ~Established("portal")
    BY <1>3 DEF MayAbort
  <2>2. PICK a : a = IF disk.portal = Absent THEN <<>> ELSE PutFile("portal", Absent)
    OBVIOUS
  <2>3. /\ Absent \in ContentOf("portal") /\ "portal" \in Files
        /\ Absent \in ContentOf("portalMarker") /\ "portalMarker" \in Files
    BY DEF ContentOf, Files
  <2>4. a \in Seq(Writes) /\ LinePlanned(a)
    BY <2>1, <2>2, <2>3, OneWrite, NoWrite
  <2>5. PICK b : b = PutFile("portalMarker", Absent)
    OBVIOUS
  <2>6. b \in Seq(Writes) /\ Aside(b)
    BY <2>3, <2>5, OneWrite
  <2>7. PICK ab : ab = a \o b
    OBVIOUS
  <2>8. ab \in Seq(Writes) /\ LinePlanned(ab)
    BY <2>4, <2>6, <2>7, Joined, ThenAside
  <2>9. ab \o c \in Seq(Writes) /\ LinePlanned(ab \o c)
    BY <2>8, <1>2, Joined, ThenAside
  <2> QED
    BY <1>1, <1>3, <2>2, <2>5, <2>7, <2>9 DEF Abortion
<1>4. CASE ~(i.base = 0 /\ disk.portalMarker # Absent)
  <2>1. PICK a : a = <<>>
    OBVIOUS
  <2>2. a \o c \in Seq(Writes) /\ LinePlanned(a \o c)
    BY <2>1, <1>2, NoWrite, Joined, ThenAside
  <2> QED
    BY <1>1, <1>4, <2>1, <2>2 DEF Abortion
<1> QED
  BY <1>3, <1>4

LEMMA BackendPlanned ==
  ASSUME SwitchTypeOK, NEW r \in Values
  PROVE  BackendCommit(r) \in Seq(Writes) /\ LinePlanned(BackendCommit(r))
<1>1. disk.backend \in Docs \cup {Absent} /\ "backend" \in Files /\ "backend" \in Kinds
  BY DEF SwitchTypeOK, Kinds, Files, ContentOf
<1>2. CASE disk.backend = Absent
  <2>1. <<r>> \in Seq(Values) \ {<<>>}
    OBVIOUS
  <2>2. PICK d : d = Document(Absent, <<r>>)
    OBVIOUS
  <2>3. d \in Docs /\ d \in ContentOf("backend")
    BY <2>1, <2>2 DEF Document, Docs, Values, ContentOf, Kinds
  <2>4. BackendCommit(r) = WithMarker("backend", d)
    BY <1>2, <2>2 DEF BackendCommit
  <2>5. BackendCommit(r) \in {Establish("backend", d), PutFile("backend", d)}
    BY <2>4 DEF WithMarker
  <2> QED
    BY <1>1, <2>3, <2>5, EstablishPlanned, OneWrite
<1>3. CASE disk.backend # Absent /\ Current(disk.backend) = r
  BY <1>3, NoWrite DEF BackendCommit
<1>4. CASE disk.backend # Absent /\ Current(disk.backend) # r
  <2>1. PICK d : d = [disk.backend EXCEPT !.line = Append(@, r)]
    OBVIOUS
  <2>2. d \in Docs /\ d \in ContentOf("backend")
    BY <1>1, <1>4, <2>1, DocIs DEF ContentOf, Kinds
  <2>3. BackendCommit(r) = PutFile("backend", d)
    BY <1>4, <2>1 DEF BackendCommit
  <2> QED
    BY <1>1, <2>2, <2>3, OneWrite
<1> QED
  BY <1>2, <1>3, <1>4

LEMMA ScriptIs ==
  ASSUME SwitchTypeOK, script # NoScript
  PROVE  /\ script.name \in {"release", "rollback", "recover", "install"} /\ script.release \in Values
         /\ script.step \in ScriptSteps /\ script.writes \in Seq(Writes)
         /\ \A step \in ScriptSteps, r \in Values, ws \in Seq(Writes) :
              [script EXCEPT !.step = step, !.release = r, !.writes = ws]
                  \in [name : {"release", "rollback", "recover", "install"}, release : Values,
                       step : ScriptSteps, writes : Seq(Writes)]
  BY DEF SwitchTypeOK

LEMMA LineStarts == SwitchInit => LineInv
<1> SUFFICES ASSUME SwitchInit PROVE LineInv
  OBVIOUS
<1>1. script = NoScript
  BY DEF SwitchInit
<1>2. DOMAIN disk = Files /\ \A f \in Files : disk[f] \in ContentOf(f)
  BY DEF SwitchInit, Files, ContentOf
<1>3. PICK r \in Releases, before \in Releases \cup {Absent}, old \in BOOLEAN :
           /\ legacy = IF old THEN [portal |-> Document(before, <<r>>),
                                    backend |-> Document(Absent, <<r>>)]
                              ELSE [portal |-> Absent, backend |-> Absent]
           /\ container = IF old THEN [release |-> r, status |-> "up"] ELSE NoContainer
  BY DEF SwitchInit
<1>4. <<r>> \in Seq(Values) \ {<<>>}
  BY DEF Values
<1>5. Document(before, <<r>>) \in Docs /\ Document(Absent, <<r>>) \in Docs
  BY <1>4 DEF Document, Docs, Values
<1>6. \A k \in Kinds : legacy[k] \in Docs \cup {Absent}
  BY <1>3, <1>5 DEF Kinds
<1>7. container \in [release : Values, status : {"up", "down", "stopped"}]
  BY <1>3 DEF NoContainer, Values
<1> QED
  BY <1>1, <1>2, <1>6, <1>7 DEF LineInv, SwitchTypeOK

(* A step that only hands the script its next list of writes.               *)
LEMMA ThenPlanned ==
  ASSUME LineInv, script # NoScript, NEW step \in ScriptSteps, NEW ws \in Seq(Writes),
         LinePlanned(ws), Then(step, ws), UNCHANGED <<disk, legacy>>,
         container' \in [release : Values, status : {"up", "down", "stopped"}]
  PROVE  LineInv'
<1>1. script' = [script EXCEPT !.step = step, !.writes = ws]
  BY DEF Then
<1>2. script' \in [name : {"release", "rollback", "recover", "install"}, release : Values,
                   step : ScriptSteps, writes : Seq(Writes)]
  BY <1>1 DEF LineInv, SwitchTypeOK
<1>3. script'.writes = ws
  BY <1>1 DEF LineInv, SwitchTypeOK
<1>4. LinePlanned(ws)'
  BY DEF LinePlanned, Established
<1>5. LinePlanned(script.writes)'
  BY <1>3, <1>4 DEF LinePlanned
<1>6. SwitchTypeOK'
  BY <1>2 DEF LineInv, SwitchTypeOK, Files, Kinds
<1> QED
  BY <1>5, <1>6 DEF LineInv

LEMMA EnterPlanned ==
  ASSUME LineInv, NEW name \in {"release", "rollback", "recover", "install"}, NEW r \in Values,
         NEW step \in ScriptSteps, NEW ws \in Seq(Writes),
         LinePlanned(ws), Enter(name, r, step, ws), UNCHANGED <<disk, legacy>>,
         container' \in [release : Values, status : {"up", "down", "stopped"}]
  PROVE  LineInv'
<1>1. script' = [name |-> name, release |-> r, step |-> step, writes |-> ws]
  BY DEF Enter
<1>2. script' \in [name : {"release", "rollback", "recover", "install"}, release : Values,
                   step : ScriptSteps, writes : Seq(Writes)]
  BY <1>1
<1>3. script'.writes = ws
  BY <1>1
<1>4. LinePlanned(ws)'
  BY DEF LinePlanned, Established
<1>5. LinePlanned(script.writes)'
  BY <1>3, <1>4 DEF LinePlanned
<1>6. SwitchTypeOK'
  BY <1>2 DEF LineInv, SwitchTypeOK, Files, Kinds
<1> QED
  BY <1>5, <1>6 DEF LineInv

(* A step of the script that leaves the list it has, and an end of it.      *)
LEMMA EndPlanned ==
  ASSUME LineInv, script' = NoScript, UNCHANGED <<disk, legacy>>,
         container' \in [release : Values, status : {"up", "down", "stopped"}]
  PROVE  LineInv'
  BY DEF LineInv, SwitchTypeOK, Files, Kinds

LEMMA WritePlanned ==
  ASSUME LineInv, WriteFile
  PROVE  LineInv' /\ (Established("portal") =>
             disk'.portal = disk.portal \/ Extends(disk.portal, disk'.portal))
<1>1. script # NoScript
  BY DEF WriteFile, NoScript
<1>2. PICK ws \in Seq(Writes) : ws = script.writes
  BY <1>1, ScriptIs DEF LineInv
<1>3. ws # <<>> /\ LinePlanned(ws)
  BY <1>1, <1>2 DEF WriteFile, LineInv
<1>4. Len(ws) \in Nat /\ Len(ws) > 0 /\ 1 \in 1 .. Len(ws)
  BY <1>3, EmptySeq, LenProperties
<1>5. Head(ws) = ws[1] /\ ws[1] \in Writes
  BY <1>3, <1>4, HeadTailProperties, ElementOfSeq
<1>6. PICK f \in Files, c \in Contents : f = ws[1].file /\ c = ws[1].content
  BY <1>5 DEF Writes
<1>7. c \in ContentOf(f)
  BY <1>5, <1>6 DEF Writes
<1>8. disk' = [disk EXCEPT ![f] = c] /\ script' = [script EXCEPT !.writes = Tail(ws)]
      /\ UNCHANGED <<container, legacy>>
  BY <1>2, <1>5, <1>6 DEF WriteFile
<1>9. DOMAIN disk = Files
  BY DEF LineInv, SwitchTypeOK
<1>10. disk'[f] = c /\ \A g \in Files : g # f => disk'[g] = disk[g]
  BY <1>8, <1>9
<1>11. PICK ts : ts = Tail(ws)
  OBVIOUS
<1>12. /\ ts \in Seq(Writes) /\ Len(ts) = Len(ws) - 1
       /\ \A i \in 1 .. Len(ts) : ts[i] = ws[i + 1]
  BY <1>3, <1>11, HeadTailProperties
<1>13. script' \in [name : {"release", "rollback", "recover", "install"}, release : Values,
                   step : ScriptSteps, writes : Seq(Writes)] /\ script'.writes = ts
  BY <1>1, <1>8, <1>11, <1>12 DEF LineInv, SwitchTypeOK
<1>14. DOMAIN disk' = Files /\ \A g \in Files : disk'[g] \in ContentOf(g)
  BY <1>7, <1>8, <1>9, <1>10 DEF LineInv, SwitchTypeOK
<1>15. SwitchTypeOK'
  BY <1>8, <1>13, <1>14 DEF LineInv, SwitchTypeOK, ContentOf
<1>16. \A i \in 1 .. Len(ts) : i + 1 \in 1 .. Len(ws) /\ i + 1 > 1
  BY <1>4, <1>12
<1>17. ASSUME NEW i \in 1 .. Len(ts), ts[i].file = "portal"
       PROVE  /\ \A k \in 1 .. Len(ts) : ts[k].file = "portal" => k = i
              /\ \A k \in 1 .. Len(ts) : k < i /\ ts[k].file = "portalMarker"
                   => ts[k].content = Absent \/ ~ts[k].content.established
              /\ f # "portal"
              /\ f = "portalMarker" => c = Absent \/ ~c.established
              /\ Established("portal") => Extends(disk.portal, ts[i].content)
  <2>1. i + 1 \in 1 .. Len(ws) /\ ws[i + 1].file = "portal" /\ ts[i] = ws[i + 1]
    BY <1>12, <1>16, <1>17
  <2>2. /\ \A k \in 1 .. Len(ws) : ws[k].file = "portal" => k = i + 1
        /\ \A k \in 1 .. Len(ws) : k < i + 1 /\ ws[k].file = "portalMarker"
             => ws[k].content = Absent \/ ~ws[k].content.established
        /\ Established("portal") => Extends(disk.portal, ws[i + 1].content)
    BY <1>3, <2>1 DEF LinePlanned
  <2>3. f # "portal"
    BY <1>4, <1>6, <1>16, <2>2
  <2>4. f = "portalMarker" => c = Absent \/ ~c.established
    BY <1>4, <1>6, <1>16, <2>2
  <2>5. \A k \in 1 .. Len(ts) : ts[k].file = "portal" => k = i
    BY <1>12, <1>16, <2>2
  <2>6. \A k \in 1 .. Len(ts) : k < i /\ ts[k].file = "portalMarker"
                   => ts[k].content = Absent \/ ~ts[k].content.established
    BY <1>12, <1>16, <2>2
  <2> QED
    BY <2>1, <2>2, <2>3, <2>4, <2>5, <2>6
<1>18. ASSUME NEW i \in 1 .. Len(ts), ts[i].file = "portal"
       PROVE  Established("portal")' => Extends(disk.portal, ts[i].content)'
  <2>1. f # "portal" /\ disk'.portal = disk.portal
    BY <1>10, <1>17, <1>18 DEF Files
  <2>2. MarkerOf["portal"] = "portalMarker"
    BY DEF MarkerOf
  <2>3. f = "portalMarker" => ~Established("portal")'
    BY <1>10, <1>17, <1>18, <2>2 DEF Established
  <2>4. f # "portalMarker" => Established("portal")' = Established("portal")
    BY <1>10, <2>2 DEF Established, Files
  <2> QED
    BY <1>17, <1>18, <2>1, <2>3, <2>4 DEF Extends
<1>19. LinePlanned(ts)'
  BY <1>17, <1>18 DEF LinePlanned
<1>20. LinePlanned(script.writes)'
  BY <1>13, <1>19 DEF LinePlanned
<1>21. Established("portal") => disk'.portal = disk.portal \/ Extends(disk.portal, disk'.portal)
  <2>1. CASE f = "portal"
    BY <1>3, <1>4, <1>6, <1>10, <2>1 DEF LinePlanned
  <2>2. CASE f # "portal"
    BY <1>10, <2>2 DEF Files
  <2> QED
    BY <2>1, <2>2
<1> QED
  BY <1>15, <1>20, <1>21 DEF LineInv

LEMMA LineSteps ==
  ASSUME LineInv, losses \in Nat, SwitchNext
  PROVE  LineInv' /\ (Established("portal") =>
             \/ losses' > losses \/ disk'.portal = disk.portal
             \/ Extends(disk.portal, disk'.portal)
             )
<1> DEFINE Boxes == [release : Values, status : {"up", "down", "stopped"}]
<1>1. SwitchTypeOK /\ container \in Boxes
  BY DEF LineInv, SwitchTypeOK
<1>2. ASSUME NEW step, At(step) PROVE script # NoScript /\ script.step = step
  BY <1>2 DEF At, NoScript
<1>3. \A step \in ScriptSteps : At(step) => script.release \in Values
  BY <1>1, <1>2, ScriptIs
<1>4. disk.intent \in Intents \cup {Absent}
  BY <1>1 DEF SwitchTypeOK, Files, ContentOf, Kinds
<1>5. /\ disk.portal \in Docs \cup {Absent} /\ "portal" \in Kinds /\ "backend" \in Kinds
      /\ disk.backend \in Docs \cup {Absent}
  BY <1>1 DEF SwitchTypeOK, Files, ContentOf, Kinds
<1>6. ASSUME NEW r \in Releases, StartRelease(r) PROVE LineInv' /\ UNCHANGED disk
  <2>1. Migration("portal") \in Seq(Writes) /\ LinePlanned(Migration("portal"))
    BY <1>1, <1>5, <1>6, MigrationPlanned DEF StartRelease
  <2>2. r \in Values /\ "check" \in ScriptSteps
    BY DEF Values, ScriptSteps
  <2> QED
    BY <1>1, <1>6, <2>1, <2>2, EnterPlanned DEF StartRelease
<1>26. ASSUME NEW r \in Releases, StartInstall(r) PROVE LineInv' /\ UNCHANGED disk
  <2>1. PICK ws : ws = Migration("backend")
    OBVIOUS
  <2>2. ws \in Seq(Writes) /\ LinePlanned(ws)
    BY <1>1, <1>5, <1>26, <2>1, MigrationPlanned DEF StartInstall
  <2>3. r \in Values /\ "install" \in ScriptSteps
    BY DEF Values, ScriptSteps
  <2>4. Enter("install", r, "install", ws) /\ UNCHANGED <<disk, container, legacy>>
    BY <1>26, <2>1 DEF StartInstall
  <2> QED
    BY <1>1, <2>2, <2>3, <2>4, EnterPlanned
<1>7. ASSUME StartRollback PROVE LineInv' /\ UNCHANGED disk
  <2>1. PICK a : a = Migration("portal")
    OBVIOUS
  <2>2. PICK b : b = Migration("backend")
    OBVIOUS
  <2>3. a \in Seq(Writes) /\ LinePlanned(a)
    BY <1>1, <1>5, <1>7, <2>1, MigrationPlanned DEF StartRollback
  <2>4. b \in Seq(Writes) /\ Aside(b)
    BY <1>1, <1>5, <1>7, <2>2, MigrationPlanned DEF StartRollback
  <2>5. PICK ab : ab = a \o b
    OBVIOUS
  <2>6. ab \in Seq(Writes) /\ LinePlanned(ab)
    BY <2>3, <2>4, <2>5, Joined, ThenAside
  <2>7. Absent \in Values /\ "check" \in ScriptSteps
    BY DEF Values, ScriptSteps
  <2>8. Enter("rollback", Absent, "check", ab) /\ UNCHANGED <<disk, container, legacy>>
    BY <1>7, <2>1, <2>2, <2>5 DEF StartRollback
  <2> QED
    BY <1>1, <2>6, <2>7, <2>8, EnterPlanned
<1>8. CASE WriteFile
  BY <1>8, WritePlanned
<1>9. ASSUME CheckIntent PROVE LineInv' /\ UNCHANGED disk
  <2>1. PICK ws : ws = IF disk.intent = Absent THEN <<>> ELSE PutFile("intent", Absent)
    OBVIOUS
  <2>2. ws \in Seq(Writes) /\ LinePlanned(ws) /\ "verify" \in ScriptSteps
    BY <2>1, NoWrite, IntentCleared DEF ScriptSteps
  <2>3. Then("verify", ws) /\ UNCHANGED <<disk, container, legacy>>
    BY <1>9, <2>1 DEF CheckIntent
  <2> QED
    BY <1>1, <1>2, <1>9, <2>2, <2>3, ThenPlanned DEF CheckIntent
<1>10. ASSUME VerifyRelease PROVE LineInv' /\ UNCHANGED disk
  <2>1. PICK ws : ws = Migration("backend")
    OBVIOUS
  <2>2. ws \in Seq(Writes) /\ LinePlanned(ws) /\ "install" \in ScriptSteps
    BY <1>1, <1>5, <1>10, <2>1, MigrationPlanned DEF ScriptSteps, VerifyRelease
  <2> QED
    BY <1>1, <1>2, <1>10, <2>1, <2>2, ThenPlanned DEF VerifyRelease
<1>11. ASSUME VerifyRollback PROVE LineInv' /\ UNCHANGED disk
  <2>1. script # NoScript /\ script.writes = <<>>
    BY <1>2, <1>11 DEF VerifyRollback, At
  <2>2. disk.portal \in Docs
    BY <1>5, <1>11 DEF VerifyRollback, Loadable
  <2>3. PICK p : p = Previous(disk.portal)
    OBVIOUS
  <2>4. p \in Values
    <3>1. PICK s \in Seq(Values) : s = disk.portal.line
      BY <2>2, DocIs
    <3>2. Len(s) \in Nat /\ Len(s) > 0
      BY <2>2, <3>1, DocIs
    <3>3. CASE Len(s) = 1
      BY <2>2, <2>3, <3>1, <3>3, DocIs DEF Previous
    <3>4. CASE Len(s) # 1
      <4>1. Len(s) - 1 \in 1 .. Len(s)
        <5>1. PICK n \in Nat : n = Len(s)
          BY <3>2
        <5>2. n > 1
          BY <3>2, <3>4, <5>1
        <5> QED
          BY <5>1, <5>2
      <4>2. s[Len(s) - 1] \in Values
        BY <4>1, ElementOfSeq
      <4> QED
        BY <2>3, <3>1, <3>4, <4>2 DEF Previous
    <3> QED
      BY <3>3, <3>4
  <2>5. script' = [script EXCEPT !.step = "begin", !.release = p]
    BY <1>11, <2>3 DEF VerifyRollback
  <2>6. /\ script' \in [name : {"release", "rollback", "recover", "install"}, release : Values,
                        step : ScriptSteps, writes : Seq(Writes)]
        /\ script'.writes = <<>>
    BY <1>1, <2>1, <2>4, <2>5 DEF SwitchTypeOK, ScriptSteps
  <2>7. UNCHANGED <<disk, container, legacy>>
    BY <1>11 DEF VerifyRollback
  <2>8. SwitchTypeOK'
    BY <1>1, <2>6, <2>7 DEF SwitchTypeOK, Files, Kinds
  <2>9. LinePlanned(script.writes)'
    BY <2>6, <2>7, EmptySeq DEF LinePlanned
  <2> QED
    BY <2>7, <2>8, <2>9 DEF LineInv
<1>12. ASSUME Register \/ Registered \/ Activate PROVE LineInv' /\ UNCHANGED disk
  <2>1. PICK step \in ScriptSteps : Then(step, <<>>)
    BY <1>12 DEF Register, Registered, Activate, ScriptSteps
  <2>2. script # NoScript /\ UNCHANGED <<disk, container, legacy>>
    BY <1>12, <1>2 DEF Register, Registered, Activate
  <2> QED
    BY <1>1, <2>1, <2>2, NoWrite, ThenPlanned
<1>13. ASSUME InstallFails \/ ScriptEnds PROVE LineInv' /\ UNCHANGED disk
  BY <1>1, <1>13, EndPlanned DEF InstallFails, ScriptEnds
<1>14. ASSUME Record PROVE LineInv' /\ UNCHANGED disk
  <2>1. PICK ws : ws = BackendCommit(script.release)
    OBVIOUS
  <2>2. script # NoScript /\ script.release \in Values
    BY <1>1, <1>2, <1>14, ScriptIs DEF Record
  <2>3. ws \in Seq(Writes) /\ LinePlanned(ws)
    BY <1>1, <2>1, <2>2, BackendPlanned
  <2>4. PICK step \in {"begin", "installed"} : Then(step, ws)
    BY <1>14, <2>1 DEF Record
  <2>5. step \in ScriptSteps /\ UNCHANGED <<disk, container, legacy>>
    BY <1>14, <2>4 DEF Record, ScriptSteps
  <2> QED
    BY <1>1, <2>2, <2>3, <2>4, <2>5, ThenPlanned
<1>15. ASSUME BeginIntent PROVE LineInv' /\ UNCHANGED disk
  <2>1. script # NoScript /\ script.release \in Values
    BY <1>1, <1>2, <1>15, ScriptIs DEF BeginIntent
  <2>2. PICK b : b = IF disk.portal = Absent THEN 0 ELSE Generation(disk.portal)
    OBVIOUS
  <2>3. PICK x : x = IF disk.portal = Absent THEN Absent ELSE Current(disk.portal)
    OBVIOUS
  <2>4. b \in Nat /\ x \in Values
    BY <1>5, <2>2, <2>3, DocIs DEF Values
  <2>5. PICK i : i = [base |-> b, from |-> x, to |-> script.release]
    OBVIOUS
  <2>6. i \in ContentOf("intent") /\ "intent" \in Files
    BY <2>1, <2>4, <2>5 DEF Intents, ContentOf, Files, Kinds
  <2>7. PICK ws : ws = PutFile("intent", i)
    OBVIOUS
  <2>8. ws \in Seq(Writes) /\ LinePlanned(ws) /\ "up" \in ScriptSteps
    BY <2>6, <2>7, OneWrite DEF ScriptSteps
  <2>9. Then("up", ws) /\ UNCHANGED <<disk, container, legacy>>
    BY <1>15, <2>2, <2>3, <2>5, <2>7 DEF BeginIntent
  <2> QED
    BY <1>1, <2>1, <2>8, <2>9, ThenPlanned
<1>16. \A r \in Values : Replaced(r) \subseteq Boxes
  BY <1>1 DEF Replaced, NoContainer, Values
<1>17. ASSUME ComposeUp \/ Probe PROVE LineInv' /\ UNCHANGED disk
  <2>1. PICK step \in ScriptSteps : Then(step, <<>>)
    BY <1>17 DEF ComposeUp, Probe, ScriptSteps
  <2>2. script # NoScript /\ script.release \in Values /\ UNCHANGED <<disk, legacy>>
    BY <1>1, <1>2, <1>17, ScriptIs DEF ComposeUp, Probe
  <2>3. container' \in Boxes
    BY <1>1, <1>16, <1>17, <2>2 DEF ComposeUp, Probe
  <2> QED
    BY <1>1, <2>1, <2>2, <2>3, NoWrite, ThenPlanned
<1>18. ASSUME Complete PROVE LineInv' /\ UNCHANGED disk
  <2>1. script # NoScript /\ disk.intent \in Intents /\ MayComplete(disk.intent)
    BY <1>2, <1>4, <1>18 DEF Complete
  <2>2. PICK ws : ws = Completion(disk.intent)
    OBVIOUS
  <2>3. ws \in Seq(Writes) /\ LinePlanned(ws) /\ "done" \in ScriptSteps
    BY <1>1, <2>1, <2>2, CompletionPlanned DEF ScriptSteps
  <2> QED
    BY <1>1, <1>18, <2>1, <2>2, <2>3, ThenPlanned DEF Complete
<1>19. ASSUME Restore PROVE LineInv' /\ UNCHANGED disk
  <2>1. script # NoScript /\ UNCHANGED <<disk, legacy>> /\ Then("abort", <<>>)
    BY <1>2, <1>19 DEF Restore
  <2>2. [container EXCEPT !.status = "stopped"] \in Boxes
    BY <1>1
  <2>3. container' \in Boxes
    BY <1>5, <1>16, <1>19, <2>2, DocIs DEF Restore
  <2> QED
    BY <1>1, <2>1, <2>3, NoWrite, ThenPlanned DEF ScriptSteps
<1>20. ASSUME Abort PROVE LineInv' /\ UNCHANGED disk
  <2>1. script # NoScript /\ disk.intent \in Intents /\ MayAbort(disk.intent)
    BY <1>2, <1>4, <1>20 DEF Abort
  <2>2. PICK ws : ws = Abortion(disk.intent)
    OBVIOUS
  <2>3. ws \in Seq(Writes) /\ LinePlanned(ws) /\ "done" \in ScriptSteps
    BY <1>1, <2>1, <2>2, AbortionPlanned DEF ScriptSteps
  <2> QED
    BY <1>1, <1>20, <2>1, <2>2, <2>3, ThenPlanned DEF Abort
<1>21. ASSUME Recover PROVE LineInv' /\ UNCHANGED disk
  <2>1. Running \in Values
    BY <1>1 DEF Running, Values
  <2>2. [container EXCEPT !.status = "stopped"] \in Boxes
    BY <1>1
  <2>3. container' \in Boxes /\ UNCHANGED <<disk, legacy>>
    BY <1>1, <1>21, <2>2 DEF Recover
  <2>4. CASE Running = Absent
    BY <1>21, <2>1, <2>3, <2>4, NoWrite, EnterPlanned DEF Recover, ScriptSteps
  <2>5. CASE Running # Absent
    <3>1. PICK ws : ws = Migration("backend")
      OBVIOUS
    <3>2. ws \in Seq(Writes) /\ LinePlanned(ws) /\ "live" \in ScriptSteps
      BY <1>1, <1>5, <1>21, <2>5, <3>1, MigrationPlanned DEF ScriptSteps, Recover
    <3>3. Enter("recover", Running, "live", ws)
      BY <1>21, <2>5, <3>1 DEF Recover
    <3> QED
      BY <2>1, <2>3, <3>2, <3>3, EnterPlanned
  <2> QED
    BY <2>4, <2>5
<1>22. ASSUME VerifyLive PROVE LineInv' /\ UNCHANGED disk
  <2>1. PICK step \in ScriptSteps : Then(step, <<>>)
    BY <1>22 DEF VerifyLive, ScriptSteps
  <2>2. script # NoScript /\ UNCHANGED <<disk, container, legacy>>
    BY <1>22, <1>2 DEF VerifyLive
  <2> QED
    BY <1>1, <2>1, <2>2, NoWrite, ThenPlanned
<1>23. ASSUME ContainerTurns PROVE LineInv' /\ UNCHANGED disk
  <2>1. container' \in Boxes
    BY <1>1, <1>23 DEF ContainerTurns
  <2> QED
    BY <1>23, <2>1 DEF ContainerTurns, LineInv, SwitchTypeOK, LinePlanned, Established,
                       Files, Kinds
<1>24. ASSUME LoseState PROVE LineInv' /\ losses' = losses + 1
  <2>1. DOMAIN disk' = Files /\ \A f \in Files : disk'[f] \in ContentOf(f)
    BY <1>1, <1>24 DEF LoseState, SwitchTypeOK, ContentOf
  <2> QED
    BY <1>1, <1>24, <2>1 DEF LoseState, LineInv, SwitchTypeOK, ContentOf
<1>25. CASE \E r \in Releases : StartRelease(r) \/ StartInstall(r)
  BY <1>6, <1>25, <1>26
<1> QED
  BY <1>7, <1>8, <1>9, <1>10, <1>11, <1>12, <1>13, <1>14, <1>15, <1>17, <1>18, <1>19,
     <1>20, <1>21, <1>22, <1>23, <1>24, <1>25 DEF SwitchNext

LEMMA LossesCounted == SwitchSpec => [](losses \in Nat)
<1>1. SwitchInit => losses \in Nat
  BY DEF SwitchInit
<1>2. losses \in Nat /\ [SwitchNext]_switchVars => (losses \in Nat)'
  BY DEF SwitchNext, switchVars, StartRelease, StartInstall, StartRollback, WriteFile, CheckIntent,
         VerifyRelease, VerifyRollback, Register, Registered, InstallFails, Activate,
         Record, BeginIntent, ComposeUp, Probe, Complete, Restore, Abort, Recover,
         VerifyLive, ScriptEnds, ContainerTurns, LoseState
<1> QED
  BY <1>1, <1>2, PTL DEF SwitchSpec

(* What a script has yet to write is at most one write of the document,     *)
(* which extends the line once that is established.                         *)
THEOREM LineInvHolds == SwitchSpec => []LineInv
<1>1. LineInv /\ losses \in Nat /\ [SwitchNext]_switchVars => LineInv'
  <2> SUFFICES ASSUME LineInv, losses \in Nat, [SwitchNext]_switchVars PROVE LineInv'
    OBVIOUS
  <2>1. CASE SwitchNext
    BY <2>1, LineSteps
  <2>2. CASE UNCHANGED switchVars
    BY <2>2 DEF switchVars, LineInv, SwitchTypeOK, LinePlanned, Established
  <2> QED
    BY <2>1, <2>2
<1> QED
  BY <1>1, LineStarts, LossesCounted, PTL DEF SwitchSpec

(* LineageKept for every set of releases: whatever ends where, an           *)
(* established line of releases only grows by one, and a document that was  *)
(* lost is not written again (release-state.py).                            *)
THEOREM LineOnlyGrows == SwitchSpec => LineageKept
<1> DEFINE Kept == Established("portal") =>
          IF disk.portal = Absent THEN disk'.portal = Absent
          ELSE \/ losses' > losses
               \/ disk'.portal = disk.portal
               \/ disk'.portal.first = disk.portal.first
                  /\ Front(disk'.portal.line) = disk.portal.line
<1>1. LineInv /\ losses \in Nat /\ [SwitchNext]_switchVars => [Kept]_switchVars
  <2> SUFFICES ASSUME LineInv, losses \in Nat, SwitchNext PROVE Kept
    OBVIOUS
  <2>1. Established("portal") =>
             \/ losses' > losses \/ disk'.portal = disk.portal
             \/ Extends(disk.portal, disk'.portal)
    BY LineSteps
  <2>2. LoseState => disk'.portal = Absent
    BY DEF LoseState, LineInv, SwitchTypeOK, Files
  <2>3. LoseState \/ losses' = losses
    BY DEF SwitchNext, switchVars, StartRelease, StartInstall, StartRollback, WriteFile, CheckIntent,
         VerifyRelease, VerifyRollback, Register, Registered, InstallFails, Activate,
         Record, BeginIntent, ComposeUp, Probe, Complete, Restore, Abort, Recover,
         VerifyLive, ScriptEnds, ContainerTurns
  <2>4. losses' > losses => LoseState
    BY <2>3
  <2> QED
    BY <2>1, <2>2, <2>4 DEF Extends
<1>2. LineInv /\ losses \in Nat /\ (LineInv /\ losses \in Nat)' /\ [SwitchNext]_switchVars
         => [Kept]_switchVars
  BY <1>1
<1>3. [][Kept]_switchVars <=> LineageKept
  BY DEF LineageKept
<1> QED
  BY <1>2, <1>3, LineInvHolds, LossesCounted, PTL DEF SwitchSpec

-----------------------------------------------------------------------------
(* What the Portal serves, and what every script leaves for a recovery.     *)

(* What begin_portal_intent writes of a switch from a document to r.        *)
IntentTo(d, r) ==
    [base |-> IF d = Absent THEN 0 ELSE Generation(d),
     from |-> IF d = Absent THEN Absent ELSE Current(d),
     to |-> r]

BackendOnly(ws) ==
    \A i \in 1 .. Len(ws) :
        /\ ws[i].file \in {"backend", "backendMarker"}
        /\ ws[i].file = "backend"
              => ws[i].content # Absent /\ ws[i].content.line \in Seq(Releases)

Clearing == PutFile("intent", Absent)

(* One release is active in the database, and only it.                      *)
RowsSound ==
    /\ rows \in [Releases -> {"none", "installing", "active", "superseded", "failed"}]
    /\ \A r, s \in Releases : rows[r] = "active" /\ rows[s] = "active" => r = s

(* Documents name releases, the marker is there before the document, and an *)
(* intent of the first release comes from nothing.                          *)
LinesSound ==
    /\ disk.portal # Absent => disk.portal.line \in Seq(Releases) /\ disk.portalMarker # Absent
    /\ disk.backend # Absent => disk.backend.line \in Seq(Releases)
    /\ \A k \in Kinds : legacy[k] # Absent => legacy[k].line \in Seq(Releases)
    /\ disk.intent # Absent => /\ disk.intent.to \in Releases
                               /\ disk.intent.base = 0 => disk.intent.from = Absent

(* Nothing may come up where nothing was switched to.                       *)
NothingServedYet ==
    disk.portal = Absent /\ disk.portalMarker = Absent /\ legacy.portal = Absent
        /\ disk.intent = Absent => ~Upable

Compatible ==
    Upable /\ ~apart
        => \A r \in Releases : rows[r] = "active" => Wire[r] = Wire[container.release]

(* While no document was lost an intent can be completed, and where its     *)
(* switch is committed, the container is the target's.                      *)
IntentSound ==
    disk.intent # Absent /\ losses = 0 =>
        /\ MayComplete(disk.intent)
        /\ disk.intent.base = 0 => legacy.portal = Absent
        /\ disk.intent.base > 0 =>
              /\ disk.intent.from # disk.intent.to /\ disk.intent.from # Absent
              /\ Committed(disk.intent) => container.release = disk.intent.to

Installing == {"install", "migrations", "record"}
Switching == {"up", "probe", "restore"}

(* Which script can be at which step, and for which release.                *)
NamesSound ==
    script # NoScript =>
      /\ script.name \in {"release", "install"} => script.release \in Releases
      /\ script.step \in Installing => script.name \in {"release", "install"}
      /\ script.step \in {"check", "verify", "begin"} \cup Switching
           => script.name \notin {"recover", "install"}
      /\ script.step \in {"begin"} \cup Switching => script.release \in Releases
      /\ script.step = "live" =>
            /\ script.name = "recover" /\ disk.intent # Absent /\ script.release # Absent
            /\ script.release \in {disk.intent.to, disk.intent.from}

Settled == IF disk.portal = Absent THEN legacy.portal = Absent ELSE Established("portal")

(* What a script has yet to write, by its step.  What is left of a          *)
(* migration, a completion or an abortion is what the same command would    *)
(* write if it began now: each can be cut off anywhere and begun again.     *)
WritesSound ==
    script # NoScript =>
      /\ script.step = "check" =>
            /\ MayMigrate("portal")
            /\ \E b \in Seq(Writes) :
                  BackendOnly(b) /\ script.writes = Migration("portal") \o b
      /\ script.step = "verify" =>
            \/ script.writes = <<>> /\ disk.intent = Absent
            \/ script.writes = Clearing /\ disk.portal # Absent
      /\ script.step \in {"install", "installed", "begin", "live"}
            => BackendOnly(script.writes)
      /\ script.step \in {"migrations", "record", "probe", "restore", "complete", "abort"}
            => script.writes = <<>>
      /\ script.step = "up" =>
            \/ script.writes = <<>>
            \/ /\ script.writes = PutFile("intent", IntentTo(disk.portal, script.release))
               /\ MayLoad("portal") /\ Settled
               /\ IntentTo(disk.portal, script.release).from # script.release
      /\ script.step = "done" =>
            \/ script.writes = <<>>
            \/ /\ disk.intent # Absent /\ MayComplete(disk.intent)
               /\ container.release = disk.intent.to
               /\ script.writes = Completion(disk.intent)
            \/ /\ disk.intent # Absent /\ MayAbort(disk.intent)
               /\ disk.intent.base = 0 => ~Upable
               /\ script.writes = Abortion(disk.intent)

(* What the script has made sure of.                                        *)
PathSound ==
    script # NoScript =>
      /\ script.step \in {"verify", "begin"} => Settled
      /\ script.name = "release" /\ script.step \in Installing => Settled
      /\ script.step \in Switching \cup {"complete", "abort"} /\ script.name # "recover"
            /\ script.writes = <<>> => disk.intent = IntentTo(disk.portal, script.release)
      /\ script.step \in {"complete", "abort"} => disk.intent # Absent
      /\ script.step = "complete" /\ script.name = "recover"
            => container.release = disk.intent.to
      /\ script.step = "abort" => (disk.intent.base = 0 => ~Upable)

(* The wires that were compared.                                            *)
WiresSound ==
    script # NoScript =>
      /\ script.name = "release" /\ script.step \in Installing \cup {"begin"} \cup Switching
           => (disk.portal # Absent => Wire[Current(disk.portal)] = Wire[script.release])
      /\ script.name = "release" /\ script.step \in {"install", "migrations"}
           => (Upable => Wire[container.release] = Wire[script.release])
      /\ script.name = "release" /\ script.step \in {"record", "begin"} \cup Switching
           => rows[script.release] = "active"
      /\ script.name = "rollback" /\ script.step \in {"begin"} \cup Switching
           => /\ disk.portal # Absent
              /\ \A r \in Releases : rows[r] = "active"
                   => Wire[r] = Wire[script.release] /\ Wire[r] = Wire[Current(disk.portal)]

WorldSound == RowsSound /\ LinesSound /\ NothingServedYet /\ Compatible /\ IntentSound

ScriptSound == NamesSound /\ WritesSound /\ PathSound /\ WiresSound

SwitchInv == LineInv /\ losses \in Nat /\ WorldSound /\ ScriptSound

(* Sequences of writes.                                                     *)
LEMMA FirstOfWrites ==
  ASSUME NEW s \in Seq(Writes), NEW t \in Seq(Writes)
  PROVE  /\ s # <<>> => Head(s \o t) = Head(s) /\ Tail(s \o t) = Tail(s) \o t /\ s \o t # <<>>
         /\ <<>> \o t = t /\ s \o <<>> = s
  OBVIOUS

LEMMA Reassociated ==
  \A s, t, u \in Seq(Writes) : (s \o t) \o u = s \o (t \o u)
  OBVIOUS

LEMMA Nested ==
  ASSUME NEW p \in Seq(Writes), NEW m \in Seq(Writes), NEW t \in Seq(Writes)
  PROVE  /\ \A s \in Seq(Writes) : ((s \o p) \o m) \o t = s \o (p \o (m \o t))
         /\ m \o t \in Seq(Writes) /\ p \o (m \o t) \in Seq(Writes)
<1>1. m \o t \in Seq(Writes)
  BY Joined
<1>2. p \o (m \o t) \in Seq(Writes)
  BY <1>1, Joined
<1>3. \A x \in Seq(Writes) : (x \o m) \o t = x \o (m \o t)
  BY Reassociated
<1>4. \A x, y \in Seq(Writes) : (x \o p) \o y = x \o (p \o y)
  BY Reassociated
<1>5. \A x \in Seq(Writes) : x \o p \in Seq(Writes)
  BY Joined
<1> QED
  BY <1>1, <1>2, <1>3, <1>4, <1>5, Zenon

LEMMA OnePut ==
  ASSUME NEW f \in Files, NEW c \in ContentOf(f), NEW t \in Seq(Writes)
  PROVE  /\ PutFile(f, c) \o t \in Seq(Writes) /\ PutFile(f, c) \o t # <<>>
         /\ Head(PutFile(f, c) \o t) = [file |-> f, content |-> c]
         /\ Tail(PutFile(f, c) \o t) = t
<1>1. PICK w : w = [file |-> f, content |-> c]
  OBVIOUS
<1>2. PICK s \in Seq(Writes) : s = PutFile(f, c)
  BY PutFileIs
<1>3. s = <<w>>
  BY <1>1, <1>2 DEF PutFile
<1>4. s # <<>> /\ Head(s) = w /\ Tail(s) = <<>>
  BY <1>3
<1>5. Head(s \o t) = w /\ Tail(s \o t) = <<>> \o t /\ s \o t # <<>>
  <2>1. Head(s \o t) = Head(s) /\ Tail(s \o t) = Tail(s) \o t /\ s \o t # <<>>
    BY <1>4, FirstOfWrites
  <2> QED
    BY <1>4, <2>1
<1>6. s \o t \in Seq(Writes) /\ <<>> \o t = t
  BY FirstOfWrites
<1> QED
  BY <1>1, <1>2, <1>5, <1>6

LEMMA PutAlone ==
  ASSUME NEW f \in Files, NEW c \in ContentOf(f)
  PROVE  PutFile(f, c) = PutFile(f, c) \o <<>> /\ <<>> \in Seq(Writes)
<1>1. PutFile(f, c) \in Seq(Writes)
  BY PutFileIs
<1> QED
  BY <1>1, FirstOfWrites

LEMMA BackendLater ==
  ASSUME NEW ws \in Seq(Writes), ws # <<>>, BackendOnly(ws)
  PROVE  /\ BackendOnly(Tail(ws)) /\ Tail(ws) \in Seq(Writes)
         /\ Head(ws).file \in {"backend", "backendMarker"}
         /\ Head(ws).file = "backend"
              => Head(ws).content # Absent /\ Head(ws).content.line \in Seq(Releases)
<1>1. Head(ws) = ws[1] /\ 1 \in 1 .. Len(ws)
  BY EmptySeq, LenProperties, HeadTailProperties
<1>2. Tail(ws) \in Seq(Writes) /\ Len(Tail(ws)) = Len(ws) - 1
      /\ \A i \in 1 .. Len(Tail(ws)) : Tail(ws)[i] = ws[i + 1]
  BY HeadTailProperties
<1>3. \A i \in 1 .. Len(Tail(ws)) : i + 1 \in 1 .. Len(ws)
  BY <1>2, LenProperties
<1>4. BackendOnly(Tail(ws))
  BY <1>2, <1>3 DEF BackendOnly
<1> QED
  BY <1>1, <1>2, <1>4 DEF BackendOnly

(* A step of the script that writes.                                        *)
LEMMA Written ==
  ASSUME SwitchTypeOK, WriteFile
  PROVE  /\ script # NoScript /\ script.writes \in Seq(Writes) /\ script.writes # <<>>
         /\ script'.writes = Tail(script.writes) /\ script'.name = script.name
         /\ script'.release = script.release /\ script'.step = script.step
         /\ script' # NoScript
         /\ UNCHANGED <<container, rows, legacy, losses, apart>>
         /\ \A f \in Files : disk'[f] = IF Head(script.writes).file = f
                                        THEN Head(script.writes).content ELSE disk[f]
<1>1. script # NoScript /\ script.name \in {"release", "rollback", "recover", "install"}
  BY DEF WriteFile, NoScript, SwitchTypeOK
<1>2. script.writes \in Seq(Writes) /\ script.writes # <<>>
  BY <1>1 DEF WriteFile, SwitchTypeOK
<1>3. script' = [script EXCEPT !.writes = Tail(@)]
  BY DEF WriteFile
<1>4. script \in [name : {"release", "rollback", "recover", "install"}, release : Values,
                  step : ScriptSteps, writes : Seq(Writes)]
  BY <1>1 DEF SwitchTypeOK
<1>5. /\ script'.writes = Tail(script.writes) /\ script'.name = script.name
      /\ script'.release = script.release /\ script'.step = script.step
  BY <1>3, <1>4
<1>6. script' # NoScript
  BY <1>1, <1>5 DEF NoScript
<1>7. \A f \in Files : disk'[f] = IF Head(script.writes).file = f
                                  THEN Head(script.writes).content ELSE disk[f]
  BY DEF WriteFile, SwitchTypeOK
<1> QED
  BY <1>1, <1>2, <1>5, <1>6, <1>7 DEF WriteFile

LEMMA WrittenPut ==
  ASSUME SwitchTypeOK, WriteFile, NEW f \in Files, NEW c \in ContentOf(f),
         NEW t \in Seq(Writes), script.writes = PutFile(f, c) \o t
  PROVE  /\ script'.writes = t /\ disk'[f] = c
         /\ \A g \in Files : g # f => disk'[g] = disk[g]
<1>1. PICK w : w = [file |-> f, content |-> c]
  OBVIOUS
<1>2. Head(script.writes) = w /\ Tail(script.writes) = t
  BY <1>1, OnePut
<1>3. w.file = f /\ w.content = c
  BY <1>1
<1> QED
  BY <1>2, <1>3, Written

LEMMA AbsentIsNone ==
  /\ Absent \notin Releases /\ Absent \notin Docs /\ Absent \notin Markers
  /\ Absent \notin Intents
<1>1. Absent \notin Docs
  BY AbsentAssumption DEF AbsentAssumption, Docs, Values
<1>2. Absent \notin Markers
  BY AbsentAssumption DEF AbsentAssumption, Markers, Docs, Values
<1>3. Absent \notin Intents
  BY AbsentAssumption DEF AbsentAssumption, Intents, Values
<1> QED
  BY <1>1, <1>2, <1>3, AbsentAssumption DEF AbsentAssumption

LEMMA FilesAre ==
  ASSUME SwitchTypeOK
  PROVE  /\ disk.portal \in Docs \cup {Absent} /\ disk.backend \in Docs \cup {Absent}
         /\ disk.portalMarker \in Markers \cup {Absent}
         /\ disk.backendMarker \in Markers \cup {Absent}
         /\ disk.intent \in Intents \cup {Absent}
         /\ legacy.portal \in Docs \cup {Absent}
         /\ MarkerOf["portal"] = "portalMarker"
         /\ Established("portal") = (disk.portalMarker # Absent /\ disk.portalMarker.established)
  BY DEF SwitchTypeOK, Files, Kinds, ContentOf, MarkerOf, Established

LEMMA PortalFiles ==
  ASSUME NEW d \in Docs, NEW b \in BOOLEAN
  PROVE  /\ "portal" \in Files /\ d \in ContentOf("portal") /\ Absent \in ContentOf("portal")
         /\ "portalMarker" \in Files /\ MarkerFor(d, b) \in ContentOf("portalMarker")
         /\ Absent \in ContentOf("portalMarker")
         /\ "intent" \in Files /\ Absent \in ContentOf("intent")
         /\ MarkerFor(d, b).established = b /\ MarkerFor(d, b).origin = Origin(d)
         /\ MarkerFor(d, b) # Absent /\ d # Absent
<1>1. "portal" \in Kinds /\ MarkerOf["portal"] = "portalMarker"
  BY DEF Kinds, MarkerOf
<1>2. MarkerFor(d, b) \in Markers /\ MarkerFor(d, b) \in ContentOf("portalMarker")
  BY <1>1, MarkerIsTyped
<1>3. MarkerFor(d, b).established = b /\ MarkerFor(d, b).origin = Origin(d)
  BY DEF MarkerFor
<1> QED
  BY <1>2, <1>3, AbsentIsNone DEF Files, ContentOf, Kinds

(* A write of another subsystem's files.                                    *)
LEMMA BackendWritten ==
  ASSUME SwitchTypeOK, WriteFile, BackendOnly(script.writes)
  PROVE  /\ UNCHANGED <<disk.portal, disk.portalMarker, disk.intent>>
         /\ \/ disk'.backend = disk.backend
            \/ disk'.backend # Absent /\ disk'.backend.line \in Seq(Releases)
         /\ BackendOnly(script'.writes) /\ script'.writes \in Seq(Writes)
<1>1. script.writes \in Seq(Writes) /\ script.writes # <<>>
      /\ script'.writes = Tail(script.writes)
  BY Written
<1>2. Head(script.writes).file \in {"backend", "backendMarker"}
  BY <1>1, BackendLater
<1>3. disk'.portal = disk.portal /\ disk'.portalMarker = disk.portalMarker
      /\ disk'.intent = disk.intent
  BY <1>2, Written DEF Files
<1>4. \/ disk'.backend = disk.backend
      \/ disk'.backend # Absent /\ disk'.backend.line \in Seq(Releases)
  <2>1. Head(script.writes).file = "backend"
          => /\ Head(script.writes).content # Absent
             /\ Head(script.writes).content.line \in Seq(Releases)
    BY <1>1, BackendLater
  <2>2. disk'.backend = IF Head(script.writes).file = "backend"
                        THEN Head(script.writes).content ELSE disk.backend
    BY Written DEF Files
  <2> QED
    BY <2>1, <2>2
<1> QED
  BY <1>1, <1>3, <1>4, BackendLater

(* What Establish has left is what it would write now.                      *)
LEMMA EstablishIs ==
  ASSUME SwitchTypeOK, NEW d \in Docs, NEW t \in Seq(Writes)
  PROVE  \E rest \in Seq(Writes), last \in Seq(Writes) :
           /\ last = PutFile("portalMarker", MarkerFor(d, TRUE)) \o t
           /\ rest = PutFile("portal", d) \o last
           /\ Establish("portal", d) \o t =
                IF disk.portalMarker = Absent
                THEN PutFile("portalMarker", MarkerFor(d, FALSE)) \o rest
                ELSE rest
<1>1. PICK a \in Seq(Writes) : a = PutFile("portalMarker", MarkerFor(d, FALSE))
  BY PortalFiles, PutFileIs
<1>2. PICK p \in Seq(Writes) : p = PutFile("portal", d)
  BY PortalFiles, PutFileIs
<1>3. PICK m \in Seq(Writes) : m = PutFile("portalMarker", MarkerFor(d, TRUE))
  BY PortalFiles, PutFileIs
<1>4. /\ \A s \in Seq(Writes) : ((s \o p) \o m) \o t = s \o (p \o (m \o t))
      /\ m \o t \in Seq(Writes) /\ p \o (m \o t) \in Seq(Writes)
  BY Nested
<1>5. PICK rest \in Seq(Writes), last \in Seq(Writes) : rest = p \o (m \o t) /\ last = m \o t
  BY <1>4
<1>6. \A s \in Seq(Writes) : ((s \o p) \o m) \o t = s \o rest
  BY <1>4, <1>5, Zenon
<1>7. <<>> \in Seq(Writes) /\ <<>> \o rest = rest
  BY FirstOfWrites
<1>8. Establish("portal", d) \o t = IF disk.portalMarker = Absent THEN a \o rest ELSE rest
  <2>1. CASE disk.portalMarker = Absent
    <3>1. Establish("portal", d) = (a \o p) \o m
      BY <1>1, <1>2, <1>3, <2>1, FilesAre DEF Establish
    <3> QED
      BY <1>6, <2>1, <3>1
  <2>2. CASE disk.portalMarker # Absent
    <3>1. Establish("portal", d) = (<<>> \o p) \o m
      BY <1>1, <1>2, <1>3, <2>2, FilesAre DEF Establish
    <3> QED
      BY <1>6, <1>7, <2>2, <3>1
  <2> QED
    BY <2>1, <2>2
<1> QED
  BY <1>1, <1>2, <1>3, <1>4, <1>5, <1>8

(* A step of a script that is establishing a document: it makes the marker  *)
(* a tombstone, or puts the document under one, and has the rest to do.     *)
LEMMA EstablishStep ==
  ASSUME SwitchTypeOK, WriteFile, SwitchTypeOK', NEW d \in Docs, NEW t \in Seq(Writes),
         script.writes = Establish("portal", d) \o t
  PROVE  /\ disk'.intent = disk.intent /\ disk'.backend = disk.backend
         /\ disk.portalMarker = Absent =>
              /\ disk'.portal = disk.portal
              /\ disk'.portalMarker = MarkerFor(d, FALSE)
              /\ script'.writes = Establish("portal", d)' \o t
         /\ disk.portalMarker # Absent =>
              /\ disk'.portal = d /\ disk'.portalMarker = disk.portalMarker
              /\ script'.writes = PutFile("portalMarker", MarkerFor(d, TRUE)) \o t
<1>1. PICK rest \in Seq(Writes), last \in Seq(Writes) :
           /\ last = PutFile("portalMarker", MarkerFor(d, TRUE)) \o t
           /\ rest = PutFile("portal", d) \o last
           /\ Establish("portal", d) \o t =
                IF disk.portalMarker = Absent
                THEN PutFile("portalMarker", MarkerFor(d, FALSE)) \o rest
                ELSE rest
  BY EstablishIs
<1>2. CASE disk.portalMarker = Absent
  <2>1. script.writes = PutFile("portalMarker", MarkerFor(d, FALSE)) \o rest
    BY <1>1, <1>2
  <2>2. script'.writes = rest /\ disk'["portalMarker"] = MarkerFor(d, FALSE)
        /\ \A g \in Files : g # "portalMarker" => disk'[g] = disk[g]
    <3>1. PICK c \in ContentOf("portalMarker") : c = MarkerFor(d, FALSE)
      BY PortalFiles
    <3>2. "portalMarker" \in Files
      BY DEF Files
    <3> QED
      BY <2>1, <3>1, <3>2, WrittenPut
  <2>3. /\ disk'.portal = disk.portal /\ disk'.intent = disk.intent
        /\ disk'.portalMarker = MarkerFor(d, FALSE) /\ disk'.backend = disk.backend
    BY <2>2 DEF Files
  <2>4. disk'.portalMarker # Absent
    BY <2>3, PortalFiles
  <2>5. Establish("portal", d)' = (<<>> \o PutFile("portal", d))
                                    \o PutFile("portalMarker", MarkerFor(d, TRUE))
    BY <2>4 DEF Establish, MarkerOf
  <2>6. PICK p \in Seq(Writes) : p = PutFile("portal", d)
    BY PortalFiles, PutFileIs
  <2>7. PICK m \in Seq(Writes) : m = PutFile("portalMarker", MarkerFor(d, TRUE))
    BY PortalFiles, PutFileIs
  <2>8. <<>> \o p = p
    BY FirstOfWrites
  <2>9. (p \o m) \o t = p \o (m \o t)
    BY Reassociated
  <2>10. script'.writes = Establish("portal", d)' \o t
    BY <1>1, <2>2, <2>5, <2>6, <2>7, <2>8, <2>9
  <2> QED
    BY <1>2, <2>3, <2>10
<1>3. CASE disk.portalMarker # Absent
  <2>1. script.writes = PutFile("portal", d) \o last
    BY <1>1, <1>3
  <2>2. script'.writes = last /\ disk'["portal"] = d
        /\ \A g \in Files : g # "portal" => disk'[g] = disk[g]
    <3>1. d \in ContentOf("portal")
      BY PortalFiles
    <3>2. "portal" \in Files
      BY DEF Files
    <3> QED
      BY <2>1, <3>1, <3>2, WrittenPut
  <2> QED
    BY <1>1, <1>3, <2>2 DEF Files
<1> QED
  BY <1>2, <1>3

(* A step of a script that is migrating: what it has left is what a         *)
(* migration would still do, and it changes no document that is there.      *)
LEMMA MigrationStep ==
  ASSUME SwitchTypeOK, SwitchTypeOK', WriteFile, MayMigrate("portal"), NEW b \in Seq(Writes),
         BackendOnly(b), script.writes = Migration("portal") \o b
  PROVE  /\ MayMigrate("portal")' /\ disk'.intent = disk.intent
         /\ \E c \in Seq(Writes) :
               BackendOnly(c) /\ script'.writes = Migration("portal")' \o c
         /\ \/ disk'.backend = disk.backend
            \/ disk'.backend # Absent /\ disk'.backend.line \in Seq(Releases)
         /\ \/ disk'.portal = disk.portal /\ disk'.portalMarker = disk.portalMarker
            \/ /\ disk.portal # Absent /\ ~Established("portal")
               /\ disk'.portal = disk.portal
               /\ disk'.portalMarker = MarkerFor(disk.portal, TRUE)
            \/ /\ disk.portal = Absent /\ legacy.portal # Absent
               /\ disk'.portal \in {Absent, legacy.portal} /\ disk'.portalMarker # Absent
<1>1. /\ disk.portal \in Docs \cup {Absent} /\ legacy.portal \in Docs \cup {Absent}
      /\ Established("portal") = (disk.portalMarker # Absent /\ disk.portalMarker.established)
      /\ Established("portal")' = (disk'.portalMarker # Absent /\ disk'.portalMarker.established)
      /\ disk["portal"] = disk.portal /\ MarkerOf["portal"] = "portalMarker"
      /\ UNCHANGED legacy
  BY FilesAre, Written DEF Established, MarkerOf
<1>2. CASE (disk.portal # Absent /\ Established("portal"))
             \/ (disk.portal = Absent /\ legacy.portal = Absent)
  <2>1. script.writes = b
    BY <1>1, <1>2, FirstOfWrites DEF Migration
  <2>2. /\ disk'.portal = disk.portal /\ disk'.portalMarker = disk.portalMarker
        /\ disk'.intent = disk.intent
        /\ BackendOnly(script'.writes) /\ script'.writes \in Seq(Writes)
        /\ \/ disk'.backend = disk.backend
           \/ disk'.backend # Absent /\ disk'.backend.line \in Seq(Releases)
    BY <2>1, BackendWritten
  <2>4. Migration("portal")' = <<>>
    BY <1>1, <1>2, <2>2 DEF Migration
  <2>5. MayMigrate("portal")'
    BY <1>1, <1>2, <2>2 DEF MayMigrate, Matches
  <2>6. script'.writes = <<>> \o script'.writes
    BY <2>2, FirstOfWrites
  <2> QED
    BY <2>2, <2>4, <2>5, <2>6
<1>3. CASE disk.portal # Absent /\ ~Established("portal")
  <2>1. Migration("portal") = PutFile("portalMarker", MarkerFor(disk.portal, TRUE))
    BY <1>1, <1>3 DEF Migration
  <2>2. PICK c \in ContentOf("portalMarker") : c = MarkerFor(disk.portal, TRUE)
    BY <1>1, <1>3, PortalFiles
  <2>3. "portalMarker" \in Files
    BY DEF Files
  <2>4. /\ script'.writes = b /\ disk'["portalMarker"] = c
        /\ \A g \in Files : g # "portalMarker" => disk'[g] = disk[g]
    <3>1. script.writes = PutFile("portalMarker", c) \o b
      BY <2>1, <2>2
    <3> QED
      BY <2>3, <3>1, WrittenPut
  <2>5. /\ disk'.portal = disk.portal /\ disk'.intent = disk.intent
        /\ disk'.portalMarker = MarkerFor(disk.portal, TRUE)
        /\ disk'.backend = disk.backend
    BY <2>2, <2>4 DEF Files
  <2>6. Established("portal")'
    BY <1>1, <1>3, <2>5, PortalFiles
  <2>7. Migration("portal")' = <<>> /\ MayMigrate("portal")'
    <3>1. disk'.portalMarker.origin = Origin(disk'.portal)
      BY <1>1, <1>3, <2>5, PortalFiles
    <3> QED
      BY <1>1, <1>3, <2>5, <2>6, <3>1 DEF Migration, MayMigrate, Matches
  <2>8. b = <<>> \o b
    BY FirstOfWrites
  <2> QED
    BY <1>3, <2>4, <2>5, <2>7, <2>8
<1>4. CASE disk.portal = Absent /\ legacy.portal # Absent
  <2>1. PICK d \in Docs : d = legacy.portal
    BY <1>1, <1>4
  <2>2. Migration("portal") = Establish("portal", d) /\ ~Established("portal")
        /\ (disk.portalMarker # Absent => disk.portalMarker.origin = Origin(d))
    BY <1>1, <1>4, <2>1 DEF Migration, MayMigrate, Matches
  <2>3. script.writes = Establish("portal", d) \o b
    BY <2>2
  <2>4. /\ disk'.intent = disk.intent /\ disk'.backend = disk.backend
        /\ disk.portalMarker = Absent =>
              /\ disk'.portal = disk.portal
              /\ disk'.portalMarker = MarkerFor(d, FALSE)
              /\ script'.writes = Establish("portal", d)' \o b
        /\ disk.portalMarker # Absent =>
              /\ disk'.portal = d /\ disk'.portalMarker = disk.portalMarker
              /\ script'.writes = PutFile("portalMarker", MarkerFor(d, TRUE)) \o b
    BY <2>3, EstablishStep
  <2>5. CASE disk.portalMarker = Absent
    <3>1. /\ disk'.portalMarker # Absent /\ ~disk'.portalMarker.established
          /\ disk'.portalMarker.origin = Origin(d) /\ disk'.portal = Absent
      BY <1>4, <2>4, <2>5, PortalFiles
    <3>2. MayMigrate("portal")'
      BY <1>1, <1>4, <2>1, <3>1 DEF MayMigrate, Matches
    <3>3. Migration("portal")' = Establish("portal", d)'
      BY <1>1, <1>4, <2>1, <3>1 DEF Migration, Establish
    <3> QED
      BY <1>4, <2>4, <2>5, <3>1, <3>2, <3>3
  <2>6. CASE disk.portalMarker # Absent
    <3>1. disk'.portal = d /\ d # Absent /\ disk'.portalMarker = disk.portalMarker
      BY <2>4, <2>6, PortalFiles
    <3>2. MayMigrate("portal")'
      BY <1>1, <2>2, <2>6, <3>1 DEF MayMigrate, Matches
    <3>3. Migration("portal")' = PutFile("portalMarker", MarkerFor(d, TRUE))
      BY <1>1, <2>2, <3>1 DEF Migration
    <3> QED
      BY <1>4, <2>1, <2>4, <2>6, <3>1, <3>2, <3>3
  <2> QED
    BY <2>5, <2>6
<1> QED
  BY <1>2, <1>3, <1>4

LEMMA MigrationDone ==
  ASSUME SwitchTypeOK, NEW b \in Seq(Writes), Migration("portal") \o b = <<>>
  PROVE  IF disk.portal = Absent THEN legacy.portal = Absent ELSE Established("portal")
<1>1. /\ disk.portal \in Docs \cup {Absent} /\ legacy.portal \in Docs \cup {Absent}
      /\ disk["portal"] = disk.portal /\ MarkerOf["portal"] = "portalMarker"
  BY FilesAre DEF MarkerOf
<1>2. "portal" \in Files /\ "portalMarker" \in Files
  BY DEF Files
<1>3. ASSUME disk.portal # Absent, ~Established("portal") PROVE FALSE
  <2>1. Migration("portal") = PutFile("portalMarker", MarkerFor(disk.portal, TRUE))
    BY <1>1, <1>3 DEF Migration
  <2>2. PICK c \in ContentOf("portalMarker") : c = MarkerFor(disk.portal, TRUE)
    BY <1>1, <1>3, PortalFiles
  <2>3. PutFile("portalMarker", c) \o b # <<>>
    BY <1>2, OnePut
  <2> QED
    BY <2>1, <2>2, <2>3
<1>4. ASSUME disk.portal = Absent, legacy.portal # Absent PROVE FALSE
  <2>1. PICK d \in Docs : d = legacy.portal
    BY <1>1, <1>4
  <2>2. Migration("portal") = Establish("portal", d)
    BY <1>1, <1>4, <2>1 DEF Migration
  <2>3. PICK rest \in Seq(Writes), last \in Seq(Writes) :
           /\ last = PutFile("portalMarker", MarkerFor(d, TRUE)) \o b
           /\ rest = PutFile("portal", d) \o last
           /\ Establish("portal", d) \o b =
                IF disk.portalMarker = Absent
                THEN PutFile("portalMarker", MarkerFor(d, FALSE)) \o rest
                ELSE rest
    BY EstablishIs
  <2>4. d \in ContentOf("portal")
    BY PortalFiles
  <2>5. PICK c \in ContentOf("portalMarker") : c = MarkerFor(d, FALSE)
    BY PortalFiles
  <2>6. PutFile("portal", d) \o last # <<>>
    BY <1>2, <2>4, OnePut
  <2>7. PutFile("portalMarker", c) \o rest # <<>>
    BY <1>2, OnePut
  <2> QED
    BY <2>2, <2>3, <2>5, <2>6, <2>7
<1> QED
  BY <1>3, <1>4

(* One release more on the line.                                            *)
LEMMA LineAppended ==
  ASSUME NEW d \in Docs, d.line \in Seq(Releases), NEW r \in Releases
  PROVE  LET e == [d EXCEPT !.line = Append(@, r)] IN
         /\ e \in Docs /\ e.line \in Seq(Releases)
         /\ Generation(e) = Generation(d) + 1 /\ Generation(d) \in Nat /\ Generation(d) > 0
         /\ Current(e) = r /\ Previous(e) = Current(d)
         /\ Origin(e) = Origin(d) /\ Current(d) \in Releases
<1>1. PICK s \in Seq(Releases) : s = d.line
  OBVIOUS
<1>2. s # <<>> /\ Len(s) \in Nat /\ Len(s) > 0
  BY <1>1, EmptySeq, LenProperties DEF Docs
<1>3. PICK t \in Seq(Releases) : t = Append(s, r)
  BY AppendProperties
<1>4. /\ Len(t) = Len(s) + 1 /\ t[Len(s) + 1] = r
      /\ \A i \in 1 .. Len(s) : t[i] = s[i]
  BY <1>3, AppendProperties
<1>5. PICK e : e = [d EXCEPT !.line = Append(@, r)]
  OBVIOUS
<1>6. e.line = t /\ e.first = d.first /\ e \in Docs
  <2>1. r \in Values
    BY DEF Values
  <2>2. e \in Docs
    BY <1>5, <2>1, DocIs
  <2> QED
    BY <1>1, <1>3, <1>5, <2>2 DEF Docs
<1>7. Generation(e) = Generation(d) + 1 /\ Generation(d) \in Nat /\ Generation(d) > 0
  BY <1>1, <1>2, <1>4, <1>6 DEF Generation
<1>8. Current(e) = r
  BY <1>2, <1>4, <1>6 DEF Current, Last
<1>9. s[Len(s)] \in Releases
  BY <1>2, ElementOfSeq
<1>10. Current(d) = s[Len(s)]
  BY <1>1 DEF Current, Last
<1>11. Previous(e) = s[Len(s)]
  <2>1. Len(e.line) # 1 /\ Len(e.line) - 1 = Len(s) /\ Len(s) \in 1 .. Len(s)
    BY <1>2, <1>4, <1>6
  <2> QED
    BY <1>4, <1>6, <2>1 DEF Previous
<1>12. Origin(e) = Origin(d)
  <2>1. t[1] = s[1]
    BY <1>2, <1>4
  <2> QED
    BY <1>1, <1>6, <2>1 DEF Origin
<1> QED
  BY <1>3, <1>5, <1>6, <1>7, <1>8, <1>9, <1>10, <1>11, <1>12

LEMMA FirstIs ==
  ASSUME NEW i \in Intents, i.to \in Releases
  PROVE  FirstOf(i) \in Docs /\ FirstOf(i) # Absent /\ FirstOf(i).line \in Seq(Releases)
<1>1. PICK r \in Releases : r = i.to
  OBVIOUS
<1>2. <<r>> \in Seq(Releases)
  OBVIOUS
<1>3. <<r>> \in Seq(Values) \ {<<>>}
  BY DEF Values
<1>4. FirstOf(i) = [first |-> Absent, line |-> <<r>>]
  BY <1>1 DEF FirstOf, Document
<1>5. FirstOf(i) \in Docs
  BY <1>3, <1>4 DEF Docs, Values
<1> QED
  BY <1>2, <1>4, <1>5, AbsentIsNone

(* The last write of a script that settles an intent.                       *)
LEMMA ClearStep ==
  ASSUME SwitchTypeOK, WriteFile, script.writes = Clearing
  PROVE  /\ script'.writes = <<>> /\ disk'.intent = Absent
         /\ disk'.portal = disk.portal /\ disk'.portalMarker = disk.portalMarker
         /\ disk'.backend = disk.backend
<1>1. "intent" \in Files /\ Absent \in ContentOf("intent") /\ <<>> \in Seq(Writes)
  BY DEF Files, ContentOf
<1>2. script.writes = PutFile("intent", Absent) \o <<>>
  BY <1>1, PutAlone DEF Clearing
<1>3. /\ script'.writes = <<>> /\ disk'["intent"] = Absent
      /\ \A g \in Files : g # "intent" => disk'[g] = disk[g]
  BY <1>1, <1>2, WrittenPut
<1> QED
  BY <1>3 DEF Files

(* A step of a script that completes an intent.                             *)
LEMMA CompletionStep ==
  ASSUME SwitchTypeOK, SwitchTypeOK', LinesSound, WriteFile, NEW i \in Intents,
         i.to \in Releases, MayComplete(i), script.writes = Completion(i)
  PROVE  /\ disk'.backend = disk.backend
         /\ \/ /\ script'.writes = <<>> /\ disk'.intent = Absent
               /\ disk'.portal = disk.portal /\ disk'.portalMarker = disk.portalMarker
               /\ disk.portalMarker # Absent
            \/ /\ disk'.intent = disk.intent /\ script'.writes = Completion(i)'
               /\ MayComplete(i)' /\ disk'.portalMarker # Absent
               /\ disk'.portal # Absent => disk'.portal.line \in Seq(Releases)
<1>1. /\ disk.portal \in Docs \cup {Absent}
      /\ Established("portal") = (disk.portalMarker # Absent /\ disk.portalMarker.established)
      /\ Established("portal")' = (disk'.portalMarker # Absent /\ disk'.portalMarker.established)
      /\ MarkerOf["portal"] = "portalMarker" /\ disk["portal"] = disk.portal
      /\ disk'["portal"] = disk'.portal
      /\ disk.portal # Absent => disk.portal.line \in Seq(Releases) /\ disk.portalMarker # Absent
  BY FilesAre DEF Established, MarkerOf, LinesSound
<1>2. /\ Clearing \in Seq(Writes) /\ <<>> \o Clearing = Clearing
      /\ Clearing' = Clearing
  <2>1. Clearing \in Seq(Writes)
    BY IntentCleared DEF Clearing
  <2> QED
    BY <2>1, FirstOfWrites DEF Clearing
<1>3. FirstOf(i) \in Docs /\ FirstOf(i) # Absent /\ FirstOf(i).line \in Seq(Releases)
  BY FirstIs
<1>4. i.base \in Nat /\ Completion(i) = Commitment(i) \o Clearing
      /\ Completion(i)' = Commitment(i)' \o Clearing
  BY <1>2 DEF Intents, Completion, Clearing
<1>5. CASE Commitment(i) = <<>> /\ disk.portalMarker # Absent
  BY <1>2, <1>4, <1>5, ClearStep
<1>6. CASE i.base > 0 /\ ~Committed(i)
  <2>1. Unmoved(i) /\ disk.portal # Absent /\ disk.portalMarker # Absent
    BY <1>1, <1>6 DEF MayComplete, Unmoved, Loadable
  <2>2. PICK d \in Docs : d = disk.portal /\ d.line \in Seq(Releases)
    BY <1>1, <2>1
  <2>3. PICK e : e = [d EXCEPT !.line = Append(@, i.to)]
    OBVIOUS
  <2>4. /\ e \in Docs /\ e.line \in Seq(Releases)
        /\ Generation(e) = Generation(d) + 1
        /\ Current(e) = i.to /\ Previous(e) = Current(d)
        /\ Origin(e) = Origin(d)
    BY <2>2, <2>3, LineAppended
  <2>5. e # Absent /\ e \in ContentOf("portal") /\ "portal" \in Files
    BY <2>4, PortalFiles
  <2>6. Commitment(i) = PutFile("portal", e)
    BY <1>1, <1>6, <2>1, <2>2, <2>3 DEF Commitment, WithMarker
  <2>7. script.writes = PutFile("portal", e) \o Clearing
    BY <1>4, <2>6
  <2>8. /\ script'.writes = Clearing /\ disk'["portal"] = e
        /\ \A g \in Files : g # "portal" => disk'[g] = disk[g]
    BY <1>2, <2>5, <2>7, WrittenPut
  <2>9. /\ disk'.portal = e /\ disk'.portalMarker = disk.portalMarker
        /\ disk'.intent = disk.intent /\ disk'.backend = disk.backend
    BY <2>8 DEF Files
  <2>10. Committed(i)'
    <3>1. disk.portalMarker.established /\ disk.portalMarker.origin = Origin(d)
      BY <1>1, <2>1, <2>2 DEF Unmoved, Loadable, Matches
    <3>2. Loadable("portal")'
      BY <1>1, <2>1, <2>4, <2>5, <2>9, <3>1 DEF Loadable, Matches
    <3> QED
      BY <1>6, <2>1, <2>2, <2>4, <2>9, <3>2 DEF Committed, Unmoved
  <2>11. Commitment(i)' = <<>>
    BY <1>6, <2>10 DEF Commitment
  <2>12. script'.writes = Completion(i)'
    BY <1>2, <1>4, <2>8, <2>11
  <2>13. MayComplete(i)'
    BY <1>6, <2>10 DEF MayComplete
  <2> QED
    BY <2>1, <2>4, <2>9, <2>12, <2>13
<1>7. CASE i.base > 0 /\ Committed(i)
  <2>1. Commitment(i) = <<>> /\ disk.portalMarker # Absent
    BY <1>1, <1>7 DEF Commitment, Committed, Loadable
  <2> QED
    BY <2>1, <1>5
<1>8. CASE ~(i.base > 0) /\ Established("portal")
  <2>1. Commitment(i) = <<>> /\ disk.portalMarker # Absent
    BY <1>1, <1>8 DEF Commitment
  <2> QED
    BY <2>1, <1>5
<1>9. CASE ~(i.base > 0) /\ ~Established("portal") /\ disk.portal = Absent
  <2>1. PICK d \in Docs : d = FirstOf(i) /\ FirstOf(i)' = d
    BY <1>3 DEF FirstOf, Document
  <2>2. script.writes = Establish("portal", d) \o Clearing
    BY <1>4, <1>9, <2>1 DEF Commitment
  <2>3. disk.portalMarker # Absent => disk.portalMarker.origin = Origin(d)
    BY <1>1, <1>9, <2>1 DEF MayComplete, Matches
  <2>4. /\ disk'.intent = disk.intent /\ disk'.backend = disk.backend
        /\ disk.portalMarker = Absent =>
              /\ disk'.portal = disk.portal
              /\ disk'.portalMarker = MarkerFor(d, FALSE)
              /\ script'.writes = Establish("portal", d)' \o Clearing
        /\ disk.portalMarker # Absent =>
              /\ disk'.portal = d /\ disk'.portalMarker = disk.portalMarker
              /\ script'.writes = PutFile("portalMarker", MarkerFor(d, TRUE)) \o Clearing
    BY <1>2, <2>2, EstablishStep
  <2>5. CASE disk.portalMarker = Absent
    <3>1. /\ disk'.portalMarker # Absent /\ ~disk'.portalMarker.established
          /\ disk'.portalMarker.origin = Origin(d) /\ disk'.portal = Absent
      BY <1>9, <2>4, <2>5, PortalFiles
    <3>2. MayComplete(i)'
      BY <1>1, <1>9, <2>1, <3>1 DEF MayComplete, Matches
    <3>3. Commitment(i)' = Establish("portal", d)'
      BY <1>1, <1>9, <2>1, <3>1 DEF Commitment, Establish
    <3> QED
      BY <1>4, <2>4, <2>5, <3>1, <3>2, <3>3
  <2>6. CASE disk.portalMarker # Absent
    <3>1. disk'.portal = d /\ d # Absent /\ disk'.portalMarker = disk.portalMarker
      BY <2>4, <2>6, PortalFiles
    <3>2. MayComplete(i)'
      BY <1>1, <1>9, <2>1, <2>3, <2>6, <3>1 DEF MayComplete, Matches
    <3>3. Commitment(i)' = PutFile("portalMarker", MarkerFor(d, TRUE))
      BY <1>1, <1>9, <2>1, <3>1 DEF Commitment
    <3> QED
      BY <1>3, <1>4, <2>1, <2>4, <2>6, <3>1, <3>2, <3>3
  <2> QED
    BY <2>5, <2>6
<1>10. CASE ~(i.base > 0) /\ ~Established("portal") /\ disk.portal # Absent
  <2>1. PICK d \in Docs : d = FirstOf(i) /\ FirstOf(i)' = d
    BY <1>3 DEF FirstOf, Document
  <2>2. disk.portal = d /\ disk.portalMarker # Absent
    BY <1>1, <1>10, <2>1 DEF MayComplete
  <2>3. Commitment(i) = PutFile("portalMarker", MarkerFor(d, TRUE))
    BY <1>1, <1>10, <2>1 DEF Commitment
  <2>4. PICK c \in ContentOf("portalMarker") : c = MarkerFor(d, TRUE)
    BY PortalFiles
  <2>5. "portalMarker" \in Files /\ script.writes = PutFile("portalMarker", c) \o Clearing
    BY <1>4, <2>3, <2>4 DEF Files
  <2>6. /\ script'.writes = Clearing /\ disk'["portalMarker"] = c
        /\ \A g \in Files : g # "portalMarker" => disk'[g] = disk[g]
    BY <1>2, <2>5, WrittenPut
  <2>7. /\ disk'.portal = d /\ disk'.intent = disk.intent
        /\ disk'.portalMarker = MarkerFor(d, TRUE) /\ disk'.backend = disk.backend
    BY <2>2, <2>4, <2>6 DEF Files
  <2>8. /\ disk'.portalMarker # Absent /\ disk'.portalMarker.established
        /\ disk'.portalMarker.origin = Origin(d)
    BY <2>7, PortalFiles
  <2>9. MayComplete(i)' /\ Commitment(i)' = <<>>
    <3>1. Matches("portal", FirstOf(i))'
      BY <1>1, <2>1, <2>8 DEF Matches
    <3> QED
      BY <1>1, <1>10, <2>1, <2>7, <2>8, <3>1 DEF MayComplete, Commitment
  <2> QED
    BY <1>2, <1>3, <1>4, <2>1, <2>6, <2>7, <2>8, <2>9
<1> QED
  BY <1>6, <1>7, <1>8, <1>9, <1>10

(* A step of a script that undoes an intent.                                *)
LEMMA AbortionStep ==
  ASSUME SwitchTypeOK, SwitchTypeOK', LinesSound, WriteFile, NEW i \in Intents,
         i.to \in Releases, MayAbort(i), script.writes = Abortion(i)
  PROVE  /\ disk'.backend = disk.backend
         /\ \/ /\ script'.writes = <<>> /\ disk'.intent = Absent
               /\ disk'.portal = disk.portal /\ disk'.portalMarker = disk.portalMarker
               /\ i.base > 0 => disk.portal # Absent
            \/ /\ disk'.intent = disk.intent /\ script'.writes = Abortion(i)' /\ i.base = 0
               /\ MayAbort(i)' /\ (MayComplete(i) => MayComplete(i)') /\ disk'.portal = Absent
<1>1. /\ disk.portal \in Docs \cup {Absent}
      /\ Established("portal") = (disk.portalMarker # Absent /\ disk.portalMarker.established)
      /\ Established("portal")' = (disk'.portalMarker # Absent /\ disk'.portalMarker.established)
      /\ MarkerOf["portal"] = "portalMarker" /\ disk["portal"] = disk.portal
      /\ disk'["portal"] = disk'.portal
      /\ i.base \in Nat
  BY FilesAre DEF Established, MarkerOf, Intents
<1>2. /\ Clearing \in Seq(Writes) /\ <<>> \o Clearing = Clearing
      /\ Clearing' = Clearing
  <2>1. Clearing \in Seq(Writes)
    BY IntentCleared DEF Clearing
  <2> QED
    BY <2>1, FirstOfWrites DEF Clearing
<1>3. "portal" \in Files /\ "portalMarker" \in Files
      /\ Absent \in ContentOf("portal") /\ Absent \in ContentOf("portalMarker")
  BY DEF Files, ContentOf
<1>4. CASE i.base > 0 \/ disk.portalMarker = Absent
  <2>0. ~(i.base = 0 /\ disk.portalMarker # Absent)
    BY <1>1, <1>4
  <2>1. Abortion(i) = <<>> \o Clearing
    BY <2>0 DEF Abortion, Clearing
  <2>2. script.writes = Clearing
    BY <1>2, <2>1
  <2>3. i.base > 0 => disk.portal # Absent
    BY <1>1 DEF MayAbort, Unmoved, Loadable
  <2> QED
    BY <2>2, <2>3, ClearStep
<1>5. CASE i.base = 0 /\ disk.portalMarker # Absent
  <2>1. /\ ~Established("portal") /\ disk.portalMarker.origin = Origin(FirstOf(i))
        /\ disk.portal \in {Absent, FirstOf(i)}
    BY <1>1, <1>5 DEF MayAbort, Matches
  <2>2. PICK p \in Seq(Writes) : p = PutFile("portal", Absent)
    BY <1>3, PutFileIs
  <2>3. PICK m \in Seq(Writes) : m = PutFile("portalMarker", Absent)
    BY <1>3, PutFileIs
  <2>4. PICK rest \in Seq(Writes) : rest = m \o Clearing
    BY <1>2, Joined
  <2>5. <<>> \o m = m
    BY FirstOfWrites
  <2>6. CASE disk.portal = Absent
    <3>1. Abortion(i) = (<<>> \o m) \o Clearing
      BY <1>5, <2>3, <2>6 DEF Abortion, Clearing
    <3>2. script.writes = PutFile("portalMarker", Absent) \o Clearing
      BY <2>3, <2>5, <3>1
    <3>3. /\ script'.writes = Clearing /\ disk'["portalMarker"] = Absent
          /\ \A g \in Files : g # "portalMarker" => disk'[g] = disk[g]
      BY <1>2, <1>3, <3>2, WrittenPut
    <3>4. /\ disk'.portal = Absent /\ disk'.portalMarker = Absent
          /\ disk'.intent = disk.intent /\ disk'.backend = disk.backend
      BY <2>6, <3>3 DEF Files
    <3>5. Abortion(i)' = <<>> \o Clearing
      BY <3>4 DEF Abortion, Clearing
    <3>6. MayAbort(i)' /\ MayComplete(i)'
      BY <1>1, <1>5, <3>4 DEF MayAbort, MayComplete
    <3> QED
      BY <1>2, <1>5, <3>3, <3>4, <3>5, <3>6
  <2>7. CASE disk.portal # Absent
    <3>1. Abortion(i) = (p \o m) \o Clearing
      BY <1>5, <2>2, <2>3, <2>7 DEF Abortion, Clearing
    <3>2. \A x, y, z \in Seq(Writes) : (x \o y) \o z = x \o (y \o z)
      BY Reassociated
    <3>3. script.writes = PutFile("portal", Absent) \o rest
      BY <1>2, <2>2, <2>4, <3>1, <3>2, Zenon
    <3>4. /\ script'.writes = rest /\ disk'["portal"] = Absent
          /\ \A g \in Files : g # "portal" => disk'[g] = disk[g]
      BY <1>3, <3>3, WrittenPut
    <3>5. /\ disk'.portal = Absent /\ disk'.portalMarker = disk.portalMarker
          /\ disk'.intent = disk.intent /\ disk'.backend = disk.backend
      BY <3>4 DEF Files
    <3>6. Abortion(i)' = (<<>> \o m) \o Clearing
      BY <1>5, <2>3, <3>5 DEF Abortion, Clearing
    <3>7. ~Established("portal")' /\ FirstOf(i)' = FirstOf(i)
          /\ disk'.portalMarker.origin = Origin(FirstOf(i))
      BY <1>1, <2>1, <3>5 DEF FirstOf, Document
    <3>8. MayAbort(i)' /\ MayComplete(i)'
      BY <1>1, <1>5, <3>5, <3>7 DEF MayAbort, MayComplete, Matches
    <3> QED
      BY <1>5, <2>4, <2>5, <3>4, <3>5, <3>6, <3>8
  <2> QED
    BY <2>6, <2>7
<1> QED
  BY <1>1, <1>4, <1>5

(* What is written of the backend alone.                                    *)
LEMMA BackendPut ==
  ASSUME NEW f \in {"backend", "backendMarker"}, NEW c \in ContentOf(f),
         f = "backend" => c # Absent /\ c.line \in Seq(Releases)
  PROVE  BackendOnly(PutFile(f, c)) /\ PutFile(f, c) \in Seq(Writes)
<1>1. f \in Files
  BY DEF Files
<1>2. /\ PutFile(f, c) \in Seq(Writes) /\ Len(PutFile(f, c)) = 1
      /\ PutFile(f, c)[1].file = f /\ PutFile(f, c)[1].content = c
  BY <1>1, PutFileIs
<1> QED
  BY <1>2 DEF BackendOnly

LEMMA BackendBoth ==
  ASSUME NEW s \in Seq(Writes), NEW t \in Seq(Writes), BackendOnly(s), BackendOnly(t)
  PROVE  BackendOnly(s \o t) /\ s \o t \in Seq(Writes)
<1>1. PICK u \in Seq(Writes) : u = s \o t
  BY Joined
<1>2. /\ Len(u) = Len(s) + Len(t) /\ Len(s) \in Nat /\ Len(t) \in Nat
      /\ \A i \in 1 .. Len(s) + Len(t) :
            u[i] = IF i <= Len(s) THEN s[i] ELSE t[i - Len(s)]
  BY <1>1, Joined
<1>3. ASSUME NEW i \in 1 .. Len(u)
      PROVE  (\E j \in 1 .. Len(s) : u[i] = s[j]) \/ (\E j \in 1 .. Len(t) : u[i] = t[j])
  <2>1. CASE i <= Len(s)
    BY <1>2, <2>1
  <2>2. CASE i > Len(s)
    <3>1. i - Len(s) \in 1 .. Len(t) /\ u[i] = t[i - Len(s)]
      BY <1>2, <2>2
    <3> QED
      BY <3>1
  <2> QED
    BY <1>2, <2>1, <2>2
<1>4. BackendOnly(u)
  BY <1>3 DEF BackendOnly
<1> QED
  BY <1>1, <1>4

LEMMA NothingBackend == BackendOnly(<<>>) /\ <<>> \in Seq(Writes)
<1>1. PICK ws : ws = <<>>
  OBVIOUS
<1>2. ws \in Seq(Writes) /\ Len(ws) = 0
  BY <1>1, EmptySeq
<1> QED
  BY <1>1, <1>2 DEF BackendOnly

LEMMA BackendEstablish ==
  ASSUME NEW d \in Docs, d.line \in Seq(Releases)
  PROVE  BackendOnly(Establish("backend", d)) /\ Establish("backend", d) \in Seq(Writes)
<1>1. /\ MarkerOf["backend"] = "backendMarker" /\ "backend" \in Kinds
      /\ d \in ContentOf("backend") /\ d # Absent
      /\ \A b \in BOOLEAN : MarkerFor(d, b) \in ContentOf("backendMarker")
  BY AbsentIsNone, MarkerIsTyped DEF MarkerOf, Kinds, ContentOf
<1>2. PICK c0 \in ContentOf("backendMarker") : c0 = MarkerFor(d, FALSE)
  BY <1>1
<1>3. PICK c1 \in ContentOf("backendMarker") : c1 = MarkerFor(d, TRUE)
  BY <1>1
<1>4. PICK a \in Seq(Writes) :
        /\ a = IF disk["backendMarker"] = Absent THEN PutFile("backendMarker", c0) ELSE <<>>
        /\ BackendOnly(a)
  BY NothingBackend, BackendPut
<1>5. PICK p \in Seq(Writes) : p = PutFile("backend", d) /\ BackendOnly(p)
  BY <1>1, BackendPut
<1>6. PICK m \in Seq(Writes) : m = PutFile("backendMarker", c1) /\ BackendOnly(m)
  BY BackendPut
<1>7. Establish("backend", d) = (a \o p) \o m
  BY <1>1, <1>2, <1>3, <1>4, <1>5, <1>6 DEF Establish
<1>8. BackendOnly(a \o p) /\ a \o p \in Seq(Writes)
  BY <1>4, <1>5, BackendBoth
<1>9. BackendOnly((a \o p) \o m) /\ (a \o p) \o m \in Seq(Writes)
  BY <1>6, <1>8, BackendBoth
<1> QED
  BY <1>7, <1>9

LEMMA BackendPlans ==
  ASSUME SwitchTypeOK, LinesSound
  PROVE  /\ BackendOnly(Migration("backend")) /\ Migration("backend") \in Seq(Writes)
         /\ \A r \in Releases :
               BackendOnly(BackendCommit(r)) /\ BackendCommit(r) \in Seq(Writes)
<1>1. /\ disk.backend \in Docs \cup {Absent} /\ disk["backend"] = disk.backend
      /\ disk.backend # Absent => disk.backend.line \in Seq(Releases)
      /\ MarkerOf["backend"] = "backendMarker" /\ "backend" \in Kinds
      /\ legacy["backend"] \in Docs \cup {Absent}
      /\ legacy["backend"] # Absent => legacy["backend"].line \in Seq(Releases)
  BY FilesAre DEF SwitchTypeOK, LinesSound, Kinds, MarkerOf
<1>2. BackendOnly(Migration("backend")) /\ Migration("backend") \in Seq(Writes)
  <2>1. CASE disk.backend # Absent /\ ~Established("backend")
    <3>1. Migration("backend") = PutFile("backendMarker", MarkerFor(disk.backend, TRUE))
      BY <1>1, <2>1 DEF Migration
    <3>2. PICK c \in ContentOf("backendMarker") : c = MarkerFor(disk.backend, TRUE)
      BY <1>1, <2>1, MarkerIsTyped
    <3> QED
      BY <3>1, <3>2, BackendPut
  <2>2. CASE disk.backend = Absent /\ legacy["backend"] # Absent
    <3>1. Migration("backend") = Establish("backend", legacy["backend"])
      BY <1>1, <2>2 DEF Migration
    <3> QED
      BY <1>1, <2>2, <3>1, BackendEstablish
  <2>3. CASE \/ disk.backend # Absent /\ Established("backend")
             \/ disk.backend = Absent /\ legacy["backend"] = Absent
    <3>1. Migration("backend") = <<>>
      BY <1>1, <2>3 DEF Migration
    <3> QED
      BY <3>1, NothingBackend
  <2> QED
    BY <2>1, <2>2, <2>3
<1>3. ASSUME NEW r \in Releases
      PROVE  BackendOnly(BackendCommit(r)) /\ BackendCommit(r) \in Seq(Writes)
  <2>1. CASE disk.backend = Absent
    <3>0. PICK s : s = <<r>>
      OBVIOUS
    <3>1. s \in Seq(Releases) /\ s \in Seq(Values) \ {<<>>}
      BY <3>0 DEF Values
    <3>2. PICK d : d = Document(Absent, s)
      OBVIOUS
    <3>5. d \in Docs /\ d.line = s
      BY <3>1, <3>2 DEF Document, Docs, Values
    <3>3. CASE disk.backendMarker = Absent
      <4>1. BackendCommit(r) = Establish("backend", d)
        BY <1>1, <2>1, <3>0, <3>2, <3>3 DEF BackendCommit, WithMarker
      <4> QED
        BY <3>1, <3>5, <4>1, BackendEstablish
    <3>4. CASE disk.backendMarker # Absent
      <4>1. BackendCommit(r) = PutFile("backend", d)
        BY <1>1, <2>1, <3>0, <3>2, <3>4 DEF BackendCommit, WithMarker
      <4>2. d \in ContentOf("backend") /\ d # Absent
        BY <3>5, AbsentIsNone DEF ContentOf, Kinds
      <4> QED
        BY <3>1, <3>5, <4>1, <4>2, BackendPut
    <3> QED
      BY <3>3, <3>4
  <2>2. CASE disk.backend # Absent /\ Current(disk.backend) = r
    <3>1. BackendCommit(r) = <<>>
      BY <2>2 DEF BackendCommit
    <3> QED
      BY <3>1, NothingBackend
  <2>3. CASE disk.backend # Absent /\ Current(disk.backend) # r
    <3>1. PICK d \in Docs : d = disk.backend /\ d.line \in Seq(Releases)
      BY <1>1, <2>3
    <3>2. PICK e : e = [d EXCEPT !.line = Append(@, r)]
      OBVIOUS
    <3>3. e \in Docs /\ e.line \in Seq(Releases)
      BY <3>1, <3>2, LineAppended
    <3>4. e \in ContentOf("backend") /\ e # Absent
      BY <3>3, AbsentIsNone DEF ContentOf, Kinds
    <3>5. BackendCommit(r) = PutFile("backend", e)
      BY <2>3, <3>1, <3>2 DEF BackendCommit
    <3> QED
      BY <3>3, <3>4, <3>5, BackendPut
  <2> QED
    BY <2>1, <2>2, <2>3
<1> QED
  BY <1>2, <1>3

(* What depends on the Portal's files alone.                                *)
LEMMA SamePortal ==
  ASSUME SwitchTypeOK, disk'.portal = disk.portal, disk'.portalMarker = disk.portalMarker,
         UNCHANGED legacy
  PROVE  /\ Established("portal")' = Established("portal") /\ Settled' = Settled
         /\ MayLoad("portal")' = MayLoad("portal")
         /\ MayMigrate("portal")' = MayMigrate("portal")
         /\ Migration("portal")' = Migration("portal")
         /\ \A i : /\ Committed(i)' = Committed(i) /\ MayComplete(i)' = MayComplete(i)
                   /\ MayAbort(i)' = MayAbort(i) /\ Completion(i)' = Completion(i)
                   /\ Abortion(i)' = Abortion(i)
<1>1. /\ disk["portal"] = disk.portal /\ disk'["portal"] = disk'.portal
      /\ disk["portalMarker"] = disk.portalMarker /\ disk'["portalMarker"] = disk'.portalMarker
      /\ MarkerOf["portal"] = "portalMarker" /\ MarkerOf'["portal"] = "portalMarker"
  BY DEF MarkerOf
<1>2. Established("portal")' = Established("portal")
  BY <1>1 DEF Established, MarkerOf
<1>3. \A d : Matches("portal", d)' = Matches("portal", d)
  BY <1>1 DEF Matches, Origin, Document, MarkerOf
<1>4. Loadable("portal")' = Loadable("portal")
  BY <1>1, <1>2, <1>3 DEF Loadable, MarkerOf
<1>5. MayLoad("portal")' = MayLoad("portal") /\ Settled' = Settled
  BY <1>1, <1>2, <1>4 DEF MayLoad, Settled, MarkerOf
<1>6. MayMigrate("portal")' = MayMigrate("portal")
  BY <1>1, <1>2, <1>3 DEF MayMigrate, MarkerOf
<1>7. \A d : Establish("portal", d)' = Establish("portal", d)
  BY <1>1 DEF Establish, PutFile, MarkerFor, Origin, Document, MarkerOf
<1>8. Migration("portal")' = Migration("portal")
  BY <1>1, <1>2, <1>7 DEF Migration, PutFile, MarkerFor, Origin, Document, MarkerOf
<1>10. \A i : Committed(i)' = Committed(i)
  BY <1>4 DEF Committed, Generation, Current, Previous
<1>11. \A i : Unmoved(i)' = Unmoved(i)
  BY <1>4 DEF Unmoved, Generation, Current
<1>12. \A i : FirstOf(i)' = FirstOf(i)
  BY DEF FirstOf, Document
<1>13. \A i : MayComplete(i)' = MayComplete(i)
  BY <1>2, <1>3, <1>10, <1>11, <1>12 DEF MayComplete
<1>14. \A i : MayAbort(i)' = MayAbort(i)
  BY <1>2, <1>3, <1>11, <1>12 DEF MayAbort
<1>15. \A i : Commitment(i)' = Commitment(i)
  <2>1. \A d : WithMarker("portal", d)' = WithMarker("portal", d)
    BY <1>1, <1>7 DEF WithMarker, PutFile, MarkerOf
  <2> QED
    BY <1>2, <1>7, <1>10, <1>12, <2>1
       DEF Commitment, PutFile, MarkerFor, Origin, Document
<1>16. \A i : Completion(i)' = Completion(i)
  BY <1>15 DEF Completion, PutFile
<1>17. \A i : Abortion(i)' = Abortion(i)
  BY DEF Abortion, PutFile
<1> QED
  BY <1>2, <1>5, <1>6, <1>8, <1>10, <1>13, <1>14, <1>16, <1>17

(* The script after its own step, and after another has entered.            *)
LEMMA ThenIs ==
  ASSUME SwitchTypeOK, NEW step, NEW ws, NEW at \in ScriptSteps, At(at), Then(step, ws)
  PROVE  /\ script # NoScript /\ script.step = at /\ script.writes = <<>>
         /\ script.name \in {"release", "rollback", "recover", "install"}
         /\ script' # NoScript /\ script'.name = script.name
         /\ script'.release = script.release /\ script'.step = step /\ script'.writes = ws
<1>1. script # NoScript /\ script.step = at /\ script.writes = <<>>
  BY DEF At, NoScript
<1>2. script \in [name : {"release", "rollback", "recover", "install"}, release : Values,
                  step : ScriptSteps, writes : Seq(Writes)]
  BY <1>1 DEF SwitchTypeOK
<1>3. /\ script'.name = script.name /\ script'.release = script.release
      /\ script'.step = step /\ script'.writes = ws
  BY <1>2 DEF Then
<1>4. script' # NoScript
  BY <1>2, <1>3 DEF NoScript
<1> QED
  BY <1>1, <1>2, <1>3, <1>4

LEMMA EnterIs ==
  ASSUME NEW name, name # "none", NEW r, NEW step, NEW ws, Enter(name, r, step, ws)
  PROVE  /\ script = NoScript /\ script' # NoScript
         /\ script'.name = name /\ script'.release = r
         /\ script'.step = step /\ script'.writes = ws
<1>1. script' = [name |-> name, release |-> r, step |-> step, writes |-> ws]
  BY DEF Enter
<1>2. script'.name = name
  BY <1>1
<1>3. script' # NoScript
  BY <1>2 DEF NoScript
<1> QED
  BY <1>1, <1>3 DEF Enter

(* What a release of a line is, and what an intent to another one.          *)
LEMMA LineIs ==
  ASSUME NEW d \in Docs, d.line \in Seq(Releases)
  PROVE  /\ Current(d) \in Releases /\ Previous(d) \in Values
         /\ Generation(d) \in Nat /\ Generation(d) > 0
<1>1. PICK s \in Seq(Releases) : s = d.line
  OBVIOUS
<1>2. s # <<>> /\ Len(s) \in Nat /\ Len(s) > 0
  BY <1>1, EmptySeq, LenProperties DEF Docs
<1>3. s[Len(s)] \in Releases
  BY <1>2, ElementOfSeq
<1>4. Len(s) # 1 => s[Len(s) - 1] \in Releases
  <2>0. \A n \in Nat : n > 0 /\ n # 1 => n - 1 \in 1 .. n
    OBVIOUS
  <2>1. Len(s) # 1 => Len(s) - 1 \in 1 .. Len(s)
    BY <1>2, <2>0
  <2> QED
    BY <2>1, ElementOfSeq
<1>5. d.first \in Values
  BY DEF Docs
<1> QED
  BY <1>1, <1>2, <1>3, <1>4, <1>5 DEF Current, Previous, Generation, Last, Values

LEMMA IntentIs ==
  ASSUME SwitchTypeOK, LinesSound, NEW r \in Releases
  PROVE  /\ IntentTo(disk.portal, r) \in Intents /\ IntentTo(disk.portal, r) # Absent
         /\ IntentTo(disk.portal, r).to = r
         /\ IntentTo(disk.portal, r).base = 0 <=> disk.portal = Absent
         /\ ~Committed(IntentTo(disk.portal, r))
         /\ disk.portal = Absent => IntentTo(disk.portal, r).from = Absent
         /\ disk.portal # Absent
              => /\ IntentTo(disk.portal, r).from = Current(disk.portal)
                 /\ Current(disk.portal) \in Releases
                 /\ IntentTo(disk.portal, r).base = Generation(disk.portal)
                 /\ Generation(disk.portal) \in Nat /\ Generation(disk.portal) > 0
<1>1. disk.portal \in Docs \cup {Absent}
      /\ (disk.portal # Absent => disk.portal.line \in Seq(Releases))
  BY FilesAre DEF LinesSound
<1>2. PICK i : i = IntentTo(disk.portal, r)
  OBVIOUS
<1>3. CASE disk.portal = Absent
  <2>1. i = [base |-> 0, from |-> Absent, to |-> r]
    BY <1>2, <1>3 DEF IntentTo
  <2>2. i \in Intents /\ i.base = 0 /\ i.from = Absent /\ i.to = r
    BY <2>1 DEF Intents, Values
  <2>3. ~Committed(i)
    BY <2>2 DEF Committed
  <2> QED
    BY <1>2, <1>3, <2>2, <2>3, AbsentIsNone
<1>4. CASE disk.portal # Absent
  <2>1. PICK n, c : n = Generation(disk.portal) /\ c = Current(disk.portal)
    OBVIOUS
  <2>2. c \in Releases /\ n \in Nat /\ n > 0
    BY <1>1, <1>4, <2>1, LineIs
  <2>3. i = [base |-> n, from |-> c, to |-> r]
    BY <1>2, <1>4, <2>1 DEF IntentTo
  <2>4. i \in Intents /\ i.base = n /\ i.from = c /\ i.to = r
    BY <2>2, <2>3 DEF Intents, Values
  <2>5. ~Committed(i)
    BY <2>1, <2>2, <2>4 DEF Committed
  <2> QED
    BY <1>2, <1>4, <2>1, <2>2, <2>4, <2>5, AbsentIsNone
<1> QED
  BY <1>3, <1>4

(* What a step that leaves the files keeps.                                 *)
LEMMA FilesKept ==
  ASSUME SwitchInv, UNCHANGED <<disk, legacy, losses>>
  PROVE  /\ LinesSound'
         /\ (container'.release = container.release \/ ~Committed(disk.intent))
              => IntentSound'
         /\ disk.intent # Absent \/ (Upable' => Upable) => NothingServedYet'
<1>1. SwitchTypeOK
  BY DEF SwitchInv, LineInv
<1>2. LinesSound'
  BY DEF SwitchInv, WorldSound, LinesSound
<1>3. \A i : Committed(i)' = Committed(i) /\ MayComplete(i)' = MayComplete(i)
  BY <1>1, SamePortal
<1>4. (container'.release = container.release \/ ~Committed(disk.intent)) => IntentSound'
  BY <1>3 DEF SwitchInv, WorldSound, IntentSound
<1>5. disk.intent # Absent \/ (Upable' => Upable) => NothingServedYet'
  BY DEF SwitchInv, WorldSound, NothingServedYet
<1> QED
  BY <1>2, <1>4, <1>5

LEMMA WorldKept ==
  ASSUME SwitchInv, UNCHANGED <<disk, legacy, losses, container, rows, apart>>
  PROVE  WorldSound'
<1>1. LinesSound' /\ IntentSound' /\ NothingServedYet'
  BY FilesKept DEF Upable
<1>2. RowsSound' /\ Compatible'
  BY DEF SwitchInv, WorldSound, RowsSound, Compatible, Upable
<1> QED
  BY <1>1, <1>2 DEF WorldSound

LEMMA NoScriptSound ==
  ASSUME script' = NoScript
  PROVE  ScriptSound'
  BY DEF ScriptSound, NamesSound, WritesSound, PathSound, WiresSound

LEMMA StartKeeps ==
  ASSUME SwitchInv, (\E r \in Releases : StartRelease(r)) \/ StartRollback
  PROVE  WorldSound' /\ ScriptSound'
<1>1. SwitchTypeOK /\ LinesSound /\ "portal" \in Kinds
  BY DEF SwitchInv, WorldSound, LineInv, Kinds
<1>2. UNCHANGED <<disk, container, rows, legacy, losses, apart>> /\ MayMigrate("portal")
  BY DEF StartRelease, StartRollback
<1>3. /\ MayMigrate("portal")' = MayMigrate("portal")
      /\ Migration("portal")' = Migration("portal")
  BY <1>1, <1>2, SamePortal
<1> DEFINE Started ==
      /\ script' # NoScript /\ script'.step = "check"
      /\ script'.name \in {"release", "rollback"}
      /\ script'.name = "release" => script'.release \in Releases
      /\ \E b \in Seq(Writes) : BackendOnly(b) /\ script'.writes = Migration("portal") \o b
<1>4. Started
  <2>1. ASSUME NEW r \in Releases, StartRelease(r) PROVE Started
    <3>1. Enter("release", r, "check", Migration("portal"))
      BY <2>1 DEF StartRelease
    <3>2. /\ script' # NoScript /\ script'.step = "check" /\ script'.name = "release"
          /\ script'.release = r /\ script'.writes = Migration("portal")
      BY <3>1, EnterIs
    <3>3. Migration("portal") \in Seq(Writes)
      BY <1>1, <1>2, MigrationPlanned
    <3>4. Migration("portal") = Migration("portal") \o <<>>
      BY <3>3, FirstOfWrites
    <3> QED
      BY <3>2, <3>4, NothingBackend
  <2>2. ASSUME StartRollback PROVE Started
    <3>1. Enter("rollback", Absent, "check", Migration("portal") \o Migration("backend"))
      BY <2>2 DEF StartRollback
    <3>2. /\ script' # NoScript /\ script'.step = "check" /\ script'.name = "rollback"
          /\ script'.writes = Migration("portal") \o Migration("backend")
      BY <3>1, EnterIs
    <3>3. BackendOnly(Migration("backend")) /\ Migration("backend") \in Seq(Writes)
      BY <1>1, BackendPlans
    <3> QED
      BY <3>2, <3>3
  <2> QED
    BY <2>1, <2>2
<1>5. NamesSound'
  BY <1>4 DEF NamesSound, Installing, Switching
<1>6. WritesSound'
  BY <1>2, <1>3, <1>4 DEF WritesSound
<1>7. PathSound' /\ WiresSound'
  BY <1>4 DEF PathSound, WiresSound, Installing, Switching
<1> QED
  BY <1>2, <1>5, <1>6, <1>7, WorldKept DEF ScriptSound

(* An install of its own begins wherever no other script runs.              *)
LEMMA StartInstallKeeps ==
  ASSUME SwitchInv, NEW r \in Releases, StartInstall(r)
  PROVE  WorldSound' /\ ScriptSound'
<1>1. SwitchTypeOK /\ UNCHANGED <<disk, container, rows, legacy, losses, apart>>
  BY DEF SwitchInv, LineInv, StartInstall
<1>2. /\ script' # NoScript /\ script'.name = "install" /\ script'.release = r
      /\ script'.step = "install" /\ script'.writes = Migration("backend")
  <2>1. Enter("install", r, "install", Migration("backend"))
    BY DEF StartInstall
  <2> QED
    BY <2>1, EnterIs
<1>3. BackendOnly(Migration("backend"))
  BY <1>1, BackendPlans DEF SwitchInv, WorldSound
<1>4. NamesSound' /\ WritesSound' /\ PathSound' /\ WiresSound'
  BY <1>2, <1>3 DEF NamesSound, WritesSound, PathSound, WiresSound, Installing, Switching
<1> QED
  BY <1>1, <1>4, WorldKept DEF ScriptSound

LEMMA CheckKeeps ==
  ASSUME SwitchInv, CheckIntent
  PROVE  WorldSound' /\ ScriptSound'
<1>1. SwitchTypeOK /\ ScriptSound
  BY DEF SwitchInv, LineInv
<1>2. UNCHANGED <<disk, container, rows, legacy, losses, apart>>
  BY DEF CheckIntent
<1>3. PICK ws : Then("verify", ws)
                /\ ws = IF disk.intent = Absent THEN <<>> ELSE Clearing
  BY DEF CheckIntent, Clearing
<1>4. /\ script # NoScript /\ script.step = "check" /\ script.writes = <<>>
      /\ script' # NoScript /\ script'.name = script.name
      /\ script'.release = script.release /\ script'.step = "verify" /\ script'.writes = ws
  <2>1. At("check") /\ "check" \in ScriptSteps
    BY DEF CheckIntent, ScriptSteps
  <2> QED
    BY <1>1, <1>3, <2>1, ThenIs
<1>5. Settled' = Settled /\ Settled
  <2>1. PICK b \in Seq(Writes) : script.writes = Migration("portal") \o b
    BY <1>1, <1>4 DEF ScriptSound, WritesSound
  <2>2. Settled
    BY <1>1, <1>4, <2>1, MigrationDone DEF Settled
  <2> QED
    BY <1>1, <1>2, <2>2, SamePortal
<1>6. disk.intent # Absent => disk.portal # Absent
  <2>1. disk.intent # Absent => Loadable("portal")
    BY DEF CheckIntent, Committed
  <2> QED
    BY <2>1 DEF Loadable
<1>7. NamesSound'
  BY <1>1, <1>4 DEF ScriptSound, NamesSound, Installing, Switching
<1>8. WritesSound'
  BY <1>2, <1>3, <1>4, <1>6 DEF WritesSound
<1>9. PathSound' /\ WiresSound'
  BY <1>4, <1>5 DEF PathSound, WiresSound, Installing, Switching
<1> QED
  BY <1>2, <1>7, <1>8, <1>9, WorldKept DEF ScriptSound

LEMMA PutNot ==
  ASSUME NEW f \in Files, NEW c \in ContentOf(f)
  PROVE  PutFile(f, c) # <<>>
<1>1. PICK s \in Seq(Writes) : s = PutFile(f, c) /\ Len(s) = 1
  BY PutFileIs
<1>2. s # <<>>
  BY <1>1, EmptySeq
<1> QED
  BY <1>1, <1>2

LEMMA AtVerify ==
  ASSUME SwitchInv, At("verify")
  PROVE  /\ SwitchTypeOK /\ LinesSound /\ script # NoScript /\ script.step = "verify"
         /\ script.writes = <<>> /\ disk.intent = Absent /\ Settled
         /\ script.name \in {"release", "rollback"}
<1>1. SwitchTypeOK /\ LinesSound
  BY DEF SwitchInv, WorldSound, LineInv
<1>2. script # NoScript /\ script.step = "verify" /\ script.writes = <<>>
  BY DEF At, NoScript
<1>3. Clearing # <<>>
  <2>1. "intent" \in Files /\ Absent \in ContentOf("intent")
    BY DEF Files, ContentOf
  <2> QED
    BY <2>1, PutNot DEF Clearing
<1>4. disk.intent = Absent
  BY <1>2, <1>3 DEF SwitchInv, ScriptSound, WritesSound
<1>5. Settled
  BY <1>2 DEF SwitchInv, ScriptSound, PathSound
<1>6. script.name \in {"release", "rollback"}
  BY <1>1, <1>2 DEF SwitchInv, ScriptSound, NamesSound, SwitchTypeOK
<1> QED
  BY <1>1, <1>2, <1>4, <1>5, <1>6

LEMMA RunningUp ==
  ASSUME SwitchTypeOK
  PROVE  /\ Running # Absent => Upable /\ Running = container.release
         /\ Upable => container.release \in Releases
         /\ container.release \in Values
  BY DEF Running, Upable, SwitchTypeOK, Values

LEMMA VerifyReleaseKeeps ==
  ASSUME SwitchInv, VerifyRelease
  PROVE  WorldSound' /\ ScriptSound'
<1>1. /\ SwitchTypeOK /\ LinesSound /\ script # NoScript /\ disk.intent = Absent /\ Settled
      /\ script.writes = <<>> /\ script.step = "verify"
  BY AtVerify DEF VerifyRelease
<1>2. UNCHANGED <<disk, container, rows, legacy, losses, apart>>
  BY DEF VerifyRelease
<1>3. /\ script' # NoScript /\ script'.name = "release"
      /\ script'.release = script.release /\ script'.step = "install"
      /\ script'.writes = Migration("backend")
  <2>1. At("verify") /\ "verify" \in ScriptSteps /\ script.name = "release"
        /\ Then("install", Migration("backend"))
    BY DEF VerifyRelease, ScriptSteps
  <2> QED
    BY <1>1, <2>1, ThenIs
<1>4. script.release \in Releases
  BY <1>1 DEF SwitchInv, ScriptSound, NamesSound, VerifyRelease
<1>5. BackendOnly(Migration("backend"))
  BY <1>1, BackendPlans
<1>6. Settled' = Settled
  BY <1>1, <1>2, SamePortal
<1>7. Upable => /\ disk.portal # Absent /\ container.release = Current(disk.portal)
                /\ Wire[Current(disk.portal)] = Wire[script.release]
  <2>1. GatesOpen
    BY DEF VerifyRelease
  <2>2. CASE disk.portal = Absent
    <3>1. disk.portalMarker = Absent
      BY <2>1, <2>2 DEF GatesOpen, MayLoad, Loadable, MarkerOf
    <3>2. legacy.portal = Absent
      BY <1>1, <2>2 DEF Settled
    <3> QED
      BY <1>1, <2>2, <3>1, <3>2 DEF SwitchInv, WorldSound, NothingServedYet
  <2>3. CASE disk.portal # Absent
    <3>1. Current(disk.portal) \in Releases
      BY <1>1, <2>3, LineIs, FilesAre DEF LinesSound
    <3>2. Running # Absent
      BY <2>1, <2>3, <3>1, AbsentIsNone DEF GatesOpen
    <3> QED
      BY <1>1, <2>1, <2>3, <3>2, RunningUp DEF GatesOpen
  <2> QED
    BY <2>2, <2>3
<1>8. disk.portal # Absent => Wire[Current(disk.portal)] = Wire[script.release]
  BY DEF VerifyRelease, GatesOpen
<1>9. NamesSound' /\ WritesSound' /\ PathSound'
  BY <1>1, <1>3, <1>4, <1>5, <1>6
     DEF NamesSound, WritesSound, PathSound, Installing, Switching
<1>10. WiresSound'
  <2>1. Current(disk'.portal) = Current(disk.portal) /\ Upable' = Upable
    BY <1>2 DEF Upable
  <2> QED
    BY <1>2, <1>3, <1>7, <1>8, <2>1 DEF WiresSound, Installing, Switching
<1> QED
  BY <1>2, <1>9, <1>10, WorldKept DEF ScriptSound

LEMMA VerifyRollbackKeeps ==
  ASSUME SwitchInv, VerifyRollback
  PROVE  WorldSound' /\ ScriptSound'
<1>1. /\ SwitchTypeOK /\ LinesSound /\ script # NoScript /\ disk.intent = Absent /\ Settled
      /\ script.writes = <<>> /\ script.step = "verify"
  BY AtVerify DEF VerifyRollback
<1>2. UNCHANGED <<disk, container, rows, legacy, losses>> /\ apart' = FALSE
  BY DEF VerifyRollback
<1>3. PICK p : p = Previous(disk.portal)
  OBVIOUS
<1>4. /\ script.name = "rollback" /\ script' = [script EXCEPT !.step = "begin", !.release = p]
      /\ Loadable("portal") /\ BackendVerified /\ p # Absent
      /\ Running = Current(disk.portal)
      /\ \A r \in {Running, p} : Wire[r] = Wire[Current(disk.backend)]
  BY <1>3 DEF VerifyRollback
<1>5. disk.portal # Absent /\ disk.backend # Absent
  BY <1>4 DEF Loadable, BackendVerified
<1>6. p \in Releases
  <2>1. disk.portal \in Docs /\ disk.portal.line \in Seq(Releases)
    BY <1>1, <1>5, FilesAre DEF LinesSound
  <2> QED
    BY <1>3, <1>4, <2>1, LineIs DEF Values
<1>7. /\ script' # NoScript /\ script'.name = "rollback" /\ script'.release = p
      /\ script'.step = "begin" /\ script'.writes = <<>>
  <2>1. script \in [name : {"release", "rollback", "recover", "install"}, release : Values,
                    step : ScriptSteps, writes : Seq(Writes)]
    BY <1>1 DEF SwitchTypeOK
  <2>2. /\ script'.name = "rollback" /\ script'.release = p
        /\ script'.step = "begin" /\ script'.writes = <<>>
    BY <1>1, <1>4, <2>1
  <2> QED
    BY <2>2 DEF NoScript
<1>8. \A r \in Releases : rows[r] = "active"
        => Wire[r] = Wire[p] /\ Wire[r] = Wire[Current(disk.portal)]
  <2>1. Current(disk.backend) \in Releases
    BY <1>1, <1>5, LineIs, FilesAre DEF LinesSound
  <2>2. rows[Current(disk.backend)] = "active"
    BY <1>4 DEF BackendVerified
  <2>3. \A r \in Releases : rows[r] = "active" => r = Current(disk.backend)
    BY <2>1, <2>2 DEF SwitchInv, WorldSound, RowsSound
  <2> QED
    BY <1>4, <2>3
<1>9. Settled' = Settled
  BY <1>1, <1>2, SamePortal
<1>10. NamesSound'
  BY <1>6, <1>7 DEF NamesSound, Installing, Switching
<1>11. WritesSound'
  BY <1>7, NothingBackend DEF WritesSound
<1>12. PathSound'
  BY <1>1, <1>7, <1>9 DEF PathSound, Installing, Switching
<1>13. WiresSound'
  <2>1. Current(disk'.portal) = Current(disk.portal)
    BY <1>2
  <2> QED
    BY <1>2, <1>5, <1>7, <1>8, <2>1 DEF WiresSound, Installing, Switching
<1>14. LinesSound' /\ IntentSound' /\ NothingServedYet'
  BY <1>2, FilesKept DEF Upable
<1>15. RowsSound'
  BY <1>2 DEF SwitchInv, WorldSound, RowsSound
<1>16. Compatible'
  <2>1. container.release = Current(disk.portal)
    <3>1. Current(disk.portal) \in Releases
      BY <1>1, <1>5, LineIs, FilesAre DEF LinesSound
    <3> QED
      BY <1>1, <1>4, <3>1, RunningUp, AbsentIsNone
  <2> QED
    BY <1>2, <1>8, <2>1 DEF Compatible
<1> QED
  BY <1>10, <1>11, <1>12, <1>13, <1>14, <1>15, <1>16 DEF WorldSound, ScriptSound

(* A step of install-supabase-app.sh.                                       *)
LEMMA RowsKept ==
  ASSUME SwitchInv, UNCHANGED <<disk, container, legacy, losses, apart>>, RowsSound',
         \A r \in Releases : rows'[r] = "active" => rows[r] = "active"
  PROVE  WorldSound'
<1>1. LinesSound' /\ IntentSound' /\ NothingServedYet'
  BY FilesKept DEF Upable
<1>2. Compatible'
  BY DEF SwitchInv, WorldSound, Compatible, Upable
<1> QED
  BY <1>1, <1>2 DEF WorldSound

(* Where a script that installs stands, and what it knows: only that of a   *)
(* release has compared anything.                                           *)
LEMMA AtInstalling ==
  ASSUME SwitchInv, NEW at \in Installing, At(at)
  PROVE  /\ SwitchTypeOK /\ LinesSound /\ RowsSound /\ at \in ScriptSteps
         /\ script # NoScript /\ script.step = at /\ script.writes = <<>>
         /\ script.name \in {"release", "install"} /\ script.release \in Releases
         /\ script.name = "release" =>
              /\ Settled
              /\ disk.portal # Absent => Wire[Current(disk.portal)] = Wire[script.release]
              /\ at \in {"install", "migrations"}
                   => (Upable => Wire[container.release] = Wire[script.release])
              /\ at = "record" => rows[script.release] = "active"
<1>1. script # NoScript /\ script.step = at /\ script.writes = <<>>
  BY DEF At, NoScript
<1>2. script.name \in {"release", "install"} /\ script.release \in Releases
  BY <1>1 DEF SwitchInv, ScriptSound, NamesSound
<1>3. script.name = "release" => Settled
  BY <1>1 DEF SwitchInv, ScriptSound, PathSound
<1>4. script.name = "release" =>
      /\ disk.portal # Absent => Wire[Current(disk.portal)] = Wire[script.release]
      /\ at \in {"install", "migrations"}
              => (Upable => Wire[container.release] = Wire[script.release])
      /\ at = "record" => rows[script.release] = "active"
  BY <1>1, <1>2 DEF SwitchInv, ScriptSound, WiresSound
<1>5. SwitchTypeOK /\ LinesSound /\ RowsSound /\ at \in ScriptSteps
  BY DEF SwitchInv, WorldSound, LineInv, Installing, ScriptSteps
<1> QED
  BY <1>1, <1>2, <1>3, <1>4, <1>5

LEMMA RegisterKeeps ==
  ASSUME SwitchInv, Register
  PROVE  WorldSound' /\ ScriptSound'
<1>1. At("install") /\ "install" \in Installing /\ Then("migrations", <<>>)
      /\ UNCHANGED <<disk, container, legacy, losses, apart>>
      /\ rows[script.release] = "none"
      /\ rows' = [rows EXCEPT ![script.release] = "installing"]
  BY DEF Register, Installing
<1>2. /\ SwitchTypeOK /\ RowsSound /\ script # NoScript
      /\ script.name \in {"release", "install"} /\ script.release \in Releases
      /\ script.name = "release" =>
           /\ Settled
           /\ disk.portal # Absent => Wire[Current(disk.portal)] = Wire[script.release]
           /\ Upable => Wire[container.release] = Wire[script.release]
  BY <1>1, AtInstalling
<1>3. /\ script' # NoScript /\ script'.name = script.name /\ script'.writes = <<>>
      /\ script'.release = script.release /\ script'.step = "migrations"
  BY <1>1, <1>2, ThenIs DEF ScriptSteps
<1>4. RowsSound' /\ \A r \in Releases : rows'[r] = "active" => rows[r] = "active"
  BY <1>1, <1>2 DEF RowsSound
<1>5. Settled' = Settled
  BY <1>1, <1>2, SamePortal
<1>6. NamesSound' /\ WritesSound' /\ PathSound'
  BY <1>2, <1>3, <1>5 DEF NamesSound, WritesSound, PathSound, Installing, Switching
<1>7. WiresSound'
  <2>1. Current(disk'.portal) = Current(disk.portal) /\ Upable' = Upable
    BY <1>1 DEF Upable
  <2> QED
    BY <1>1, <1>2, <1>3, <2>1 DEF WiresSound, Installing, Switching
<1> QED
  BY <1>1, <1>4, <1>6, <1>7, RowsKept DEF ScriptSound

LEMMA RegisteredKeeps ==
  ASSUME SwitchInv, Registered
  PROVE  WorldSound' /\ ScriptSound'
<1>1. At("install") /\ "install" \in Installing /\ Then("record", <<>>)
      /\ UNCHANGED <<disk, container, rows, legacy, losses>>
      /\ apart' = (script.name = "install" /\ apart)
      /\ rows[script.release] = "active"
  BY DEF Registered, Installing
<1>2. /\ SwitchTypeOK /\ RowsSound /\ script # NoScript
      /\ script.name \in {"release", "install"} /\ script.release \in Releases
      /\ script.name = "release" =>
           /\ Settled
           /\ disk.portal # Absent => Wire[Current(disk.portal)] = Wire[script.release]
           /\ Upable => Wire[container.release] = Wire[script.release]
  BY <1>1, AtInstalling
<1>3. /\ script' # NoScript /\ script'.name = script.name /\ script'.writes = <<>>
      /\ script'.release = script.release /\ script'.step = "record"
  BY <1>1, <1>2, ThenIs DEF ScriptSteps
<1>4. Settled' = Settled
  BY <1>1, <1>2, SamePortal
<1>5. NamesSound' /\ WritesSound' /\ PathSound'
  BY <1>2, <1>3, <1>4 DEF NamesSound, WritesSound, PathSound, Installing, Switching
<1>6. WiresSound'
  <2>1. Current(disk'.portal) = Current(disk.portal)
    BY <1>1
  <2> QED
    BY <1>1, <1>2, <1>3, <2>1 DEF WiresSound, Installing, Switching
<1>7. LinesSound' /\ IntentSound' /\ NothingServedYet'
  BY <1>1, FilesKept DEF Upable
<1>8. RowsSound'
  BY <1>1, <1>2 DEF RowsSound
<1>9. Compatible'
  <2>1. CASE script.name = "install"
    BY <1>1, <2>1 DEF SwitchInv, WorldSound, Compatible, Upable
  <2>2. CASE script.name = "release"
    <3>1. \A r \in Releases : rows[r] = "active" => r = script.release
      BY <1>1, <1>2 DEF RowsSound
    <3> QED
      BY <1>1, <1>2, <2>2, <3>1 DEF Compatible, Upable
  <2> QED
    BY <1>2, <2>1, <2>2
<1> QED
  BY <1>5, <1>6, <1>7, <1>8, <1>9 DEF WorldSound, ScriptSound

LEMMA InstallFailsKeeps ==
  ASSUME SwitchInv, InstallFails
  PROVE  WorldSound' /\ ScriptSound'
<1>1. At("migrations") /\ "migrations" \in Installing /\ script' = NoScript
      /\ UNCHANGED <<disk, container, legacy, losses, apart>>
      /\ rows' = [rows EXCEPT ![script.release] = "failed"]
  BY DEF InstallFails, Installing
<1>2. RowsSound /\ script.release \in Releases
  BY <1>1, AtInstalling
<1>3. RowsSound' /\ \A r \in Releases : rows'[r] = "active" => rows[r] = "active"
  BY <1>1, <1>2 DEF RowsSound
<1> QED
  BY <1>1, <1>3, RowsKept, NoScriptSound

LEMMA ActivateKeeps ==
  ASSUME SwitchInv, Activate
  PROVE  WorldSound' /\ ScriptSound'
<1>1. At("migrations") /\ "migrations" \in Installing /\ Then("record", <<>>)
      /\ UNCHANGED <<disk, container, legacy, losses>>
      /\ apart' = (script.name = "install" /\ Upable
                      /\ Wire[container.release] # Wire[script.release])
      /\ rows' = [r \in Releases |-> IF r = script.release THEN "active"
                                     ELSE IF rows[r] = "active" THEN "superseded"
                                     ELSE rows[r]]
  BY DEF Activate, Installing
<1>2. /\ SwitchTypeOK /\ RowsSound /\ script # NoScript
      /\ script.name \in {"release", "install"} /\ script.release \in Releases
      /\ script.name = "release" =>
           /\ Settled
           /\ disk.portal # Absent => Wire[Current(disk.portal)] = Wire[script.release]
           /\ Upable => Wire[container.release] = Wire[script.release]
  BY <1>1, AtInstalling
<1>3. /\ script' # NoScript /\ script'.name = script.name /\ script'.writes = <<>>
      /\ script'.release = script.release /\ script'.step = "record"
  BY <1>1, <1>2, ThenIs DEF ScriptSteps
<1>4. \A r \in Releases : rows'[r] = "active" <=> r = script.release
  BY <1>1, <1>2
<1>5. RowsSound'
  BY <1>1, <1>2, <1>4 DEF RowsSound
<1>6. LinesSound' /\ IntentSound' /\ NothingServedYet'
  BY <1>1, FilesKept DEF Upable
<1>7. Compatible'
  BY <1>1, <1>2, <1>4 DEF Compatible, Upable
<1>8. Settled' = Settled
  BY <1>1, <1>2, SamePortal
<1>9. NamesSound' /\ WritesSound' /\ PathSound'
  BY <1>2, <1>3, <1>8 DEF NamesSound, WritesSound, PathSound, Installing, Switching
<1>10. WiresSound'
  <2>1. Current(disk'.portal) = Current(disk.portal)
    BY <1>1
  <2> QED
    BY <1>1, <1>2, <1>3, <1>4, <2>1 DEF WiresSound, Installing, Switching
<1> QED
  BY <1>5, <1>6, <1>7, <1>9, <1>10 DEF WorldSound, ScriptSound

LEMMA RecordKeeps ==
  ASSUME SwitchInv, Record
  PROVE  WorldSound' /\ ScriptSound'
<1>1. PICK ws, step : /\ ws = BackendCommit(script.release)
                     /\ step = IF script.name = "install" THEN "installed" ELSE "begin"
  OBVIOUS
<1>2. /\ At("record") /\ "record" \in Installing /\ Then(step, ws)
      /\ script.name = "install" => step = "installed"
      /\ script.name = "release" => step = "begin"
      /\ UNCHANGED <<disk, container, rows, legacy, losses, apart>>
  BY <1>1 DEF Record, Installing
<1>3. /\ SwitchTypeOK /\ LinesSound /\ script # NoScript
      /\ script.name \in {"release", "install"} /\ script.release \in Releases
      /\ script.name = "release" =>
           /\ Settled /\ rows[script.release] = "active"
           /\ disk.portal # Absent => Wire[Current(disk.portal)] = Wire[script.release]
  BY <1>2, AtInstalling
<1>4. /\ script' # NoScript /\ script'.name = script.name /\ script'.writes = ws
      /\ script'.release = script.release /\ script'.step = step
  BY <1>2, <1>3, ThenIs DEF ScriptSteps
<1>5. BackendOnly(ws)
  BY <1>1, <1>3, BackendPlans
<1>6. Settled' = Settled
  BY <1>2, <1>3, SamePortal
<1>7. NamesSound' /\ WritesSound' /\ PathSound'
  BY <1>2, <1>3, <1>4, <1>5, <1>6 DEF NamesSound, WritesSound, PathSound, Installing, Switching
<1>8. WiresSound'
  <2>1. Current(disk'.portal) = Current(disk.portal)
    BY <1>2
  <2> QED
    BY <1>2, <1>3, <1>4, <2>1 DEF WiresSound, Installing, Switching
<1> QED
  BY <1>2, <1>7, <1>8, WorldKept DEF ScriptSound

LEMMA BeginKeeps ==
  ASSUME SwitchInv, BeginIntent
  PROVE  WorldSound' /\ ScriptSound'
<1>1. PICK i : i = IntentTo(disk.portal, script.release)
  OBVIOUS
<1>2. /\ At("begin") /\ MayLoad("portal") /\ i.from # i.to /\ Then("up", PutFile("intent", i))
      /\ UNCHANGED <<disk, container, rows, legacy, losses, apart>>
  BY <1>1 DEF BeginIntent, IntentTo
<1>3. /\ SwitchTypeOK /\ LinesSound /\ script # NoScript /\ script.step = "begin"
      /\ script.name \in {"release", "rollback"} /\ script.release \in Releases /\ Settled
  <2>1. SwitchTypeOK /\ LinesSound
    BY DEF SwitchInv, WorldSound, LineInv
  <2>2. script # NoScript /\ script.step = "begin"
    BY <1>2 DEF At, NoScript
  <2>3. script.release \in Releases /\ script.name \notin {"recover", "install"}
    BY <2>2 DEF SwitchInv, ScriptSound, NamesSound
  <2>4. Settled
    BY <2>2 DEF SwitchInv, ScriptSound, PathSound
  <2> QED
    BY <2>1, <2>2, <2>3, <2>4 DEF SwitchTypeOK
<1>4. PICK ws : ws = PutFile("intent", i)
  OBVIOUS
<1>5. /\ script' # NoScript /\ script'.name = script.name /\ script'.writes = ws
      /\ script'.release = script.release /\ script'.step = "up"
  BY <1>2, <1>3, <1>4, ThenIs DEF ScriptSteps
<1>6. i \in Intents /\ i.to = script.release
  BY <1>1, <1>3, IntentIs
<1>7. ws # <<>>
  <2>1. "intent" \in Files /\ i \in ContentOf("intent")
    BY <1>6 DEF Files, ContentOf, Kinds
  <2> QED
    BY <1>4, <2>1, PutNot
<1>8. /\ Settled' /\ MayLoad("portal")'
  BY <1>2, <1>3, SamePortal
<1>9. NamesSound' /\ PathSound'
  BY <1>3, <1>5, <1>7 DEF NamesSound, PathSound, Installing, Switching
<1>10. WritesSound'
  <2>1. script'.writes = PutFile("intent", IntentTo(disk'.portal, script'.release))
    BY <1>1, <1>2, <1>4, <1>5
  <2>2. IntentTo(disk'.portal, script'.release).from # script'.release
    BY <1>1, <1>2, <1>5, <1>6
  <2> QED
    BY <1>5, <1>8, <2>1, <2>2 DEF WritesSound, PutFile
<1>11. WiresSound'
  <2>1. Current(disk'.portal) = Current(disk.portal)
    BY <1>2
  <2> QED
    BY <1>2, <1>3, <1>5, <2>1
       DEF SwitchInv, ScriptSound, WiresSound, Installing, Switching
<1> QED
  BY <1>2, <1>9, <1>10, <1>11, WorldKept DEF ScriptSound

(* Between docker compose up and what settles the intent.                   *)
LEMMA AtSwitching ==
  ASSUME SwitchInv, NEW at \in Switching, At(at)
  PROVE  /\ SwitchTypeOK /\ LinesSound /\ RowsSound /\ at \in ScriptSteps
         /\ script # NoScript /\ script.step = at /\ script.writes = <<>>
         /\ script.name \in {"release", "rollback"} /\ script.release \in Releases
         /\ disk.intent = IntentTo(disk.portal, script.release)
         /\ disk.intent # Absent /\ ~Committed(disk.intent)
         /\ \A r \in Releases : rows[r] = "active" =>
               /\ Wire[script.release] = Wire[r]
               /\ disk.portal # Absent => Wire[Current(disk.portal)] = Wire[r]
<1>1. SwitchTypeOK /\ LinesSound /\ RowsSound /\ at \in ScriptSteps
  BY DEF SwitchInv, WorldSound, LineInv, Switching, ScriptSteps
<1>2. script # NoScript /\ script.step = at /\ script.writes = <<>>
  BY DEF At, NoScript
<1>3. script.name \notin {"recover", "install"} /\ script.release \in Releases
  BY <1>2 DEF SwitchInv, ScriptSound, NamesSound
<1>4. script.name \in {"release", "rollback"}
  BY <1>1, <1>2, <1>3 DEF SwitchTypeOK
<1>5. disk.intent = IntentTo(disk.portal, script.release)
  BY <1>2, <1>3 DEF SwitchInv, ScriptSound, PathSound
<1>6. disk.intent # Absent /\ ~Committed(disk.intent)
  BY <1>1, <1>3, <1>5, IntentIs
<1>7. ASSUME NEW r \in Releases, rows[r] = "active"
      PROVE  /\ Wire[script.release] = Wire[r]
             /\ disk.portal # Absent => Wire[Current(disk.portal)] = Wire[r]
  <2>1. CASE script.name = "release"
    <3>1. /\ disk.portal # Absent => Wire[Current(disk.portal)] = Wire[script.release]
          /\ rows[script.release] = "active"
      BY <1>2, <2>1 DEF SwitchInv, ScriptSound, WiresSound
    <3>2. r = script.release
      BY <1>1, <1>3, <1>7, <3>1 DEF RowsSound
    <3> QED
      BY <3>1, <3>2
  <2>2. CASE script.name = "rollback"
    BY <1>2, <1>7, <2>2 DEF SwitchInv, ScriptSound, WiresSound
  <2> QED
    BY <1>4, <2>1, <2>2
<1> QED
  BY <1>1, <1>2, <1>3, <1>4, <1>5, <1>6, <1>7

(* A step from one of these to another of them, or to the abortion.         *)
LEMMA SwitchingOn ==
  ASSUME SwitchInv, NEW at \in Switching, At(at), NEW to \in Switching, Then(to, <<>>),
         UNCHANGED <<disk, rows>>
  PROVE  ScriptSound'
<1>1. /\ SwitchTypeOK /\ script # NoScript /\ script.step = at
      /\ script.name \in {"release", "rollback"} /\ script.release \in Releases
      /\ disk.intent = IntentTo(disk.portal, script.release) /\ at \in ScriptSteps
  BY AtSwitching
<1>2. /\ script' # NoScript /\ script'.name = script.name /\ script'.writes = <<>>
      /\ script'.release = script.release /\ script'.step = to
  BY <1>1, ThenIs
<1>3. NamesSound' /\ WritesSound' /\ PathSound'
  BY <1>1, <1>2 DEF NamesSound, WritesSound, PathSound, Installing, Switching
<1>4. WiresSound'
  <2>1. Current(disk'.portal) = Current(disk.portal)
    OBVIOUS
  <2> QED
    BY <1>1, <1>2, <2>1 DEF SwitchInv, ScriptSound, WiresSound, Installing, Switching
<1> QED
  BY <1>3, <1>4 DEF ScriptSound

LEMMA ReplacedIs ==
  ASSUME NEW r, container' \in Replaced(r)
  PROVE  \/ container' = container
         \/ container'.release = Absent
         \/ container'.release = r
  BY DEF Replaced, NoContainer

LEMMA ComposeKeeps ==
  ASSUME SwitchInv, ComposeUp
  PROVE  WorldSound' /\ ScriptSound'
<1>1. /\ At("up") /\ container' \in Replaced(script.release)
      /\ Then("probe", <<>>) \/ Then("restore", <<>>)
      /\ UNCHANGED <<disk, rows, legacy, losses, apart>>
      /\ "up" \in Switching /\ "probe" \in Switching /\ "restore" \in Switching
  BY DEF ComposeUp, Switching
<1>2. /\ disk.intent # Absent /\ ~Committed(disk.intent) /\ RowsSound
      /\ \A r \in Releases : rows[r] = "active" => Wire[script.release] = Wire[r]
  BY <1>1, AtSwitching
<1>3. LinesSound' /\ IntentSound' /\ NothingServedYet'
  BY <1>1, <1>2, FilesKept
<1>4. RowsSound'
  BY <1>1, <1>2 DEF RowsSound
<1>5. Compatible'
  BY <1>1, <1>2, ReplacedIs DEF SwitchInv, WorldSound, Compatible, Upable
<1>6. ScriptSound'
  BY <1>1, SwitchingOn
<1> QED
  BY <1>3, <1>4, <1>5, <1>6 DEF WorldSound

LEMMA ProbeOn ==
  ASSUME SwitchInv, Probe, Then("complete", <<>>)
  PROVE  ScriptSound'
<1>1. At("probe") /\ "probe" \in Switching /\ UNCHANGED <<disk, rows, container>>
  BY DEF Probe, Switching
<1>2. /\ SwitchTypeOK /\ script # NoScript /\ disk.intent # Absent
      /\ script.name \in {"release", "rollback"} /\ script.release \in Releases
      /\ disk.intent = IntentTo(disk.portal, script.release) /\ "probe" \in ScriptSteps
  BY <1>1, AtSwitching
<1>3. /\ script' # NoScript /\ script'.name = script.name /\ script'.writes = <<>>
      /\ script'.release = script.release /\ script'.step = "complete"
  BY <1>1, <1>2, ThenIs
<1>4. NamesSound' /\ WritesSound' /\ PathSound'
  BY <1>1, <1>2, <1>3 DEF NamesSound, WritesSound, PathSound, Installing, Switching
<1>5. WiresSound'
  BY <1>3 DEF WiresSound, Installing, Switching
<1> QED
  BY <1>4, <1>5 DEF ScriptSound

LEMMA ProbeKeeps ==
  ASSUME SwitchInv, Probe
  PROVE  WorldSound' /\ ScriptSound'
<1>1. /\ At("probe") /\ UNCHANGED <<disk, container, rows, legacy, losses, apart>>
      /\ Then("complete", <<>>) \/ Then("restore", <<>>)
      /\ "probe" \in Switching /\ "restore" \in Switching
  BY DEF Probe, Switching
<1>2. WorldSound'
  BY <1>1, WorldKept
<1>3. ScriptSound'
  BY <1>1, ProbeOn, SwitchingOn
<1> QED
  BY <1>2, <1>3

LEMMA RestoreKeeps ==
  ASSUME SwitchInv, Restore
  PROVE  WorldSound' /\ ScriptSound'
<1>1. /\ At("restore") /\ "restore" \in Switching /\ Then("abort", <<>>)
      /\ UNCHANGED <<disk, rows, legacy, losses, apart>>
      /\ IF disk.portal = Absent
         THEN container' = [container EXCEPT !.status = "stopped"]
         ELSE container' \in Replaced(Current(disk.portal))
  BY DEF Restore, Switching
<1>2. /\ SwitchTypeOK /\ LinesSound /\ RowsSound /\ script # NoScript
      /\ "restore" \in ScriptSteps /\ script.release \in Releases
      /\ script.name \in {"release", "rollback"}
      /\ disk.intent = IntentTo(disk.portal, script.release)
      /\ disk.intent # Absent /\ ~Committed(disk.intent)
      /\ \A r \in Releases : rows[r] = "active" =>
            (disk.portal # Absent => Wire[Current(disk.portal)] = Wire[r])
  BY <1>1, AtSwitching
<1>3. /\ script' # NoScript /\ script'.name = script.name /\ script'.writes = <<>>
      /\ script'.release = script.release /\ script'.step = "abort"
  BY <1>1, <1>2, ThenIs
<1>4. LinesSound' /\ IntentSound' /\ NothingServedYet'
  BY <1>1, <1>2, FilesKept
<1>5. disk.portal = Absent => ~Upable'
  BY <1>1, <1>2 DEF Upable, SwitchTypeOK
<1>6. Compatible'
  <2>1. CASE disk.portal = Absent
    BY <1>5, <2>1 DEF Compatible
  <2>2. CASE disk.portal # Absent
    BY <1>1, <1>2, <2>2, ReplacedIs DEF SwitchInv, WorldSound, Compatible, Upable
  <2> QED
    BY <2>1, <2>2
<1>7. RowsSound'
  BY <1>1, <1>2 DEF RowsSound
<1>8. disk.intent.base = 0 => disk.portal = Absent
  BY <1>2, IntentIs
<1>9. NamesSound' /\ WritesSound' /\ WiresSound'
  BY <1>2, <1>3 DEF NamesSound, WritesSound, WiresSound, Installing, Switching
<1>10. PathSound'
  BY <1>1, <1>2, <1>3, <1>5, <1>8 DEF PathSound, Installing, Switching
<1> QED
  BY <1>4, <1>6, <1>7, <1>9, <1>10 DEF WorldSound, ScriptSound

LEMMA AtSettling ==
  ASSUME SwitchInv, NEW at \in {"complete", "abort", "live"}, At(at)
  PROVE  /\ SwitchTypeOK /\ LinesSound /\ at \in ScriptSteps
         /\ script # NoScript /\ script.step = at /\ script.writes = <<>>
         /\ disk.intent # Absent
         /\ at = "complete" /\ script.name = "recover"
              => container.release = disk.intent.to
         /\ at = "abort" => (disk.intent.base = 0 => ~Upable)
<1>1. SwitchTypeOK /\ LinesSound /\ at \in ScriptSteps
  BY DEF SwitchInv, WorldSound, LineInv, ScriptSteps
<1>2. script # NoScript /\ script.step = at /\ script.writes = <<>>
  BY DEF At, NoScript
<1>3. /\ at = "complete" /\ script.name = "recover"
           => container.release = disk.intent.to
      /\ at = "abort" => (disk.intent.base = 0 => ~Upable)
  BY <1>2 DEF SwitchInv, ScriptSound, PathSound
<1>4. disk.intent # Absent
  BY <1>2 DEF SwitchInv, ScriptSound, PathSound, NamesSound
<1> QED
  BY <1>1, <1>2, <1>3, <1>4

LEMMA CompleteKeeps ==
  ASSUME SwitchInv, Complete
  PROVE  WorldSound' /\ ScriptSound'
<1>1. PICK i, ws : i = disk.intent /\ ws = Completion(i)
  OBVIOUS
<1>2. /\ At("complete") /\ MayComplete(i) /\ Observed(i.to) /\ Then("done", ws)
      /\ UNCHANGED <<disk, container, rows, legacy, losses, apart>>
  BY <1>1 DEF Complete
<1>3. /\ SwitchTypeOK /\ LinesSound /\ script # NoScript /\ i # Absent
      /\ "complete" \in ScriptSteps
      /\ script.name = "recover" => container.release = i.to
  BY <1>1, <1>2, AtSettling
<1>4. /\ script' # NoScript /\ script'.writes = ws /\ script'.step = "done"
      /\ script'.name = script.name /\ script'.release = script.release
  BY <1>2, <1>3, ThenIs
<1>5. i.to \in Releases
  BY <1>1, <1>3 DEF LinesSound
<1>6. container.release = i.to
  BY <1>2, <1>3, <1>5, RunningUp, AbsentIsNone DEF Observed
<1>7. MayComplete(i)' /\ Completion(i)' = ws
  BY <1>1, <1>2, <1>3, SamePortal
<1>8. /\ disk'.intent # Absent /\ MayComplete(disk.intent)'
      /\ container'.release = disk'.intent.to /\ script'.writes = Completion(disk.intent)'
  BY <1>1, <1>2, <1>3, <1>4, <1>6, <1>7
<1>9. WritesSound'
  BY <1>4, <1>8 DEF WritesSound
<1>10. NamesSound' /\ PathSound' /\ WiresSound'
  <2>1. script.name \in {"release", "install"} => script.release \in Releases
    BY <1>3 DEF SwitchInv, ScriptSound, NamesSound
  <2> QED
    BY <1>4, <2>1 DEF NamesSound, PathSound, WiresSound, Installing, Switching
<1> QED
  BY <1>2, <1>9, <1>10, WorldKept DEF ScriptSound

LEMMA AbortKeeps ==
  ASSUME SwitchInv, Abort
  PROVE  WorldSound' /\ ScriptSound'
<1>1. PICK i, ws : i = disk.intent /\ ws = Abortion(i)
  OBVIOUS
<1>2. /\ At("abort") /\ MayAbort(i) /\ Then("done", ws)
      /\ UNCHANGED <<disk, container, rows, legacy, losses, apart>>
  BY <1>1 DEF Abort
<1>3. /\ SwitchTypeOK /\ script # NoScript /\ i # Absent
      /\ "abort" \in ScriptSteps /\ (i.base = 0 => ~Upable)
  BY <1>1, <1>2, AtSettling
<1>4. /\ script' # NoScript /\ script'.writes = ws /\ script'.step = "done"
      /\ script'.name = script.name /\ script'.release = script.release
  BY <1>2, <1>3, ThenIs
<1>5. MayAbort(i)' /\ Abortion(i)' = ws
  BY <1>1, <1>2, <1>3, SamePortal
<1>6. /\ disk'.intent # Absent /\ MayAbort(disk.intent)'
      /\ disk'.intent.base = 0 => ~Upable'
      /\ script'.writes = Abortion(disk.intent)'
  <2>1. Upable' = Upable
    BY <1>2 DEF Upable
  <2> QED
    BY <1>1, <1>2, <1>3, <1>4, <1>5, <2>1
<1>7. WritesSound'
  BY <1>4, <1>6 DEF WritesSound
<1>8. NamesSound' /\ PathSound' /\ WiresSound'
  <2>1. script.name \in {"release", "install"} => script.release \in Releases
    BY <1>3 DEF SwitchInv, ScriptSound, NamesSound
  <2> QED
    BY <1>4, <2>1 DEF NamesSound, PathSound, WiresSound, Installing, Switching
<1> QED
  BY <1>2, <1>7, <1>8, WorldKept DEF ScriptSound

LEMMA RecoverKeeps ==
  ASSUME SwitchInv, Recover
  PROVE  WorldSound' /\ ScriptSound'
<1>1. /\ disk.intent # Absent /\ Running \in {disk.intent.to, disk.intent.from}
      /\ UNCHANGED <<disk, rows, legacy, losses, apart>>
  BY DEF Recover
<1>2. SwitchTypeOK /\ LinesSound /\ RowsSound
  BY DEF SwitchInv, WorldSound, LineInv
<1>3. RowsSound'
  BY <1>1, <1>2 DEF RowsSound
<1>4. CASE Running = Absent
  <2>1. PICK none : none = <<>>
    OBVIOUS
  <2>2. Enter("recover", Running, "abort", none)
        /\ container' = [container EXCEPT !.status = "stopped"]
    BY <1>4, <2>1 DEF Recover
  <2>3. /\ script' # NoScript /\ script'.name = "recover"
        /\ script'.step = "abort" /\ script'.writes = <<>>
    BY <2>1, <2>2, EnterIs
  <2>4. container'.release = container.release /\ ~Upable'
    BY <1>2, <2>2 DEF SwitchTypeOK, Upable
  <2>5. LinesSound' /\ IntentSound' /\ NothingServedYet' /\ Compatible'
    BY <1>1, <2>4, FilesKept DEF Compatible
  <2>6. ScriptSound'
    BY <1>1, <2>3, <2>4 DEF ScriptSound, NamesSound, WritesSound, PathSound, WiresSound,
       Installing, Switching
  <2> QED
    BY <1>3, <2>5, <2>6 DEF WorldSound
<1>5. CASE Running # Absent
  <2>1. Enter("recover", Running, "live", Migration("backend")) /\ UNCHANGED container
    BY <1>5 DEF Recover
  <2>2. /\ script' # NoScript /\ script'.name = "recover" /\ script'.release = Running
        /\ script'.step = "live" /\ script'.writes = Migration("backend")
    BY <2>1, EnterIs
  <2>3. BackendOnly(Migration("backend"))
    BY <1>2, BackendPlans
  <2>4. ScriptSound'
    BY <1>1, <1>5, <2>2, <2>3
       DEF ScriptSound, NamesSound, WritesSound, PathSound, WiresSound, Installing, Switching
  <2> QED
    BY <1>1, <2>1, <2>4, WorldKept
<1> QED
  BY <1>4, <1>5

LEMMA LiveKeeps ==
  ASSUME SwitchInv, VerifyLive
  PROVE  WorldSound' /\ ScriptSound'
<1>1. PICK to : to = IF Running = disk.intent.to THEN "complete" ELSE "abort"
  OBVIOUS
<1>2. /\ At("live") /\ Running = script.release /\ Then(to, <<>>)
      /\ UNCHANGED <<disk, container, rows, legacy, losses, apart>>
  BY <1>1 DEF VerifyLive
<1>3. /\ SwitchTypeOK /\ LinesSound /\ script # NoScript /\ disk.intent # Absent
      /\ script.step = "live" /\ "live" \in ScriptSteps
  BY <1>2, AtSettling
<1>4. /\ script' # NoScript /\ script'.writes = <<>> /\ script'.step = to
      /\ script'.name = script.name
  BY <1>2, <1>3, ThenIs
<1>5. /\ script.name = "recover" /\ script.release # Absent
      /\ script.release \in {disk.intent.to, disk.intent.from}
  BY <1>3 DEF SwitchInv, ScriptSound, NamesSound
<1>6. to = "complete" => container.release = disk.intent.to
  BY <1>1, <1>2, <1>3, <1>5, RunningUp
<1>7. to = "abort" => disk.intent.base # 0
  BY <1>1, <1>2, <1>3, <1>5 DEF LinesSound
<1>8. ScriptSound'
  BY <1>1, <1>2, <1>3, <1>4, <1>5, <1>6, <1>7
     DEF ScriptSound, NamesSound, WritesSound, PathSound, WiresSound, Installing, Switching
<1> QED
  BY <1>2, <1>8, WorldKept

LEMMA TurnKeeps ==
  ASSUME SwitchInv, ContainerTurns
  PROVE  WorldSound' /\ ScriptSound'
<1>1. /\ SwitchTypeOK /\ RowsSound /\ UNCHANGED <<disk, script, rows, legacy, losses, apart>>
      /\ container' = [container EXCEPT !.status = IF @ = "up" THEN "down" ELSE "up"]
      /\ Upable
  BY DEF ContainerTurns, SwitchInv, WorldSound, LineInv
<1>2. container'.release = container.release /\ Upable' = Upable
  BY <1>1 DEF SwitchTypeOK, Upable
<1>3. LinesSound' /\ IntentSound' /\ NothingServedYet'
  BY <1>1, <1>2, FilesKept
<1>4. RowsSound' /\ Compatible'
  BY <1>1, <1>2 DEF SwitchInv, WorldSound, RowsSound, Compatible
<1>5. /\ Settled' = Settled /\ MayLoad("portal")' = MayLoad("portal")
      /\ MayMigrate("portal")' = MayMigrate("portal")
      /\ Migration("portal")' = Migration("portal")
      /\ \A i : MayComplete(i)' = MayComplete(i) /\ MayAbort(i)' = MayAbort(i)
      /\ \A i : Completion(i)' = Completion(i) /\ Abortion(i)' = Abortion(i)
  BY <1>1, SamePortal
<1>6. NamesSound'
  BY <1>1 DEF SwitchInv, ScriptSound, NamesSound
<1>7. WritesSound'
  <2>1. /\ MayComplete(disk.intent)' = MayComplete(disk.intent)
        /\ MayAbort(disk.intent)' = MayAbort(disk.intent)
        /\ Completion(disk.intent)' = Completion(disk.intent)
        /\ Abortion(disk.intent)' = Abortion(disk.intent)
    BY <1>1, <1>5
  <2> QED
    BY <1>1, <1>2, <1>5, <2>1 DEF SwitchInv, ScriptSound, WritesSound
<1>8. PathSound'
  BY <1>1, <1>2, <1>5 DEF SwitchInv, ScriptSound, PathSound
<1>9. WiresSound'
  <2>1. Current(disk'.portal) = Current(disk.portal)
    BY <1>1
  <2> QED
    BY <1>1, <1>2, <2>1 DEF SwitchInv, ScriptSound, WiresSound
<1> QED
  BY <1>3, <1>4, <1>6, <1>7, <1>8, <1>9 DEF WorldSound, ScriptSound

LEMMA EndKeeps ==
  ASSUME SwitchInv, ScriptEnds
  PROVE  WorldSound' /\ ScriptSound'
<1>1. script' = NoScript /\ UNCHANGED <<disk, container, rows, legacy, losses, apart>>
  BY DEF ScriptEnds
<1> QED
  BY <1>1, WorldKept, NoScriptSound

LEMMA LossKeeps ==
  ASSUME SwitchInv, LoseState
  PROVE  WorldSound' /\ ScriptSound'
<1>1. /\ SwitchTypeOK /\ script' = NoScript /\ losses' = losses + 1 /\ losses \in Nat
      /\ UNCHANGED <<container, rows, legacy, apart>> /\ disk.portal # Absent
      /\ disk' = [disk EXCEPT !.portal = Absent]
  BY DEF LoseState, SwitchInv, LineInv
<1>2. /\ disk'.portal = Absent /\ disk'.portalMarker = disk.portalMarker
      /\ disk'.backend = disk.backend /\ disk'.intent = disk.intent
  BY <1>1 DEF SwitchTypeOK, Files
<1>3. LinesSound'
  BY <1>1, <1>2 DEF SwitchInv, WorldSound, LinesSound
<1>4. NothingServedYet'
  BY <1>1, <1>2 DEF SwitchInv, WorldSound, LinesSound, NothingServedYet
<1>5. losses' # 0
  BY <1>1
<1>6. IntentSound'
  BY <1>5 DEF IntentSound
<1>7. RowsSound' /\ Compatible'
  BY <1>1 DEF SwitchInv, WorldSound, RowsSound, Compatible, Upable
<1> QED
  BY <1>1, <1>3, <1>4, <1>6, <1>7, NoScriptSound DEF WorldSound

LEMMA SwitchStarts == SwitchInit => SwitchInv
<1> SUFFICES ASSUME SwitchInit PROVE SwitchInv
  OBVIOUS
<1>1. LineInv /\ losses \in Nat /\ SwitchTypeOK
  BY LineStarts DEF SwitchInit, LineInv
<1>2. /\ disk.portal = Absent /\ disk.portalMarker = Absent
      /\ disk.backend = Absent /\ disk.intent = Absent /\ script = NoScript
  BY DEF SwitchInit
<1>3. PICK r \in Releases, before \in Releases \cup {Absent}, old \in BOOLEAN :
        /\ legacy = IF old THEN [portal |-> Document(before, <<r>>),
                                 backend |-> Document(Absent, <<r>>)]
                           ELSE [portal |-> Absent, backend |-> Absent]
        /\ rows = [x \in Releases |-> IF old /\ x = r THEN "active" ELSE "none"]
        /\ container = IF old THEN [release |-> r, status |-> "up"] ELSE NoContainer
  BY DEF SwitchInit
<1>4. PICK s : s = <<r>>
  OBVIOUS
<1>5. s \in Seq(Releases) /\ s \in Seq(Values) \ {<<>>}
  BY <1>4 DEF Values
<1>6. \A first \in Values : Document(first, s) \in Docs /\ Document(first, s).line = s
  BY <1>5 DEF Document, Docs
<1>7. old => /\ legacy["portal"] = Document(before, s) /\ legacy["backend"] = Document(Absent, s)
             /\ legacy.portal = legacy["portal"]
  BY <1>3, <1>4
<1>8. ~old => legacy["portal"] = Absent /\ legacy["backend"] = Absent
              /\ legacy.portal = legacy["portal"]
  BY <1>3
<1>9. old => legacy.portal # Absent
  BY <1>6, <1>7, AbsentIsNone DEF Values
<1>10. LinesSound
  BY <1>2, <1>5, <1>6, <1>7, <1>8 DEF LinesSound, Kinds, Values
<1>11. RowsSound
  BY <1>3 DEF RowsSound
<1>12. NothingServedYet
  BY <1>3, <1>9 DEF NothingServedYet, Upable, NoContainer
<1>13. Compatible
  BY <1>3 DEF Compatible, Upable, NoContainer
<1>14. IntentSound
  BY <1>2 DEF IntentSound
<1>15. ScriptSound
  BY <1>2 DEF ScriptSound, NamesSound, WritesSound, PathSound, WiresSound
<1> QED
  BY <1>1, <1>10, <1>11, <1>12, <1>13, <1>14, <1>15 DEF SwitchInv, WorldSound

(* What WriteFile leaves besides the files.                                 *)
LEMMA WriteKeepsRows ==
  ASSUME SwitchInv, WriteFile
  PROVE  /\ SwitchTypeOK /\ SwitchTypeOK' /\ LinesSound /\ ScriptSound
         /\ script # NoScript /\ script.writes # <<>>
         /\ script' # NoScript /\ script'.name = script.name
         /\ script'.release = script.release /\ script'.step = script.step
         /\ UNCHANGED <<container, rows, legacy, losses, apart>>
         /\ RowsSound' /\ Compatible' /\ Upable' = Upable
<1>1. SwitchTypeOK /\ LinesSound /\ ScriptSound
  BY DEF SwitchInv, WorldSound, LineInv
<1>2. SwitchTypeOK'
  BY LineSteps DEF SwitchNext, SwitchInv, LineInv
<1>3. /\ script # NoScript /\ script.writes # <<>>
      /\ script' # NoScript /\ script'.name = script.name
      /\ script'.release = script.release /\ script'.step = script.step
      /\ UNCHANGED <<container, rows, legacy, losses, apart>>
  BY <1>1, Written
<1>4. RowsSound' /\ Compatible' /\ Upable' = Upable
  BY <1>3 DEF SwitchInv, WorldSound, RowsSound, Compatible, Upable
<1> QED
  BY <1>1, <1>2, <1>3, <1>4

LEMMA WriteAtCheck ==
  ASSUME SwitchInv, WriteFile, script.step = "check"
  PROVE  WorldSound' /\ ScriptSound'
<1>1. /\ SwitchTypeOK /\ SwitchTypeOK' /\ LinesSound /\ ScriptSound
      /\ script # NoScript /\ script' # NoScript /\ script'.name = script.name
      /\ script'.release = script.release /\ script'.step = "check"
      /\ UNCHANGED <<container, rows, legacy, losses, apart>>
      /\ RowsSound' /\ Compatible' /\ Upable' = Upable
  BY WriteKeepsRows
<1>2. PICK b \in Seq(Writes) : BackendOnly(b) /\ script.writes = Migration("portal") \o b
  BY <1>1 DEF ScriptSound, WritesSound
<1>3. MayMigrate("portal")
  BY <1>1 DEF ScriptSound, WritesSound
<1>4. /\ MayMigrate("portal")' /\ disk'.intent = disk.intent
      /\ \E c \in Seq(Writes) :
            BackendOnly(c) /\ script'.writes = Migration("portal")' \o c
      /\ \/ disk'.portal = disk.portal /\ disk'.portalMarker = disk.portalMarker
         \/ /\ disk.portal # Absent /\ ~Established("portal")
            /\ disk'.portal = disk.portal
            /\ disk'.portalMarker = MarkerFor(disk.portal, TRUE)
         \/ /\ disk.portal = Absent /\ legacy.portal # Absent
            /\ disk'.portal \in {Absent, legacy.portal} /\ disk'.portalMarker # Absent
      /\ \/ disk'.backend = disk.backend
         \/ disk'.backend # Absent /\ disk'.backend.line \in Seq(Releases)
  BY <1>1, <1>2, <1>3, MigrationStep
<1>5. /\ "portal" \in Kinds /\ disk["portal"] = disk.portal /\ legacy["portal"] = legacy.portal
      /\ MarkerOf["portal"] = "portalMarker" /\ disk'["portal"] = disk'.portal
      /\ disk.portal \in Docs \cup {Absent} /\ disk.intent \in Intents \cup {Absent}
  BY <1>1, FilesAre DEF Kinds
<1>6. disk'.portalMarker # Absent \/ disk'.portal = Absent
  BY <1>1, <1>4, <1>5, PortalFiles DEF LinesSound
<1>7. LinesSound'
  BY <1>1, <1>4, <1>5, <1>6 DEF LinesSound
<1>8. NothingServedYet'
  BY <1>1, <1>4, <1>5, <1>6, PortalFiles DEF SwitchInv, WorldSound, NothingServedYet
<1>9. IntentSound'
  <2> SUFFICES ASSUME disk.intent # Absent, losses = 0 PROVE IntentSound'
    BY <1>1, <1>4 DEF IntentSound
  <2>1. PICK i \in Intents : i = disk.intent
    BY <1>5
  <2>2. /\ MayComplete(i) /\ (i.base = 0 => legacy.portal = Absent)
        /\ i.base > 0 => /\ i.from # i.to /\ i.from # Absent
                         /\ Committed(i) => container.release = i.to
    BY <2>1 DEF SwitchInv, WorldSound, IntentSound
  <2>3. i.base \in Nat
    BY DEF Intents
  <2>4. MayComplete(i)' /\ (Committed(i)' => Committed(i))
    <3>1. CASE disk'.portal = disk.portal /\ disk'.portalMarker = disk.portalMarker
      BY <1>1, <2>2, <3>1, SamePortal
    <3>2. CASE /\ disk.portal # Absent /\ ~Established("portal")
               /\ disk'.portal = disk.portal
               /\ disk'.portalMarker = MarkerFor(disk.portal, TRUE)
      <4>1. disk.portalMarker # Absent
        BY <1>1, <3>2 DEF LinesSound
      <4>2. ~(i.base > 0)
        BY <1>5, <2>2, <3>2, <4>1 DEF MayComplete, Committed, Unmoved, Loadable
      <4>3. disk.portal = FirstOf(i) /\ FirstOf(i)' = FirstOf(i)
        BY <1>5, <2>2, <3>2, <4>1, <4>2 DEF MayComplete, FirstOf, Document
      <4>4. disk'.portalMarker # Absent /\ disk'.portalMarker.origin = Origin(disk.portal)
        BY <1>5, <3>2, PortalFiles
      <4>5. Matches("portal", FirstOf(i))'
        BY <1>5, <4>3, <4>4 DEF Matches
      <4>6. MayComplete(i)'
        BY <1>5, <3>2, <4>2, <4>3, <4>4, <4>5 DEF MayComplete
      <4> QED
        BY <4>2, <4>6 DEF Committed
    <3>3. CASE disk.portal = Absent /\ legacy.portal # Absent
      <4>1. i.base > 0
        BY <2>2, <2>3, <3>3
      <4> QED
        BY <1>5, <2>2, <3>3, <4>1 DEF MayComplete, Committed, Unmoved, Loadable
    <3> QED
      BY <1>4, <3>1, <3>2, <3>3
  <2> QED
    BY <1>1, <1>4, <2>1, <2>2, <2>4 DEF IntentSound
<1>10. NamesSound'
  BY <1>1 DEF ScriptSound, NamesSound, Installing, Switching
<1>11. WritesSound'
  BY <1>1, <1>4 DEF WritesSound
<1>12. PathSound' /\ WiresSound'
  BY <1>1 DEF PathSound, WiresSound, Installing, Switching
<1> QED
  BY <1>1, <1>7, <1>8, <1>9, <1>10, <1>11, <1>12 DEF WorldSound, ScriptSound

LEMMA WriteOfBackend ==
  ASSUME SwitchInv, WriteFile, script.step \in {"install", "installed", "begin", "live"}
  PROVE  WorldSound' /\ ScriptSound'
<1>1. /\ SwitchTypeOK /\ SwitchTypeOK' /\ LinesSound /\ ScriptSound
      /\ script # NoScript /\ script' # NoScript /\ script'.name = script.name
      /\ script'.release = script.release /\ script'.step = script.step
      /\ UNCHANGED <<container, rows, legacy, losses, apart>>
      /\ RowsSound' /\ Compatible' /\ Upable' = Upable
  BY WriteKeepsRows
<1>2. BackendOnly(script.writes)
  BY <1>1 DEF ScriptSound, WritesSound
<1>3. /\ disk'.portal = disk.portal /\ disk'.portalMarker = disk.portalMarker
      /\ disk'.intent = disk.intent /\ BackendOnly(script'.writes)
      /\ \/ disk'.backend = disk.backend
         \/ disk'.backend # Absent /\ disk'.backend.line \in Seq(Releases)
  BY <1>1, <1>2, BackendWritten
<1>4. /\ Settled' = Settled
      /\ \A i : Committed(i)' = Committed(i) /\ MayComplete(i)' = MayComplete(i)
  BY <1>1, <1>3, SamePortal
<1>5. LinesSound' /\ NothingServedYet'
  BY <1>1, <1>3 DEF SwitchInv, WorldSound, LinesSound, NothingServedYet
<1>6. IntentSound'
  BY <1>1, <1>3, <1>4 DEF SwitchInv, WorldSound, IntentSound
<1>7. NamesSound' /\ WritesSound' /\ PathSound'
  BY <1>1, <1>3, <1>4
     DEF ScriptSound, NamesSound, WritesSound, PathSound, Installing, Switching
<1>8. WiresSound'
  <2>1. Current(disk'.portal) = Current(disk.portal)
    BY <1>3
  <2> QED
    BY <1>1, <1>3, <2>1 DEF ScriptSound, WiresSound, Installing, Switching
<1> QED
  BY <1>1, <1>5, <1>6, <1>7, <1>8 DEF WorldSound, ScriptSound

LEMMA WriteAtVerify ==
  ASSUME SwitchInv, WriteFile, script.step = "verify"
  PROVE  WorldSound' /\ ScriptSound'
<1>1. /\ SwitchTypeOK /\ LinesSound /\ ScriptSound
      /\ script # NoScript /\ script.writes # <<>>
      /\ script' # NoScript /\ script'.name = script.name
      /\ script'.release = script.release /\ script'.step = "verify"
      /\ UNCHANGED <<container, rows, legacy, losses, apart>>
      /\ RowsSound' /\ Compatible' /\ Upable' = Upable
  BY WriteKeepsRows
<1>2. script.writes = Clearing /\ disk.portal # Absent /\ Settled
  BY <1>1 DEF ScriptSound, WritesSound, PathSound
<1>3. /\ script'.writes = <<>> /\ disk'.intent = Absent
      /\ disk'.portal = disk.portal /\ disk'.portalMarker = disk.portalMarker
      /\ disk'.backend = disk.backend
  BY <1>1, <1>2, ClearStep
<1>4. Settled'
  BY <1>1, <1>2, <1>3, SamePortal
<1>5. LinesSound' /\ NothingServedYet' /\ IntentSound'
  BY <1>1, <1>2, <1>3 DEF LinesSound, NothingServedYet, IntentSound
<1>6. NamesSound' /\ WritesSound' /\ PathSound' /\ WiresSound'
  BY <1>1, <1>3, <1>4
     DEF ScriptSound, NamesSound, WritesSound, PathSound, WiresSound, Installing, Switching
<1> QED
  BY <1>1, <1>5, <1>6 DEF WorldSound, ScriptSound

LEMMA WriteOfIntent ==
  ASSUME SwitchInv, WriteFile, script.step = "up"
  PROVE  WorldSound' /\ ScriptSound'
<1>1. /\ SwitchTypeOK /\ LinesSound /\ ScriptSound
      /\ script # NoScript /\ script.writes # <<>>
      /\ script' # NoScript /\ script'.name = script.name
      /\ script'.release = script.release /\ script'.step = "up"
      /\ UNCHANGED <<container, rows, legacy, losses, apart>>
      /\ RowsSound' /\ Compatible' /\ Upable' = Upable
  BY WriteKeepsRows
<1>2. PICK i : i = IntentTo(disk.portal, script.release)
  OBVIOUS
<1>3. /\ script.writes = PutFile("intent", i) /\ MayLoad("portal") /\ Settled
      /\ i.from # script.release
  BY <1>1, <1>2 DEF ScriptSound, WritesSound
<1>4. script.release \in Releases
  BY <1>1 DEF ScriptSound, NamesSound, Switching
<1>5. /\ i \in Intents /\ i # Absent /\ i.to = script.release /\ i.base \in Nat
      /\ i.base = 0 <=> disk.portal = Absent
      /\ ~Committed(i)
      /\ disk.portal = Absent => i.from = Absent
      /\ disk.portal # Absent => /\ i.from = Current(disk.portal) /\ i.from \in Releases
                                 /\ i.base = Generation(disk.portal) /\ i.base > 0
  BY <1>1, <1>2, <1>4, IntentIs DEF Intents
<1>6. /\ script'.writes = <<>> /\ disk'["intent"] = i
      /\ \A g \in Files : g # "intent" => disk'[g] = disk[g]
  <2>1. "intent" \in Files /\ i \in ContentOf("intent") /\ <<>> \in Seq(Writes)
    BY <1>5 DEF Files, ContentOf, Kinds
  <2>2. script.writes = PutFile("intent", i) \o <<>>
    BY <1>3, <2>1, PutAlone
  <2> QED
    BY <1>1, <2>1, <2>2, WrittenPut
<1>7. /\ disk'.intent = i /\ disk'.portal = disk.portal
      /\ disk'.portalMarker = disk.portalMarker /\ disk'.backend = disk.backend
  BY <1>6 DEF Files
<1>8. Settled' /\ MayComplete(i)' = MayComplete(i) /\ ~Committed(i)'
  BY <1>1, <1>3, <1>5, <1>7, SamePortal
<1>9. LinesSound'
  BY <1>1, <1>4, <1>5, <1>7 DEF LinesSound
<1>10. NothingServedYet'
  BY <1>5, <1>7 DEF NothingServedYet
<1>11. MayComplete(i)
  <2>1. CASE disk.portal = Absent
    <3>1. disk.portalMarker = Absent
      BY <1>3, <2>1 DEF MayLoad, Loadable, MarkerOf
    <3> QED
      BY <1>5, <2>1, <3>1 DEF MayComplete
  <2>2. CASE disk.portal # Absent
    <3>1. Loadable("portal")
      BY <1>3, <2>2 DEF MayLoad
    <3> QED
      BY <1>5, <2>2, <3>1 DEF MayComplete, Unmoved
  <2> QED
    BY <2>1, <2>2
<1>12. disk.portal = Absent => legacy.portal = Absent
  BY <1>3 DEF Settled
<1>13. IntentSound'
  <2>1. MayComplete(disk.intent)' /\ ~Committed(disk.intent)'
    BY <1>7, <1>8, <1>11
  <2>2. i.base > 0 => i.from # i.to /\ i.from # Absent
    BY <1>3, <1>5, AbsentIsNone
  <2> QED
    BY <1>1, <1>5, <1>7, <1>12, <2>1, <2>2 DEF IntentSound
<1>14. NamesSound' /\ WritesSound'
  BY <1>1, <1>6 DEF ScriptSound, NamesSound, WritesSound, Installing, Switching
<1>15. PathSound'
  BY <1>1, <1>2, <1>6, <1>7 DEF PathSound, Installing, Switching
<1>16. WiresSound'
  <2>1. Current(disk'.portal) = Current(disk.portal)
    BY <1>7
  <2> QED
    BY <1>1, <1>7, <2>1 DEF ScriptSound, WiresSound, Installing, Switching
<1> QED
  BY <1>1, <1>9, <1>10, <1>13, <1>14, <1>15, <1>16 DEF WorldSound, ScriptSound

LEMMA WriteAtDone ==
  ASSUME SwitchInv, WriteFile, script.step = "done"
  PROVE  WorldSound' /\ ScriptSound'
<1>1. /\ SwitchTypeOK /\ SwitchTypeOK' /\ LinesSound /\ ScriptSound
      /\ script # NoScript /\ script.writes # <<>>
      /\ script' # NoScript /\ script'.name = script.name
      /\ script'.release = script.release /\ script'.step = "done"
      /\ UNCHANGED <<container, rows, legacy, losses, apart>>
      /\ RowsSound' /\ Compatible' /\ Upable' = Upable
  BY WriteKeepsRows
<1>2. NamesSound' /\ PathSound' /\ WiresSound'
  BY <1>1 DEF ScriptSound, NamesSound, PathSound, WiresSound, Installing, Switching
<1>3. disk.intent # Absent
  BY <1>1 DEF ScriptSound, WritesSound
<1>4. PICK i \in Intents : i = disk.intent
  BY <1>1, <1>3, FilesAre
<1>5. i.to \in Releases /\ i.base \in Nat
  BY <1>1, <1>3, <1>4 DEF LinesSound, Intents
<1>6. losses = 0 =>
        /\ MayComplete(i)
        /\ i.base = 0 => legacy.portal = Absent
        /\ i.base > 0 => /\ i.from # i.to /\ i.from # Absent
                         /\ Committed(i) => container.release = i.to
  BY <1>3, <1>4 DEF SwitchInv, WorldSound, IntentSound
<1>7. \/ MayComplete(i) /\ container.release = i.to /\ script.writes = Completion(i)
      \/ MayAbort(i) /\ (i.base = 0 => ~Upable) /\ script.writes = Abortion(i)
  BY <1>1, <1>4 DEF ScriptSound, WritesSound
<1>8. CASE MayComplete(i) /\ container.release = i.to /\ script.writes = Completion(i)
  <2>1. /\ disk'.backend = disk.backend
        /\ \/ /\ script'.writes = <<>> /\ disk'.intent = Absent
              /\ disk'.portal = disk.portal /\ disk'.portalMarker = disk.portalMarker
              /\ disk.portalMarker # Absent
           \/ /\ disk'.intent = disk.intent /\ script'.writes = Completion(i)'
              /\ MayComplete(i)' /\ disk'.portalMarker # Absent
              /\ disk'.portal # Absent => disk'.portal.line \in Seq(Releases)
    BY <1>1, <1>5, <1>8, CompletionStep
  <2>2. CASE /\ script'.writes = <<>> /\ disk'.intent = Absent
             /\ disk'.portal = disk.portal /\ disk'.portalMarker = disk.portalMarker
             /\ disk.portalMarker # Absent
    <3>1. LinesSound' /\ NothingServedYet' /\ IntentSound'
      BY <1>1, <2>1, <2>2 DEF LinesSound, NothingServedYet, IntentSound
    <3>2. WritesSound'
      BY <1>1, <2>2 DEF WritesSound
    <3> QED
      BY <1>1, <1>2, <3>1, <3>2 DEF WorldSound, ScriptSound
  <2>3. CASE /\ disk'.intent = disk.intent /\ script'.writes = Completion(i)'
             /\ MayComplete(i)' /\ disk'.portalMarker # Absent
             /\ disk'.portal # Absent => disk'.portal.line \in Seq(Releases)
    <3>1. LinesSound' /\ NothingServedYet'
      BY <1>1, <2>1, <2>3 DEF LinesSound, NothingServedYet
    <3>2. /\ disk'.intent # Absent /\ MayComplete(disk.intent)'
          /\ container'.release = disk'.intent.to
          /\ script'.writes = Completion(disk.intent)'
      BY <1>1, <1>3, <1>4, <1>8, <2>3
    <3>3. IntentSound'
      BY <1>1, <1>4, <1>6, <2>3, <3>2 DEF IntentSound
    <3>4. WritesSound'
      BY <1>1, <3>2 DEF WritesSound
    <3> QED
      BY <1>1, <1>2, <3>1, <3>3, <3>4 DEF WorldSound, ScriptSound
  <2> QED
    BY <2>1, <2>2, <2>3
<1>9. CASE MayAbort(i) /\ (i.base = 0 => ~Upable) /\ script.writes = Abortion(i)
  <2>1. /\ disk'.backend = disk.backend
        /\ \/ /\ script'.writes = <<>> /\ disk'.intent = Absent
              /\ disk'.portal = disk.portal /\ disk'.portalMarker = disk.portalMarker
              /\ i.base > 0 => disk.portal # Absent
           \/ /\ disk'.intent = disk.intent /\ script'.writes = Abortion(i)' /\ i.base = 0
              /\ MayAbort(i)' /\ (MayComplete(i) => MayComplete(i)') /\ disk'.portal = Absent
    BY <1>1, <1>5, <1>9, AbortionStep
  <2>2. CASE /\ script'.writes = <<>> /\ disk'.intent = Absent
             /\ disk'.portal = disk.portal /\ disk'.portalMarker = disk.portalMarker
             /\ i.base > 0 => disk.portal # Absent
    <3>1. i.base = 0 \/ i.base > 0
      BY <1>5
    <3>2. LinesSound' /\ NothingServedYet' /\ IntentSound'
      BY <1>1, <1>9, <2>1, <2>2, <3>1 DEF LinesSound, NothingServedYet, IntentSound
    <3>3. WritesSound'
      BY <1>1, <2>2 DEF WritesSound
    <3> QED
      BY <1>1, <1>2, <3>2, <3>3 DEF WorldSound, ScriptSound
  <2>3. CASE /\ disk'.intent = disk.intent /\ script'.writes = Abortion(i)' /\ i.base = 0
             /\ MayAbort(i)' /\ (MayComplete(i) => MayComplete(i)') /\ disk'.portal = Absent
    <3>1. LinesSound' /\ NothingServedYet'
      BY <1>1, <1>3, <2>1, <2>3 DEF LinesSound, NothingServedYet
    <3>2. /\ disk'.intent # Absent /\ MayAbort(disk.intent)' /\ ~Upable'
          /\ script'.writes = Abortion(disk.intent)'
      BY <1>1, <1>3, <1>4, <1>9, <2>3
    <3>3. IntentSound'
      <4>1. losses = 0 => MayComplete(disk.intent)'
        BY <1>4, <1>6, <2>3
      <4> QED
        BY <1>1, <1>4, <1>6, <2>3, <4>1 DEF IntentSound
    <3>4. WritesSound'
      BY <1>1, <3>2 DEF WritesSound
    <3> QED
      BY <1>1, <1>2, <3>1, <3>3, <3>4 DEF WorldSound, ScriptSound
  <2> QED
    BY <2>1, <2>2, <2>3
<1> QED
  BY <1>7, <1>8, <1>9

LEMMA WriteKeeps ==
  ASSUME SwitchInv, WriteFile
  PROVE  WorldSound' /\ ScriptSound'
<1>1. script # NoScript /\ script.writes # <<>> /\ SwitchTypeOK
  BY WriteKeepsRows
<1>2. script.step \in ScriptSteps
  BY <1>1 DEF SwitchTypeOK
<1>3. script.step \notin {"migrations", "record", "probe", "restore", "complete", "abort"}
  BY <1>1 DEF SwitchInv, ScriptSound, WritesSound
<1>4. script.step \in {"check", "install", "installed", "begin", "live", "verify", "up", "done"}
  BY <1>2, <1>3 DEF ScriptSteps
<1> QED
  BY <1>4, WriteAtCheck, WriteOfBackend, WriteAtVerify, WriteOfIntent, WriteAtDone

LEMMA StutterKeeps ==
  ASSUME SwitchInv, UNCHANGED switchVars
  PROVE  WorldSound' /\ ScriptSound'
<1>1. UNCHANGED <<disk, script, container, rows, legacy, losses, apart>> /\ SwitchTypeOK
  BY DEF switchVars, SwitchInv, LineInv
<1>2. WorldSound'
  BY <1>1, WorldKept
<1>3. /\ Settled' = Settled /\ MayLoad("portal")' = MayLoad("portal")
      /\ MayMigrate("portal")' = MayMigrate("portal")
      /\ Migration("portal")' = Migration("portal") /\ Upable' = Upable
      /\ \A i : MayComplete(i)' = MayComplete(i) /\ MayAbort(i)' = MayAbort(i)
      /\ \A i : Completion(i)' = Completion(i) /\ Abortion(i)' = Abortion(i)
  BY <1>1, SamePortal DEF Upable
<1>4. /\ MayComplete(disk.intent)' = MayComplete(disk.intent)
      /\ MayAbort(disk.intent)' = MayAbort(disk.intent)
      /\ Completion(disk.intent)' = Completion(disk.intent)
      /\ Abortion(disk.intent)' = Abortion(disk.intent)
      /\ Current(disk'.portal) = Current(disk.portal)
  BY <1>1, <1>3
<1>5. NamesSound'
  BY <1>1 DEF SwitchInv, ScriptSound, NamesSound
<1>6. WritesSound'
  BY <1>1, <1>3, <1>4 DEF SwitchInv, ScriptSound, WritesSound
<1>7. PathSound'
  BY <1>1, <1>3 DEF SwitchInv, ScriptSound, PathSound
<1>8. WiresSound'
  BY <1>1, <1>3, <1>4 DEF SwitchInv, ScriptSound, WiresSound
<1> QED
  BY <1>2, <1>5, <1>6, <1>7, <1>8 DEF ScriptSound

LEMMA SwitchKeeps ==
  ASSUME SwitchInv, SwitchNext
  PROVE  WorldSound' /\ ScriptSound'
  BY StartKeeps, StartInstallKeeps, WriteKeeps, CheckKeeps, VerifyReleaseKeeps, VerifyRollbackKeeps,
     RegisterKeeps, RegisteredKeeps, InstallFailsKeeps, ActivateKeeps, RecordKeeps,
     BeginKeeps, ComposeKeeps, ProbeKeeps, CompleteKeeps, RestoreKeeps, AbortKeeps,
     RecoverKeeps, LiveKeeps, EndKeeps, TurnKeeps, LossKeeps DEF SwitchNext

(* What is compared before a switch holds to its end, and what a script     *)
(* has yet to write is what the same command would write if it began now.   *)
LEMMA SwitchInvHolds == SwitchSpec => []SwitchInv
<1>1. SwitchInv /\ (LineInv /\ losses \in Nat)' /\ [SwitchNext]_switchVars => SwitchInv'
  <2> SUFFICES ASSUME SwitchInv, LineInv', (losses \in Nat)', [SwitchNext]_switchVars
               PROVE  SwitchInv'
    OBVIOUS
  <2>1. WorldSound' /\ ScriptSound'
    BY SwitchKeeps, StutterKeeps
  <2> QED
    BY <2>1 DEF SwitchInv
<1> QED
  BY <1>1, SwitchStarts, LineInvHolds, LossesCounted, PTL DEF SwitchSpec

(* CompatibleServed for every set of releases and wires: a Portal that runs *)
(* speaks the wire of the active backend, in the middle of every switch and *)
(* wherever a script ended (release.sh, rollback.sh), but for what an       *)
(* install of its own has put apart (install-supabase-app.sh).              *)
THEOREM ServedIsCompatible == SwitchSpec => []CompatibleServed
<1>1. SwitchInv => CompatibleServed
  <2> SUFFICES ASSUME SwitchInv PROVE CompatibleServed
    OBVIOUS
  <2>1. Running # Absent => Upable /\ Running = container.release
    BY RunningUp DEF SwitchInv, LineInv
  <2> QED
    BY <2>1 DEF SwitchInv, WorldSound, Compatible, CompatibleServed
<1> QED
  BY <1>1, SwitchInvHolds, PTL

(* Recoverable for every set of releases: wherever a script ended, the      *)
(* intent it left can be settled on the side that runs                      *)
(* (recover-portal-switch.sh, release-state.py).                            *)
THEOREM AlwaysRecoverable == SwitchSpec => []Recoverable
<1>1. SwitchInv => Recoverable
  <2> SUFFICES ASSUME SwitchInv, disk.intent # Absent, losses = 0
               PROVE  /\ MayComplete(disk.intent)
                      /\ Running = disk.intent.from
                            => \/ MayAbort(disk.intent)
                               \/ disk.intent.base = 0 /\ Established("portal")
    BY DEF Recoverable
  <2>1. SwitchTypeOK
    BY DEF SwitchInv, LineInv
  <2>2. PICK i \in Intents : i = disk.intent
    BY <2>1, FilesAre
  <2>3. /\ MayComplete(i) /\ i.base \in Nat
        /\ i.base > 0 => /\ i.from # i.to /\ i.from # Absent
                         /\ Committed(i) => container.release = i.to
    BY <2>2 DEF SwitchInv, WorldSound, IntentSound, Intents
  <2>4. ASSUME Running = i.from
        PROVE  MayAbort(i) \/ (i.base = 0 /\ Established("portal"))
    <3>1. CASE i.base > 0
      <4>1. ~Committed(i)
        BY <2>1, <2>3, <2>4, <3>1, RunningUp
      <4>2. Unmoved(i)
        BY <2>3, <3>1, <4>1 DEF MayComplete
      <4> QED
        BY <3>1, <4>2 DEF MayAbort
    <3>2. CASE i.base = 0 /\ ~Established("portal")
      <4>1. IF disk.portalMarker = Absent THEN disk.portal = Absent
            ELSE Matches("portal", FirstOf(i)) /\ disk.portal \in {Absent, FirstOf(i)}
        BY <2>3, <3>2 DEF MayComplete
      <4> QED
        BY <3>2, <4>1 DEF MayAbort
    <3> QED
      BY <2>3, <3>1, <3>2
  <2> QED
    BY <2>2, <2>3, <2>4
<1> QED
  BY <1>1, SwitchInvHolds, PTL
=============================================================================
