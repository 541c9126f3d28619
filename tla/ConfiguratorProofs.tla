--------------------------- MODULE ConfiguratorProofs ---------------------------
(***************************************************************************)
(* No name of a VLAN interface is lost by the configurator but in the ways *)
(* that forgotten records, whatever the VLANs and the bounds are.  It does *)
(* not matter what the steps of the two threads carry, only that the texts *)
(* and files remain functions on the two interfaces.                       *)
(*                                                                         *)
(* For the other two results it does matter: the types of the steps, and,  *)
(* for a document nothing cuts into, which steps the worker has left and   *)
(* what those it has taken have achieved.                                  *)
(***************************************************************************)
EXTENDS Configurator, SequenceTheorems, TLAPS

Domains ==
  /\ DOMAIN netplan = Interfaces /\ DOMAIN vlanInterface = Interfaces
  /\ DOMAIN file = Interfaces

IInv == Domains /\ NamesKept

\* What changing one entry does to the names.
LEMMA NamedExcept ==
  ASSUME NEW f, DOMAIN f = Interfaces, NEW n, NEW v
  PROVE  /\ DOMAIN [f EXCEPT ![n] = v] = Interfaces
         /\ Named([f EXCEPT ![n] = v]) \subseteq Named(f) \cup ({v} \ {NoVlan})
         /\ n \in Interfaces => {v} \ {NoVlan} \subseteq Named([f EXCEPT ![n] = v])
         /\ Named(f) \ {f[n]} \subseteq Named([f EXCEPT ![n] = v])
BY DEF Named

\* A setter keeps the names it drops, or records them.
LEMMA SetterKeeps ==
  ASSUME IInv, NEW n, NEW old, NEW new, SetNetplan(n, old, new),
         UNCHANGED <<file, links>>
  PROVE  IInv'
<1>1. Domains'
  BY NamedExcept DEF IInv, Domains, SetNetplan
<1>2. NamesKept'
  <2> SUFFICES ASSUME NEW x \in links \cup Named(file)
               PROVE  x \in Named(netplan') \cup Named(vlanInterface') \cup forgotten'
    BY DEF NamesKept, Named
  <2>1. x # NoVlan \/ x \in forgotten
    BY DEF IInv, NamesKept, Named
  <2>2. CASE x \in forgotten
    BY <2>2 DEF SetNetplan
  <2>3. CASE x \notin forgotten /\ n \notin Interfaces
    <3>1. \A m \in Interfaces : netplan'[m] = netplan[m] /\ vlanInterface'[m] = vlanInterface[m]
      BY <2>3 DEF SetNetplan, IInv, Domains
    <3> QED BY <3>1, <2>3 DEF IInv, NamesKept, Named
  <2>4. CASE x \notin forgotten /\ n \in Interfaces
    <3>1. x \in Named(netplan) \cup Named(vlanInterface)
      BY <2>4 DEF IInv, NamesKept
    <3>2. CASE x = old
      BY <3>2, <2>1, <2>4, NamedExcept DEF SetNetplan, IInv, Domains
    <3>3. CASE x # old /\ x \in {vlanInterface[n], netplan[n]}
      BY <3>3, <2>1, <2>4 DEF SetNetplan
    <3>4. CASE x \notin {vlanInterface[n], netplan[n]}
      BY <3>1, <3>4, NamedExcept DEF SetNetplan, IInv, Domains
    <3> QED BY <3>2, <3>3, <3>4
  <2> QED BY <2>2, <2>3, <2>4
<1> QED BY <1>1, <1>2 DEF IInv

LEMMA InitKeeps == Init => IInv
BY DEF Init, IInv, Domains, NamesKept, Named

LEMMA StepKeeps == IInv /\ [Next]_vars => IInv'
<1> SUFFICES ASSUME IInv, [Next]_vars PROVE IInv'
  OBVIOUS
<1> USE DEF texts, disk, bounds
<1>1. CASE WorkerAssigns
  BY <1>1, SetterKeeps DEF WorkerAssigns
<1>2. CASE FormAssigns
  BY <1>2, SetterKeeps DEF FormAssigns
<1>3. CASE handleClearInterface
  <2> DEFINE n == Head(worker).n
  <2>1. /\ netplan' = [netplan EXCEPT ![n] = NoVlan]
        /\ UNCHANGED <<vlanInterface, file, links>>
        /\ forgotten' = forgotten \cup
             (({netplan[n]} \ {NoVlan, vlanInterface[n]}) \cap (links \cup Named(file)))
    BY <1>3 DEF handleClearInterface, Clear
  <2> HIDE DEF n
  <2>2. Domains'
    BY <2>1, NamedExcept DEF IInv, Domains
  <2>3. ASSUME NEW x \in links \cup Named(file), x = netplan[n], x # NoVlan, n \in Interfaces
        PROVE  x \in Named(vlanInterface) \cup forgotten'
    BY <2>1, <2>3 DEF Named
  <2>4. ASSUME NEW x \in links \cup Named(file)
        PROVE  x \in Named(netplan') \cup Named(vlanInterface) \cup forgotten'
    <3>1. CASE x \in Named(vlanInterface) \cup forgotten
      BY <3>1, <2>1
    <3>2. CASE x \in Named(netplan) /\ (x # netplan[n] \/ n \notin Interfaces)
      BY <3>2, <2>1 DEF Named, IInv, Domains
    <3>3. CASE x \in Named(netplan) /\ x = netplan[n] /\ n \in Interfaces
      BY <3>3, <2>3 DEF Named
    <3> QED BY <3>1, <3>2, <3>3 DEF IInv, NamesKept
  <2> QED BY <2>1, <2>2, <2>4 DEF IInv, NamesKept, Named
<1>4. CASE OpenFile
  <2>1. UNCHANGED <<netplan, vlanInterface, links, forgotten>>
    BY <1>4 DEF OpenFile
  <2>2. PICK n : file' = [file EXCEPT ![n] = NoVlan] \/ UNCHANGED file
    BY <1>4 DEF OpenFile
  <2>3. DOMAIN file' = Interfaces /\ Named(file') \subseteq Named(file)
    BY <2>2, NamedExcept DEF IInv, Domains
  <2> QED BY <2>1, <2>3 DEF IInv, Domains, NamesKept
<1>5. CASE WriteFile
  <2> DEFINE n == Head(worker).n
  <2>1. UNCHANGED <<netplan, vlanInterface, links, forgotten>>
        /\ file' = [file EXCEPT ![n] = netplan[n]]
    BY <1>5 DEF WriteFile
  <2> HIDE DEF n
  <2>2. DOMAIN file' = Interfaces /\ Named(file') \subseteq Named(file) \cup Named(netplan)
    <3>1. CASE n \in Interfaces
      BY <3>1, <2>1, NamedExcept DEF IInv, Domains, Named
    <3>2. CASE n \notin Interfaces
      <4>1. DOMAIN file' = Interfaces /\ \A m \in Interfaces : file'[m] = file[m]
        BY <3>2, <2>1 DEF IInv, Domains
      <4> QED BY <4>1 DEF Named
    <3> QED BY <3>1, <3>2
  <2> QED BY <2>1, <2>2 DEF IInv, Domains, NamesKept
<1>6. CASE execute
  <2>1. /\ UNCHANGED <<netplan, vlanInterface, file, forgotten>>
        /\ links' \subseteq links \cup Named(file)
    BY <1>6 DEF execute
  <2> QED BY <2>1 DEF IInv, Domains, NamesKept, Named
<1>7. CASE Restart
  <2>1. /\ netplan' = file /\ UNCHANGED <<file, links>>
        /\ vlanInterface' = [n \in Interfaces |-> NoVlan]
        /\ forgotten' = forgotten \cup (links \ Named(file))
    BY <1>7 DEF Restart
  <2> QED BY <2>1 DEF IInv, Domains, NamesKept, Named
<1>8. CASE UNCHANGED <<netplan, vlanInterface, file, links, forgotten>>
  BY <1>8 DEF IInv, Domains, NamesKept, Named
<1> QED
  BY <1>1, <1>2, <1>3, <1>4, <1>5, <1>6, <1>7, <1>8
     DEF Next, vars, handleSetupInterface, handleSetupHosts, handleApplyNetplan,
         applyNetplanSlot, OpenHosts, WriteHosts, ReceiveDocument, on_pbAccept_clicked,
         FormMatches, FormSetsHosts, FormEmits

\* A VLAN interface on the host or in the files is named by a text or is to be
\* deleted, or its name was dropped in a way that forgotten records: by
\* handleClearInterface, by setNetplan in two threads or twice without an
\* applyNetplanSlot, or by a restart.
THEOREM NamesAreKept == Spec => []NamesKept
<1>1. Spec => []IInv
  BY InitKeeps, StepKeeps, PTL DEF Spec
<1>2. IInv => NamesKept
  BY DEF IInv
<1> QED BY <1>1, <1>2, PTL

\* What applyNetplanSlot leaves on the host besides the interfaces of the files and
\* of the texts was forgotten.
THEOREM LeftoversAreExplained == Spec => LeftoversExplained
<1>1. Spec => []IInv
  BY InitKeeps, StepKeeps, PTL DEF Spec
<1>2. ASSUME IInv
      PROVE  [execute => links' \ forgotten' \subseteq Named(file') \cup Named(netplan')]_vars
  <2> SUFFICES ASSUME execute
               PROVE  links' \ forgotten' \subseteq Named(file') \cup Named(netplan')
    OBVIOUS
  <2>1. /\ UNCHANGED <<netplan, file, forgotten>>
        /\ links' \subseteq (links \ Named(vlanInterface)) \cup Named(file)
    BY DEF execute, texts, ToDelete
  <2> QED BY <1>2, <2>1 DEF IInv, NamesKept, Named
<1> QED BY <1>1, <1>2, PTL DEF LeftoversExplained
-----------------------------------------------------------------------------
(* Types, among them the steps the threads carry.                           *)

StepsOf(do) == {s \in Steps : s.do = do}

\* What a step carries.
LEMMA StepFields ==
  /\ \A s \in StepsOf("match")      : s.n \in Interfaces /\ s.vlan \in Names
  /\ \A s \in StepsOf("assign")     : s.n \in Interfaces /\ s.vlan \in Names /\ s.old \in Names
  /\ \A s \in StepsOf("clear")      : s.n \in Interfaces
  /\ \A s \in StepsOf("open")       : s.n \in Interfaces
  /\ \A s \in StepsOf("write")      : s.n \in Interfaces
  /\ \A s \in StepsOf("hosts")      : s.hosts \in HostTexts
  /\ \A s \in StepsOf("writeHosts") : s.text \in HostFiles
BY DEF StepsOf, Steps

\* The steps the actions make.
LEMMA StepsMade ==
  /\ \A n \in Interfaces, v \in Names : [do |-> "match", n |-> n, vlan |-> v] \in Steps
  /\ \A n \in Interfaces, v, w \in Names :
       [do |-> "assign", n |-> n, vlan |-> v, old |-> w] \in Steps
  /\ \A n \in Interfaces : /\ [do |-> "clear", n |-> n] \in Steps
                           /\ [do |-> "open", n |-> n] \in Steps
                           /\ [do |-> "write", n |-> n] \in Steps
  /\ \A l \in HostTexts : [do |-> "hosts", hosts |-> l] \in Steps
  /\ \A f \in HostFiles : [do |-> "writeHosts", text |-> f] \in Steps
  /\ [do |-> "apply"] \in Steps /\ [do |-> "openHosts"] \in Steps
  /\ [do |-> "execute"] \in Steps /\ [do |-> "emit"] \in Steps
BY DEF Steps

\* A thread's first step, and what is left when it is done or replaced by another.
LEMMA ThreadSteps ==
  ASSUME NEW thread \in Seq(Steps), NEW do, At(thread, do)
  PROVE  /\ Head(thread) \in StepsOf(do) /\ Head(thread) \in Steps
         /\ Tail(thread) \in Seq(Steps)
         /\ \A s \in Steps : <<s>> \o Tail(thread) \in Seq(Steps)
BY DEF At, StepsOf

LEMMA NamedVlans == \A f \in [Interfaces -> Names] : Named(f) \subseteq Vlans
BY DEF Named, Names

LEMMA HostFileTypes ==
  /\ \A f \in HostFiles, l \in HostTexts : WithBlock(f, l) \in HostFiles
  /\ [own |-> FALSE, blocks |-> <<>>] \in HostFiles
  /\ \A f \in HostFiles : f.blocks # <<>> => Head(f.blocks) \in HostTexts
BY DEF HostFiles, WithBlock

LEMMA NoNames == [n \in Interfaces |-> NoVlan] \in [Interfaces -> Names]
BY DEF Names

LEMMA NothingType == Nothing \in [vlans : [Interfaces -> Names], hosts : HostTexts]
BY NoNames DEF Nothing, HostTexts

LEMMA SetterTypes ==
  ASSUME TypeOK, NEW n \in Interfaces, NEW old \in Names, NEW new \in Names,
         SetNetplan(n, old, new)
  PROVE  /\ netplan' \in [Interfaces -> Names] /\ vlanInterface' \in [Interfaces -> Names]
         /\ forgotten' \subseteq Vlans
BY NamedVlans DEF TypeOK, SetNetplan

LEMMA ApplyTypes == ApplySteps \in Seq(Steps)
<1>1. /\ [do |-> "open", n |-> 1] \in Steps /\ [do |-> "open", n |-> 2] \in Steps
      /\ [do |-> "openHosts"] \in Steps /\ [do |-> "execute"] \in Steps
  BY StepsMade DEF Interfaces
<1> QED
  BY <1>1 DEF ApplySteps

LEMMA TypeStep == ASSUME TypeOK, [Next]_vars PROVE TypeOK'
<1> USE ConfiguratorAssumption DEF TypeOK, texts, disk, bounds
<1>1. CASE handleSetupInterface
  <2>1. Head(worker).n \in Interfaces /\ Head(worker).vlan \in Names
    BY <1>1, ThreadSteps, StepFields DEF handleSetupInterface
  <2>2. Matched(Head(worker)) \in Steps
    BY <2>1, StepsMade DEF Matched
  <2>3. worker' \in Seq(Steps)
    BY <1>1, <2>2, ThreadSteps DEF handleSetupInterface
  <2> QED
    BY <1>1, <2>3 DEF handleSetupInterface
<1>2. CASE WorkerAssigns
  <2>1. /\ Head(worker).n \in Interfaces /\ Head(worker).vlan \in Names
        /\ Head(worker).old \in Names /\ worker' \in Seq(Steps)
    BY <1>2, ThreadSteps, StepFields DEF WorkerAssigns
  <2> QED
    BY <1>2, <2>1, SetterTypes DEF WorkerAssigns
<1>3. CASE handleClearInterface
  <2>1. Head(worker).n \in Interfaces /\ worker' \in Seq(Steps)
    BY <1>3, ThreadSteps, StepFields DEF handleClearInterface
  <2>2. netplan' \in [Interfaces -> Names] /\ forgotten' \subseteq Vlans
    BY <1>3, <2>1, NamedVlans DEF handleClearInterface, Clear, Names
  <2> QED
    BY <1>3, <2>1, <2>2 DEF handleClearInterface
<1>4. CASE handleSetupHosts
  <2>1. hosts' \in HostTexts /\ worker' \in Seq(Steps)
    BY <1>4, ThreadSteps, StepFields DEF handleSetupHosts
  <2> QED
    BY <1>4, <2>1 DEF handleSetupHosts
<1>5. CASE handleApplyNetplan
  <2>1. worker' \in Seq(Steps)
    BY <1>5, ThreadSteps, ApplyTypes DEF handleApplyNetplan
  <2> QED
    BY <1>5, <2>1 DEF handleApplyNetplan
<1>6. CASE applyNetplanSlot
  BY <1>6, ApplyTypes DEF applyNetplanSlot
<1>7. CASE OpenFile
  <2>1. Head(worker).n \in Interfaces
    BY <1>7, ThreadSteps, StepFields DEF OpenFile
  <2>2. [do |-> "write", n |-> Head(worker).n] \in Steps
    BY <2>1, StepsMade
  <2>3. worker' \in Seq(Steps)
    <3>1. At(worker, "open") /\ worker \in Seq(Steps)
      BY <1>7 DEF OpenFile
    <3>2. /\ Tail(worker) \in Seq(Steps)
          /\ <<[do |-> "write", n |-> Head(worker).n]>> \o Tail(worker) \in Seq(Steps)
      BY <2>2, <3>1, ThreadSteps
    <3> QED
      BY <1>7, <3>2 DEF OpenFile
  <2>4. file' \in [Interfaces -> Names]
    BY <1>7 DEF OpenFile, Names
  <2>5. disturbed' \in BOOLEAN
    BY <1>7 DEF OpenFile
  <2>6. failures' \in 0..MaxFailures
    BY <1>7 DEF OpenFile, Fail
  <2> QED
    BY <1>7, <2>3, <2>4, <2>5, <2>6 DEF OpenFile
<1>8. CASE WriteFile
  <2>1. Head(worker).n \in Interfaces /\ worker' \in Seq(Steps)
    BY <1>8, ThreadSteps, StepFields DEF WriteFile
  <2> QED
    BY <1>8, <2>1 DEF WriteFile
<1>9. CASE OpenHosts
  <2>1. [do |-> "writeHosts", text |-> WithBlock(hostsFile, hosts)] \in Steps
    BY HostFileTypes, StepsMade
  <2>2. worker' \in Seq(Steps)
    BY <1>9, <2>1, ThreadSteps DEF OpenHosts
  <2>3. hostsFile' \in HostFiles
    BY <1>9, HostFileTypes DEF OpenHosts
  <2>4. disturbed' \in BOOLEAN
    BY <1>9 DEF OpenHosts
  <2>5. failures' \in 0..MaxFailures
    BY <1>9 DEF OpenHosts, Fail
  <2> QED
    BY <1>9, <2>2, <2>3, <2>4, <2>5 DEF OpenHosts
<1>10. CASE WriteHosts
  <2>1. Head(worker).text \in HostFiles /\ worker' \in Seq(Steps)
    BY <1>10, ThreadSteps, StepFields DEF WriteHosts
  <2> QED
    BY <1>10, <2>1 DEF WriteHosts
<1>11. CASE execute
  <2>1. worker' \in Seq(Steps)
    BY <1>11, ThreadSteps DEF execute
  <2>2. links' \subseteq Vlans /\ failures' \in 0..MaxFailures
    BY <1>11, NamedVlans DEF execute, Fail
  <2> QED
    BY <1>11, <2>1, <2>2 DEF execute
<1>12. CASE ReceiveDocument
  <2>1. PICK v \in Vlans, w \in Names, l \in HostLists :
          /\ worker' = << [do |-> "match", n |-> 1, vlan |-> v],
                          IF w = NoVlan THEN [do |-> "clear", n |-> 2]
                          ELSE [do |-> "match", n |-> 2, vlan |-> w],
                          [do |-> "hosts", hosts |-> l], [do |-> "apply"] >>
          /\ sent' = [vlans |-> <<v, w>>, hosts |-> l]
    BY <1>12 DEF ReceiveDocument
  <2>2. v \in Names /\ l \in HostTexts /\ 1 \in Interfaces /\ 2 \in Interfaces
    BY DEF Names, HostTexts, Interfaces
  <2>3. /\ [do |-> "match", n |-> 1, vlan |-> v] \in Steps
        /\ (IF w = NoVlan THEN [do |-> "clear", n |-> 2]
            ELSE [do |-> "match", n |-> 2, vlan |-> w]) \in Steps
        /\ [do |-> "hosts", hosts |-> l] \in Steps /\ [do |-> "apply"] \in Steps
    BY <2>2, StepsMade
  <2>4. worker' \in Seq(Steps)
    BY <2>1, <2>3
  <2>5. <<v, w>> \in [Interfaces -> Names]
    BY <2>2 DEF Interfaces
  <2>6. sent' \in [vlans : [Interfaces -> Names], hosts : HostTexts]
    BY <2>1, <2>2, <2>5
  <2> QED
    BY <1>12, <2>4, <2>6 DEF ReceiveDocument
<1>13. CASE on_pbAccept_clicked
  <2>1. PICK v \in Names, w \in Names, l \in HostLists :
          form' = << [do |-> "match", n |-> 1, vlan |-> v], [do |-> "match", n |-> 2, vlan |-> w],
                     [do |-> "hosts", hosts |-> l], [do |-> "emit"] >>
    BY <1>13 DEF on_pbAccept_clicked
  <2>2. l \in HostTexts /\ 1 \in Interfaces /\ 2 \in Interfaces
    BY DEF HostTexts, Interfaces
  <2>3. /\ [do |-> "match", n |-> 1, vlan |-> v] \in Steps
        /\ [do |-> "match", n |-> 2, vlan |-> w] \in Steps
        /\ [do |-> "hosts", hosts |-> l] \in Steps /\ [do |-> "emit"] \in Steps
    BY <2>2, StepsMade
  <2>4. form' \in Seq(Steps)
    BY <2>1, <2>3
  <2> QED
    BY <1>13, <2>4 DEF on_pbAccept_clicked
<1>14. CASE FormMatches
  <2>1. Head(form).n \in Interfaces /\ Head(form).vlan \in Names
    BY <1>14, ThreadSteps, StepFields DEF FormMatches
  <2>2. Matched(Head(form)) \in Steps
    BY <2>1, StepsMade DEF Matched
  <2>3. form' \in Seq(Steps)
    BY <1>14, <2>2, ThreadSteps DEF FormMatches
  <2> QED
    BY <1>14, <2>3 DEF FormMatches
<1>15. CASE FormAssigns
  <2>1. /\ Head(form).n \in Interfaces /\ Head(form).vlan \in Names
        /\ Head(form).old \in Names /\ form' \in Seq(Steps)
    BY <1>15, ThreadSteps, StepFields DEF FormAssigns
  <2> QED
    BY <1>15, <2>1, SetterTypes DEF FormAssigns
<1>16. CASE FormSetsHosts
  <2>1. hosts' \in HostTexts /\ form' \in Seq(Steps)
    BY <1>16, ThreadSteps, StepFields DEF FormSetsHosts
  <2> QED
    BY <1>16, <2>1 DEF FormSetsHosts
<1>17. CASE FormEmits
  <2>1. form' \in Seq(Steps)
    BY <1>17, ThreadSteps DEF FormEmits
  <2> QED
    BY <1>17, <2>1 DEF FormEmits
<1>18. CASE Restart
  <2>1. hosts' \in HostTexts /\ sent' \in [vlans : [Interfaces -> Names], hosts : HostTexts]
    BY <1>18, HostFileTypes, NothingType DEF Restart, HostTexts
  <2>2. /\ netplan' \in [Interfaces -> Names] /\ vlanInterface' \in [Interfaces -> Names]
        /\ forgotten' \subseteq Vlans
    BY <1>18, NoNames DEF Restart
  <2>3. worker' \in Seq(Steps) /\ form' \in Seq(Steps) /\ applySignals' \in Nat
    BY <1>18 DEF Restart
  <2>4. disturbed' \in BOOLEAN
    BY <1>18 DEF Restart
  <2>5. restarts' \in 0..MaxRestarts /\ UNCHANGED <<edits, failures, file, hostsFile, links>>
    BY <1>18 DEF Restart
  <2> QED
    BY <2>1, <2>2, <2>3, <2>4, <2>5
<1>19. CASE UNCHANGED vars
  BY <1>19 DEF vars
<1> QED
  BY <1>1, <1>2, <1>3, <1>4, <1>5, <1>6, <1>7, <1>8, <1>9, <1>10, <1>11, <1>12, <1>13,
     <1>14, <1>15, <1>16, <1>17, <1>18, <1>19 DEF Next

\* The texts, the files and the steps of both threads keep their types: no thread
\* finds a step that is not there, and the hosts file never has two blocks.
THEOREM TypeCorrect == Spec => []TypeOK
<1>1. Init => TypeOK
  <2> SUFFICES ASSUME Init PROVE TypeOK
    OBVIOUS
  <2>1. /\ netplan \in [Interfaces -> Names] /\ vlanInterface \in [Interfaces -> Names]
        /\ file \in [Interfaces -> Names]
    BY NoNames DEF Init
  <2>2. hostsFile \in HostFiles /\ hosts \in HostTexts
    BY DEF Init, HostFiles, HostTexts
  <2>3. sent \in [vlans : [Interfaces -> Names], hosts : HostTexts]
    BY NothingType DEF Init
  <2>4. /\ links \subseteq Vlans /\ forgotten \subseteq Vlans
        /\ worker \in Seq(Steps) /\ form \in Seq(Steps) /\ applySignals \in Nat
    BY DEF Init
  <2>6. disturbed \in BOOLEAN
    BY DEF Init
  <2>5. edits \in 0..MaxEdits /\ restarts \in 0..MaxRestarts /\ failures \in 0..MaxFailures
    BY ConfiguratorAssumption DEF Init
  <2> QED
    BY <2>1, <2>2, <2>3, <2>4, <2>5, <2>6 DEF TypeOK
<1> QED
  BY <1>1, TypeStep, PTL DEF Spec

-----------------------------------------------------------------------------
(* A document that nothing cuts into is applied as it was sent.             *)

WritesOwn(thread) ==
  \A k \in 1..Len(thread) : thread[k].do = "writeHosts" => thread[k].text.own

\* The lines of others are in the hosts file, or in what is about to be written.
OwnLines ==
  restarts = 0 =>
    /\ hostsFile.own \/ At(worker, "writeHosts")
    /\ WritesOwn(worker)

Sent(n)     == sent.vlans[n]
TextsAsSent == netplan = sent.vlans /\ hosts = sent.hosts

Match(n, v)       == [do |-> "match", n |-> n, vlan |-> v]
Assign(n, v, old) == [do |-> "assign", n |-> n, vlan |-> v, old |-> old]
SecondCall   == IF Sent(2) = NoVlan THEN [do |-> "clear", n |-> 2] ELSE Match(2, Sent(2))
HostsCall    == [do |-> "hosts", hosts |-> sent.hosts]
ApplyCall    == [do |-> "apply"]
Open(n)      == [do |-> "open", n |-> n]
Write(n)     == [do |-> "write", n |-> n]
OpenHostsDo  == [do |-> "openHosts"]
ExecuteDo    == [do |-> "execute"]

\* How far the worker is in a document, and what the document has achieved so far:
\* the calls that set the texts,
SetsTexts ==
  \/ worker = <<Match(1, Sent(1)), SecondCall, HostsCall, ApplyCall>>
  \/ \E old \in Names : worker = <<Assign(1, Sent(1), old), SecondCall, HostsCall, ApplyCall>>
  \/ /\ netplan[1] = Sent(1)
     /\ \/ worker = <<SecondCall, HostsCall, ApplyCall>>
        \/ \E old \in Names : worker = <<Assign(2, Sent(2), old), HostsCall, ApplyCall>>
  \/ netplan = sent.vlans /\ worker = <<HostsCall, ApplyCall>>
  \/ TextsAsSent /\ worker = <<ApplyCall>>

\* the three files,
SavesFiles ==
  /\ TextsAsSent
  /\ \/ worker = <<Open(1), Open(2), OpenHostsDo, ExecuteDo>>
     \/ worker = <<Write(1), Open(2), OpenHostsDo, ExecuteDo>>
     \/ file[1] = Sent(1) /\ worker = <<Open(2), OpenHostsDo, ExecuteDo>>
     \/ file[1] = Sent(1) /\ worker = <<Write(2), OpenHostsDo, ExecuteDo>>
     \/ file = sent.vlans /\ worker = <<OpenHostsDo, ExecuteDo>>
     \/ /\ file = sent.vlans
        /\ \E text \in HostFiles :
             /\ text.blocks = <<sent.hosts>>
             /\ worker = <<[do |-> "writeHosts", text |-> text], ExecuteDo>>

\* and netplan.
Executes ==
  file = sent.vlans /\ hostsFile.blocks = <<sent.hosts>> /\ worker = <<ExecuteDo>>

\* While nothing cuts in, the form is idle and the worker is somewhere there.
DocumentInv ==
  ~disturbed => form = <<>> /\ (worker = <<>> \/ SetsTexts \/ SavesFiles \/ Executes)

LEMMA ConcatenatedSteps ==
  ASSUME NEW a \in Seq(Steps), NEW b \in Seq(Steps)
  PROVE  /\ Len(a \o b) = Len(a) + Len(b)
         /\ \A k \in 1..Len(a) + Len(b) :
              (a \o b)[k] = IF k <= Len(a) THEN a[k] ELSE b[k - Len(a)]
OBVIOUS

\* What becomes of the steps of a thread.
LEMMA WritesOwnKept ==
  ASSUME NEW s \in Seq(Steps), s # <<>>, WritesOwn(s)
  PROVE  /\ WritesOwn(Tail(s))
         /\ WritesOwn(ApplySteps \o Tail(s))
         /\ \A x : (x.do = "writeHosts" => x.text.own) => WritesOwn(<<x>> \o Tail(s))
<1> DEFINE t == Tail(s)
<1>1. /\ t \in Seq(Steps) /\ Len(s) \in Nat /\ Len(t) = Len(s) - 1
      /\ \A k \in 1..Len(t) : k + 1 \in 1..Len(s) /\ t[k] = s[k + 1]
  OBVIOUS
<1> HIDE DEF t
<1>2. WritesOwn(t)
  BY <1>1 DEF WritesOwn
<1>3. WritesOwn(ApplySteps \o t)
  <2>1. /\ ApplySteps \in Seq(Steps) /\ Len(ApplySteps) = 4
        /\ \A k \in 1..4 : ApplySteps[k].do # "writeHosts"
    BY ApplyTypes DEF ApplySteps
  <2> HIDE DEF ApplySteps
  <2>2. /\ Len(ApplySteps \o t) = Len(ApplySteps) + Len(t)
        /\ \A k \in 1..Len(ApplySteps) + Len(t) :
             (ApplySteps \o t)[k] = IF k <= Len(ApplySteps) THEN ApplySteps[k]
                                   ELSE t[k - Len(ApplySteps)]
    BY <2>1, <1>1, ConcatenatedSteps
  <2> QED
    BY <1>1, <1>2, <2>1, <2>2 DEF WritesOwn
<1>4. ASSUME NEW x, x.do = "writeHosts" => x.text.own
      PROVE  WritesOwn(<<x>> \o t)
  <2>1. /\ Len(<<x>> \o t) = 1 + Len(t) /\ (<<x>> \o t)[1] = x
        /\ \A k \in 2..1 + Len(t) : (<<x>> \o t)[k] = t[k - 1]
    BY <1>1
  <2> QED
    BY <1>1, <1>2, <1>4, <2>1 DEF WritesOwn
<1> QED
  BY <1>2, <1>3, <1>4 DEF t

LEMMA OwnLinesStep == ASSUME TypeOK, TypeOK', OwnLines, [Next]_vars PROVE OwnLines'
<1> USE DEF texts, disk, bounds
<1>0. worker \in Seq(Steps) /\ restarts \in Nat /\ hostsFile \in HostFiles
  BY ConfiguratorAssumption DEF TypeOK
<1>1. CASE restarts' # 0
  BY <1>1 DEF OwnLines
<1> SUFFICES ASSUME restarts' = 0 PROVE OwnLines'
  BY <1>1
<1>2. ~Restart
  BY <1>0 DEF Restart
<1>3. restarts = 0 /\ (hostsFile.own \/ At(worker, "writeHosts")) /\ WritesOwn(worker)
  <2>1. restarts' = restarts
    BY <1>2 DEF Next, vars, handleSetupInterface, WorkerAssigns, handleClearInterface,
      handleSetupHosts, handleApplyNetplan, applyNetplanSlot, OpenFile, WriteFile,
      OpenHosts, WriteHosts, execute, ReceiveDocument, on_pbAccept_clicked, FormMatches,
      FormAssigns, FormSetsHosts, FormEmits
  <2> QED
    BY <2>1 DEF OwnLines
\* A step of the worker that is neither openHosts nor writeHosts.
<1>4. ASSUME NEW do, At(worker, do), do # "writeHosts", UNCHANGED hostsFile,
             \/ worker' = Tail(worker)
             \/ worker' = ApplySteps \o Tail(worker)
             \/ \E x : x.do # "writeHosts" /\ worker' = <<x>> \o Tail(worker)
      PROVE  OwnLines'
  <2>1. hostsFile.own /\ worker # <<>>
    BY <1>3, <1>4 DEF At
  <2>2. WritesOwn(worker')
    BY <1>0, <1>3, <1>4, <2>1, WritesOwnKept
  <2> QED
    BY <2>1, <2>2, <1>4 DEF OwnLines
<1>5. CASE handleSetupInterface
  <2>1. worker' = <<Matched(Head(worker))>> \o Tail(worker) /\ At(worker, "match")
        /\ UNCHANGED hostsFile
    BY <1>5 DEF handleSetupInterface
  <2>2. Matched(Head(worker)).do # "writeHosts"
    BY DEF Matched
  <2> QED
    BY <2>1, <2>2, <1>4
<1>6. CASE WorkerAssigns
  BY <1>6, <1>4 DEF WorkerAssigns
<1>7. CASE handleClearInterface
  BY <1>7, <1>4 DEF handleClearInterface
<1>8. CASE handleSetupHosts
  BY <1>8, <1>4 DEF handleSetupHosts
<1>9. CASE handleApplyNetplan
  BY <1>9, <1>4 DEF handleApplyNetplan
<1>10. CASE applyNetplanSlot
  <2>1. hostsFile.own /\ UNCHANGED hostsFile /\ worker' = ApplySteps
    BY <1>10, <1>3 DEF applyNetplanSlot, At
  <2>2. WritesOwn(ApplySteps)
    BY DEF WritesOwn, ApplySteps
  <2> QED
    BY <2>1, <2>2 DEF OwnLines
<1>11. CASE OpenFile
  <2>1. At(worker, "open") /\ UNCHANGED hostsFile
        /\ \/ worker' = Tail(worker)
           \/ worker' = <<[do |-> "write", n |-> Head(worker).n]>> \o Tail(worker)
    BY <1>11 DEF OpenFile
  <2>2. [do |-> "write", n |-> Head(worker).n].do # "writeHosts"
    OBVIOUS
  <2> QED
    BY <2>1, <2>2, <1>4
<1>12. CASE WriteFile
  BY <1>12, <1>4 DEF WriteFile
<1>13. CASE OpenHosts
  <2>1. hostsFile.own /\ worker # <<>>
    BY <1>3, <1>13 DEF OpenHosts, At
  <2>2. CASE worker' = Tail(worker) /\ UNCHANGED hostsFile
    BY <2>1, <2>2, <1>0, <1>3, WritesOwnKept DEF OwnLines
  <2>3. CASE worker' = <<[do |-> "writeHosts", text |-> WithBlock(hostsFile, hosts)]>>
                         \o Tail(worker)
    <3> DEFINE x == [do |-> "writeHosts", text |-> WithBlock(hostsFile, hosts)]
    <3>1. x.do = "writeHosts" /\ x.text.own
      BY <1>0, <2>1 DEF WithBlock, HostFiles
    <3> HIDE DEF x
    <3>2. worker' = <<x>> \o Tail(worker)
      BY <2>3 DEF x
    <3>3. WritesOwn(worker')
      BY <3>1, <3>2, <1>0, <1>3, <2>1, WritesOwnKept
    <3>4. At(worker, "writeHosts")'
      <4>1. worker' # <<>> /\ Head(worker') = x
        BY <1>0, <2>1, <3>2
      <4> QED
        BY <4>1, <3>1 DEF At
    <3> QED
      BY <3>3, <3>4 DEF OwnLines
  <2> QED
    BY <1>13, <2>2, <2>3 DEF OpenHosts
<1>14. CASE WriteHosts
  <2>1. /\ worker # <<>> /\ worker[1].do = "writeHosts"
        /\ hostsFile' = worker[1].text /\ worker' = Tail(worker)
    BY <1>14, <1>0 DEF WriteHosts, At
  <2>2. 1 \in 1..Len(worker)
    BY <1>0, <2>1
  <2>3. hostsFile'.own
    BY <2>1, <2>2, <1>3 DEF WritesOwn
  <2> QED
    BY <2>1, <2>3, <1>0, <1>3, WritesOwnKept DEF OwnLines
<1>15. CASE execute
  BY <1>15, <1>4 DEF execute
<1>16. CASE ReceiveDocument
  <2>1. hostsFile.own /\ UNCHANGED hostsFile
    BY <1>16, <1>3 DEF ReceiveDocument, At
  <2>2. WritesOwn(worker')
    BY <1>16 DEF ReceiveDocument, WritesOwn
  <2> QED
    BY <2>1, <2>2 DEF OwnLines
<1>17. CASE UNCHANGED <<worker, hostsFile>>
  BY <1>17, <1>3 DEF OwnLines, At
<1> QED
  BY <1>2, <1>5, <1>6, <1>7, <1>8, <1>9, <1>10, <1>11, <1>12, <1>13, <1>14, <1>15, <1>16,
     <1>17
  DEF Next, vars, on_pbAccept_clicked, FormMatches, FormAssigns, FormSetsHosts, FormEmits

\* Two sequences of up to four elements are equal if these are.
LEMMA ShortSequencesEqual ==
  ASSUME NEW S, NEW s \in Seq(S), NEW r \in Seq(S), Len(s) = Len(r), Len(r) \in 0..4,
         \A i \in {1, 2, 3, 4} : i <= Len(r) => s[i] = r[i]
  PROVE  s = r
<1>1. \A i \in 1..Len(s) : s[i] = r[i]
  OBVIOUS
<1> QED
  BY <1>1, SeqEqual

\* A step put before one, two and three others.
LEMMA PrependedToOne == ASSUME NEW a, NEW b PROVE <<a>> \o <<b>> = <<a, b>>
<1> DEFINE S == {a, b}
           s == <<a>> \o <<b>>
           r == <<a, b>>
<1>1. /\ s \in Seq(S) /\ Len(s) = 2 /\ s[1] = a /\ s[2] = b
      /\ r \in Seq(S) /\ Len(r) = 2 /\ r[1] = a /\ r[2] = b
  OBVIOUS
<1> HIDE DEF S, s, r
<1>2. s = r
  BY <1>1, ShortSequencesEqual
<1> QED
  BY <1>2 DEF s, r

LEMMA PrependedToTwo ==
  ASSUME NEW a, NEW b, NEW c PROVE <<a>> \o <<b, c>> = <<a, b, c>>
<1> DEFINE S == {a, b, c}
           s == <<a>> \o <<b, c>>
           r == <<a, b, c>>
<1>1. /\ s \in Seq(S) /\ Len(s) = 3 /\ s[1] = a /\ s[2] = b /\ s[3] = c
      /\ r \in Seq(S) /\ Len(r) = 3 /\ r[1] = a /\ r[2] = b /\ r[3] = c
  OBVIOUS
<1> HIDE DEF S, s, r
<1>2. s = r
  BY <1>1, ShortSequencesEqual
<1> QED
  BY <1>2 DEF s, r

LEMMA PrependedToThree ==
  ASSUME NEW a, NEW b, NEW c, NEW d PROVE <<a>> \o <<b, c, d>> = <<a, b, c, d>>
<1> DEFINE S == {a, b, c, d}
           s == <<a>> \o <<b, c, d>>
           r == <<a, b, c, d>>
<1>1. s \in Seq(S) /\ Len(s) = 4 /\ s[1] = a /\ s[2] = b /\ s[3] = c /\ s[4] = d
  OBVIOUS
<1>2. r \in Seq(S) /\ Len(r) = 4 /\ r[1] = a /\ r[2] = b /\ r[3] = c /\ r[4] = d
  OBVIOUS
<1> HIDE DEF S, s, r
<1>3. s = r
  BY <1>1, <1>2, ShortSequencesEqual
<1> QED
  BY <1>3 DEF s, r

\* Short sequences: the first element and the others.
LEMMA Tuples ==
  ASSUME NEW a, NEW b, NEW c, NEW d
  PROVE  /\ <<a>> # <<>> /\ Head(<<a>>) = a /\ Tail(<<a>>) = <<>>
         /\ <<a, b>> # <<>> /\ Head(<<a, b>>) = a /\ Tail(<<a, b>>) = <<b>>
         /\ <<a, b, c>> # <<>> /\ Head(<<a, b, c>>) = a /\ Tail(<<a, b, c>>) = <<b, c>>
         /\ <<a, b, c, d>> # <<>> /\ Head(<<a, b, c, d>>) = a
         /\ Tail(<<a, b, c, d>>) = <<b, c, d>>
         /\ <<a, b, c, d>> \o <<>> = <<a, b, c, d>>
OBVIOUS

\* The next step of the worker within a document, and with it what is achieved.
LEMMA NextInDocument ==
  ASSUME TypeOK, worker # <<>>, SetsTexts \/ SavesFiles \/ Executes
  PROVE
    LET do == Head(worker).do
    IN  /\ do = "match" =>
             \/ /\ worker = <<Match(1, Sent(1)), SecondCall, HostsCall, ApplyCall>>
             \/ /\ netplan[1] = Sent(1)
                /\ worker = <<Match(2, Sent(2)), HostsCall, ApplyCall>>
        /\ do = "clear" =>
             /\ netplan[1] = Sent(1) /\ Sent(2) = NoVlan /\ Head(worker).n = 2
             /\ worker = <<SecondCall, HostsCall, ApplyCall>>
        /\ do = "assign" =>
             \/ \E old \in Names :
                  worker = <<Assign(1, Sent(1), old), SecondCall, HostsCall, ApplyCall>>
             \/ /\ netplan[1] = Sent(1)
                /\ \E old \in Names :
                     worker = <<Assign(2, Sent(2), old), HostsCall, ApplyCall>>
        /\ do = "hosts" => netplan = sent.vlans /\ worker = <<HostsCall, ApplyCall>>
        /\ do = "apply" => TextsAsSent /\ worker = <<ApplyCall>>
        /\ do = "open" =>
             /\ TextsAsSent
             /\ \/ worker = <<Open(1), Open(2), OpenHostsDo, ExecuteDo>>
                \/ file[1] = Sent(1) /\ worker = <<Open(2), OpenHostsDo, ExecuteDo>>
        /\ do = "write" =>
             /\ TextsAsSent
             /\ \/ worker = <<Write(1), Open(2), OpenHostsDo, ExecuteDo>>
                \/ file[1] = Sent(1) /\ worker = <<Write(2), OpenHostsDo, ExecuteDo>>
        /\ do = "openHosts" =>
             TextsAsSent /\ file = sent.vlans /\ worker = <<OpenHostsDo, ExecuteDo>>
        /\ do = "writeHosts" =>
             /\ file = sent.vlans
             /\ \E text \in HostFiles :
                  /\ text.blocks = <<sent.hosts>>
                  /\ worker = <<[do |-> "writeHosts", text |-> text], ExecuteDo>>
        /\ do = "execute" =>
             file = sent.vlans /\ hostsFile.blocks = <<sent.hosts>> /\ worker = <<ExecuteDo>>
<1> USE Tuples DEF Match, Assign, HostsCall, ApplyCall, Open, Write, OpenHostsDo, ExecuteDo,
        SecondCall
<1>1. CASE SetsTexts
  BY <1>1 DEF SetsTexts
<1>2. CASE SavesFiles
  BY <1>2 DEF SavesFiles
<1>3. CASE Executes
  BY <1>3 DEF Executes
<1> QED
  BY <1>1, <1>2, <1>3

\* sent and the texts are pairs: two entries decide.
LEMMA PairsEqual ==
  ASSUME NEW f \in [Interfaces -> Names], NEW g \in [Interfaces -> Names],
         f[1] = g[1], f[2] = g[2]
  PROVE  f = g
BY DEF Interfaces

LEMMA DocumentStep ==
  ASSUME TypeOK, TypeOK', DocumentInv, [Next]_vars PROVE DocumentInv'
<1> USE DEF texts, disk, bounds
<1> DEFINE InDocument == SetsTexts \/ SavesFiles \/ Executes
<1> SUFFICES ASSUME ~disturbed'
             PROVE  form' = <<>> /\ (worker' = <<>> \/ InDocument')
  BY DEF DocumentInv
<1>0. /\ netplan \in [Interfaces -> Names] /\ sent.vlans \in [Interfaces -> Names]
      /\ netplan' \in [Interfaces -> Names] /\ file' \in [Interfaces -> Names]
      /\ 1 \in Interfaces /\ 2 \in Interfaces
      /\ Sent(1) \in Names /\ Sent(2) \in Names
      /\ hostsFile \in HostFiles /\ hosts \in HostTexts
  BY DEF TypeOK, Interfaces, Sent
\* The worker takes a step, and nothing has cut in.
<1>1. ASSUME ~disturbed, NEW do, At(worker, do)
      PROVE  form = <<>> /\ worker # <<>> /\ Head(worker).do = do /\ InDocument
  BY <1>1 DEF DocumentInv, At
<1> HIDE DEF InDocument
<1>2. CASE handleSetupInterface
  <2>1. /\ At(worker, "match") /\ ~disturbed
        /\ worker' = <<Matched(Head(worker))>> \o Tail(worker)
        /\ UNCHANGED <<netplan, hosts, file, hostsFile, form, sent>>
    BY <1>2 DEF handleSetupInterface
  <2>2. \/ worker = <<Match(1, Sent(1)), SecondCall, HostsCall, ApplyCall>>
        \/ netplan[1] = Sent(1) /\ worker = <<Match(2, Sent(2)), HostsCall, ApplyCall>>
    BY <1>1, <2>1, NextInDocument DEF InDocument
  <2>3. CASE worker = <<Match(1, Sent(1)), SecondCall, HostsCall, ApplyCall>>
    <3>1. Matched(Head(worker)) = Assign(1, Sent(1), netplan[1])
      BY <2>3, Tuples DEF Matched, Match, Assign
    <3>2. worker' = <<Assign(1, Sent(1), netplan[1]), SecondCall, HostsCall, ApplyCall>>
      <4>1. Tail(worker) = <<SecondCall, HostsCall, ApplyCall>>
        BY <2>3, Tuples
      <4>2. worker' = <<Assign(1, Sent(1), netplan[1])>> \o <<SecondCall, HostsCall, ApplyCall>>
        BY <2>1, <3>1, <4>1
      <4>3. <<Assign(1, Sent(1), netplan[1])>> \o <<SecondCall, HostsCall, ApplyCall>> = <<Assign(1, Sent(1), netplan[1]), SecondCall, HostsCall, ApplyCall>>
        BY PrependedToThree, Zenon
      <4> QED
        BY <4>2, <4>3, Zenon
    <3>3. SetsTexts'
      BY <1>0, <2>1, <3>2 DEF SetsTexts, Sent, SecondCall, HostsCall, ApplyCall, Match, Assign
    <3> QED
      BY <1>1, <2>1, <3>3 DEF InDocument
  <2>4. CASE netplan[1] = Sent(1) /\ worker = <<Match(2, Sent(2)), HostsCall, ApplyCall>>
    <3>1. Matched(Head(worker)) = Assign(2, Sent(2), netplan[2])
      BY <2>4, Tuples DEF Matched, Match, Assign
    <3>2. worker' = <<Assign(2, Sent(2), netplan[2]), HostsCall, ApplyCall>>
      <4>1. Tail(worker) = <<HostsCall, ApplyCall>>
        BY <2>4, Tuples
      <4>2. worker' = <<Assign(2, Sent(2), netplan[2])>> \o <<HostsCall, ApplyCall>>
        BY <2>1, <3>1, <4>1
      <4>3. <<Assign(2, Sent(2), netplan[2])>> \o <<HostsCall, ApplyCall>> = <<Assign(2, Sent(2), netplan[2]), HostsCall, ApplyCall>>
        BY PrependedToTwo, Zenon
      <4> QED
        BY <4>2, <4>3, Zenon
    <3>3. SetsTexts'
      BY <1>0, <2>1, <2>4, <3>2 DEF SetsTexts, Sent, HostsCall, ApplyCall, Assign
    <3> QED
      BY <1>1, <2>1, <3>3 DEF InDocument
  <2> QED
    BY <2>2, <2>3, <2>4
<1>3. CASE WorkerAssigns
  <2>1. /\ At(worker, "assign") /\ ~disturbed /\ worker' = Tail(worker)
        /\ netplan' = [netplan EXCEPT ![Head(worker).n] = Head(worker).vlan]
        /\ UNCHANGED <<hosts, file, hostsFile, form, sent>>
    BY <1>3 DEF WorkerAssigns, SetNetplan
  <2>2. \/ \E old \in Names :
             worker = <<Assign(1, Sent(1), old), SecondCall, HostsCall, ApplyCall>>
        \/ /\ netplan[1] = Sent(1)
           /\ \E old \in Names : worker = <<Assign(2, Sent(2), old), HostsCall, ApplyCall>>
    BY <1>1, <2>1, NextInDocument DEF InDocument
  <2>3. ASSUME NEW old \in Names,
               worker = <<Assign(1, Sent(1), old), SecondCall, HostsCall, ApplyCall>>
        PROVE  SetsTexts'
    <3>1. Head(worker) = Assign(1, Sent(1), old)
          /\ worker' = <<SecondCall, HostsCall, ApplyCall>>
      BY <2>1, <2>3, Tuples
    <3>2. netplan'[1] = Sent(1)
      BY <1>0, <2>1, <3>1 DEF Assign
    <3> QED
      BY <2>1, <3>1, <3>2 DEF SetsTexts, Sent, SecondCall, HostsCall, ApplyCall, Match
  <2>4. ASSUME netplan[1] = Sent(1), NEW old \in Names,
               worker = <<Assign(2, Sent(2), old), HostsCall, ApplyCall>>
        PROVE  SetsTexts'
    <3>1. Head(worker) = Assign(2, Sent(2), old) /\ worker' = <<HostsCall, ApplyCall>>
      BY <2>1, <2>4, Tuples
    <3>2. netplan'[1] = Sent(1) /\ netplan'[2] = Sent(2)
      BY <1>0, <2>1, <2>4, <3>1 DEF Assign
    <3>3. netplan' = sent.vlans
      BY <1>0, <3>2, PairsEqual DEF Sent
    <3> QED
      BY <2>1, <3>1, <3>3 DEF SetsTexts, HostsCall, ApplyCall
  <2> QED
    BY <1>1, <2>1, <2>2, <2>3, <2>4 DEF InDocument
<1>4. CASE handleClearInterface
  <2>1. /\ At(worker, "clear") /\ ~disturbed /\ worker' = Tail(worker)
        /\ netplan' = [netplan EXCEPT ![Head(worker).n] = NoVlan]
        /\ UNCHANGED <<hosts, file, hostsFile, form, sent>>
    BY <1>4 DEF handleClearInterface, Clear
  <2>2. /\ netplan[1] = Sent(1) /\ Sent(2) = NoVlan /\ Head(worker).n = 2
        /\ worker = <<SecondCall, HostsCall, ApplyCall>>
    BY <1>1, <2>1, NextInDocument DEF InDocument
  <2>3. worker' = <<HostsCall, ApplyCall>>
    BY <2>1, <2>2, Tuples
  <2>4. netplan'[1] = Sent(1) /\ netplan'[2] = Sent(2)
    BY <1>0, <2>1, <2>2
  <2>5. netplan' = sent.vlans
    BY <1>0, <2>4, PairsEqual DEF Sent
  <2>6. SetsTexts'
    BY <2>1, <2>3, <2>5 DEF SetsTexts, HostsCall, ApplyCall
  <2> QED
    BY <1>1, <2>1, <2>6 DEF InDocument
<1>5. CASE handleSetupHosts
  <2>1. /\ At(worker, "hosts") /\ ~disturbed /\ worker' = Tail(worker)
        /\ hosts' = Head(worker).hosts /\ UNCHANGED <<netplan, file, hostsFile, form, sent>>
    BY <1>5 DEF handleSetupHosts
  <2>2. netplan = sent.vlans /\ worker = <<HostsCall, ApplyCall>>
    BY <1>1, <2>1, NextInDocument DEF InDocument
  <2>3. worker' = <<ApplyCall>> /\ hosts' = sent.hosts
    BY <2>1, <2>2, Tuples DEF HostsCall
  <2>4. SetsTexts'
    BY <2>1, <2>2, <2>3 DEF SetsTexts, TextsAsSent, ApplyCall
  <2> QED
    BY <1>1, <2>1, <2>4 DEF InDocument
<1>6. CASE handleApplyNetplan
  <2>1. /\ At(worker, "apply") /\ ~disturbed /\ worker' = ApplySteps \o Tail(worker)
        /\ UNCHANGED <<netplan, hosts, file, hostsFile, form, sent>>
    BY <1>6 DEF handleApplyNetplan
  <2>2. TextsAsSent /\ worker = <<ApplyCall>>
    BY <1>1, <2>1, NextInDocument DEF InDocument
  <2>3. worker' = <<Open(1), Open(2), OpenHostsDo, ExecuteDo>>
    BY <2>1, <2>2, Tuples DEF ApplySteps, Open, OpenHostsDo, ExecuteDo
  <2>4. SavesFiles'
    BY <2>1, <2>2, <2>3 DEF SavesFiles, TextsAsSent, Open, OpenHostsDo, ExecuteDo
  <2> QED
    BY <1>1, <2>1, <2>4 DEF InDocument
<1>7. CASE OpenFile
  <2>1. /\ At(worker, "open") /\ ~disturbed
        /\ worker' = <<Write(Head(worker).n)>> \o Tail(worker)
        /\ file' = [file EXCEPT ![Head(worker).n] = NoVlan]
        /\ UNCHANGED <<netplan, hosts, hostsFile, form, sent>>
    BY <1>7 DEF OpenFile, Write
  <2>2. /\ TextsAsSent
        /\ \/ worker = <<Open(1), Open(2), OpenHostsDo, ExecuteDo>>
           \/ file[1] = Sent(1) /\ worker = <<Open(2), OpenHostsDo, ExecuteDo>>
    BY <1>1, <2>1, NextInDocument DEF InDocument
  <2>3. CASE worker = <<Open(1), Open(2), OpenHostsDo, ExecuteDo>>
    <3>1. Head(worker).n = 1
      BY <2>3, Tuples DEF Open
    <3>2. worker' = <<Write(1), Open(2), OpenHostsDo, ExecuteDo>>
      <4>1. Tail(worker) = <<Open(2), OpenHostsDo, ExecuteDo>>
        BY <2>3, Tuples
      <4>2. worker' = <<Write(1)>> \o <<Open(2), OpenHostsDo, ExecuteDo>>
        BY <2>1, <3>1, <4>1
      <4>3. <<Write(1)>> \o <<Open(2), OpenHostsDo, ExecuteDo>> = <<Write(1), Open(2), OpenHostsDo, ExecuteDo>>
        BY PrependedToThree, Zenon
      <4> QED
        BY <4>2, <4>3, Zenon
    <3>3. SavesFiles'
      BY <2>1, <2>2, <3>2 DEF SavesFiles, TextsAsSent, Open, Write, OpenHostsDo, ExecuteDo
    <3> QED
      BY <1>1, <2>1, <3>3 DEF InDocument
  <2>4. CASE file[1] = Sent(1) /\ worker = <<Open(2), OpenHostsDo, ExecuteDo>>
    <3>1. Head(worker).n = 2
      BY <2>4, Tuples DEF Open
    <3>2. worker' = <<Write(2), OpenHostsDo, ExecuteDo>>
      <4>1. Tail(worker) = <<OpenHostsDo, ExecuteDo>>
        BY <2>4, Tuples
      <4>2. worker' = <<Write(2)>> \o <<OpenHostsDo, ExecuteDo>>
        BY <2>1, <3>1, <4>1
      <4>3. <<Write(2)>> \o <<OpenHostsDo, ExecuteDo>> = <<Write(2), OpenHostsDo, ExecuteDo>>
        BY PrependedToTwo, Zenon
      <4> QED
        BY <4>2, <4>3, Zenon
    <3>3. file'[1] = Sent(1)
      BY <2>1, <2>4, <3>1, <1>0 DEF TypeOK
    <3>4. SavesFiles'
      BY <2>1, <2>2, <3>2, <3>3
      DEF SavesFiles, TextsAsSent, Sent, Open, Write, OpenHostsDo, ExecuteDo
    <3> QED
      BY <1>1, <2>1, <3>4 DEF InDocument
  <2> QED
    BY <2>2, <2>3, <2>4
<1>8. CASE WriteFile
  <2>1. /\ At(worker, "write") /\ ~disturbed /\ worker' = Tail(worker)
        /\ file' = [file EXCEPT ![Head(worker).n] = netplan[Head(worker).n]]
        /\ UNCHANGED <<netplan, hosts, hostsFile, form, sent>>
    BY <1>8 DEF WriteFile
  <2>2. /\ TextsAsSent
        /\ \/ worker = <<Write(1), Open(2), OpenHostsDo, ExecuteDo>>
           \/ file[1] = Sent(1) /\ worker = <<Write(2), OpenHostsDo, ExecuteDo>>
    BY <1>1, <2>1, NextInDocument DEF InDocument
  <2>3. CASE worker = <<Write(1), Open(2), OpenHostsDo, ExecuteDo>>
    <3>1. Head(worker).n = 1 /\ worker' = <<Open(2), OpenHostsDo, ExecuteDo>>
      BY <2>1, <2>3, Tuples DEF Write
    <3>2. file'[1] = Sent(1)
      BY <2>1, <2>2, <3>1, <1>0 DEF TypeOK, TextsAsSent, Sent
    <3>3. SavesFiles'
      BY <2>1, <2>2, <3>1, <3>2
      DEF SavesFiles, TextsAsSent, Sent, Open, OpenHostsDo, ExecuteDo
    <3> QED
      BY <1>1, <2>1, <3>3 DEF InDocument
  <2>4. CASE file[1] = Sent(1) /\ worker = <<Write(2), OpenHostsDo, ExecuteDo>>
    <3>1. Head(worker).n = 2 /\ worker' = <<OpenHostsDo, ExecuteDo>>
      BY <2>1, <2>4, Tuples DEF Write
    <3>2. file'[1] = Sent(1) /\ file'[2] = Sent(2)
      BY <2>1, <2>2, <2>4, <3>1, <1>0 DEF TypeOK, TextsAsSent, Sent
    <3>3. file' = sent.vlans
      BY <1>0, <3>2, PairsEqual DEF Sent
    <3>4. SavesFiles'
      BY <2>1, <2>2, <3>1, <3>3 DEF SavesFiles, TextsAsSent, OpenHostsDo, ExecuteDo
    <3> QED
      BY <1>1, <2>1, <3>4 DEF InDocument
  <2> QED
    BY <2>2, <2>3, <2>4
<1>9. CASE OpenHosts
  <2> DEFINE text == WithBlock(hostsFile, hosts)
  <2>1. /\ At(worker, "openHosts") /\ ~disturbed
        /\ worker' = <<[do |-> "writeHosts", text |-> text]>> \o Tail(worker)
        /\ UNCHANGED <<netplan, hosts, file, form, sent>>
    BY <1>9 DEF OpenHosts
  <2>2. TextsAsSent /\ file = sent.vlans /\ worker = <<OpenHostsDo, ExecuteDo>>
    BY <1>1, <2>1, NextInDocument DEF InDocument
  <2>3. text \in HostFiles /\ text.blocks = <<sent.hosts>>
    <3>1. text \in HostFiles
      BY <1>0, HostFileTypes
    <3>2. text.blocks = <<hosts>>
      BY <1>0 DEF WithBlock, HostFiles
    <3> QED
      BY <2>2, <3>1, <3>2 DEF TextsAsSent
  <2> HIDE DEF text
  <2>4. worker' = <<[do |-> "writeHosts", text |-> text], ExecuteDo>>
    <3>1. Tail(worker) = <<ExecuteDo>>
      BY <2>2, Tuples
    <3>2. worker' = <<[do |-> "writeHosts", text |-> text]>> \o <<ExecuteDo>>
      BY <2>1, <3>1
    <3>3. <<[do |-> "writeHosts", text |-> text]>> \o <<ExecuteDo>> = <<[do |-> "writeHosts", text |-> text], ExecuteDo>>
      BY PrependedToOne, Zenon
    <3> QED
      BY <3>2, <3>3, Zenon
  <2>5. SavesFiles'
    BY <2>1, <2>2, <2>3, <2>4 DEF SavesFiles, TextsAsSent, ExecuteDo
  <2> QED
    BY <1>1, <2>1, <2>5 DEF InDocument
<1>10. CASE WriteHosts
  <2>1. /\ At(worker, "writeHosts") /\ ~disturbed /\ worker' = Tail(worker)
        /\ hostsFile' = Head(worker).text /\ UNCHANGED <<file, form, sent>>
    BY <1>10 DEF WriteHosts
  <2>2. /\ file = sent.vlans
        /\ \E text \in HostFiles :
             /\ text.blocks = <<sent.hosts>>
             /\ worker = <<[do |-> "writeHosts", text |-> text], ExecuteDo>>
    BY <1>1, <2>1, NextInDocument DEF InDocument
  <2>3. worker' = <<ExecuteDo>> /\ hostsFile'.blocks = <<sent.hosts>>
    BY <2>1, <2>2, Tuples
  <2>4. Executes'
    BY <2>1, <2>2, <2>3 DEF Executes, ExecuteDo
  <2> QED
    BY <1>1, <2>1, <2>4 DEF InDocument
<1>11. CASE execute
  <2>1. /\ At(worker, "execute") /\ ~disturbed /\ worker' = Tail(worker) /\ form' = form
    BY <1>11 DEF execute
  <2>2. worker = <<ExecuteDo>>
    BY <1>1, <2>1, NextInDocument DEF InDocument
  <2> QED
    BY <1>1, <2>1, <2>2, Tuples
<1>12. CASE ReceiveDocument
  <2>1. form' = <<>> /\ form = <<>>
    BY <1>12 DEF ReceiveDocument
  <2>2. PICK v \in Vlans, w \in Names, l \in HostLists :
          /\ worker' = << [do |-> "match", n |-> 1, vlan |-> v],
                          IF w = NoVlan THEN [do |-> "clear", n |-> 2]
                          ELSE [do |-> "match", n |-> 2, vlan |-> w],
                          [do |-> "hosts", hosts |-> l], [do |-> "apply"] >>
          /\ sent' = [vlans |-> <<v, w>>, hosts |-> l]
    BY <1>12 DEF ReceiveDocument
  <2>3. /\ sent'.vlans[1] = v /\ sent'.vlans[2] = w /\ sent'.hosts = l
    BY <2>2
  <2>4. SetsTexts'
    BY <2>2, <2>3 DEF SetsTexts, Sent, SecondCall, HostsCall, ApplyCall, Match
  <2> QED
    BY <2>1, <2>4 DEF InDocument
<1>13. CASE Restart
  BY <1>13 DEF Restart
\* The form does nothing: it has nothing to do, and accepting disturbs.
<1>14. CASE FormMatches \/ FormAssigns \/ FormSetsHosts \/ FormEmits
  BY <1>14 DEF FormMatches, FormAssigns, FormSetsHosts, FormEmits, At, DocumentInv
<1>15. CASE UNCHANGED vars
  BY <1>15 DEF vars, DocumentInv, InDocument, SetsTexts, SavesFiles, Executes, TextsAsSent,
       Sent, SecondCall, HostsCall, ApplyCall, Open, Write, OpenHostsDo, ExecuteDo, Match,
       Assign
<1> QED
  BY <1>2, <1>3, <1>4, <1>5, <1>6, <1>7, <1>8, <1>9, <1>10, <1>11, <1>12, <1>13, <1>14,
     <1>15 DEF Next, applyNetplanSlot, on_pbAccept_clicked

\* What execute reports as applied is the document: the two files name the VLANs it
\* asks for, the hosts file has its block as the only one and, unless a kill emptied
\* it, still the lines of others, if neither the form nor a file that cannot be
\* opened cut in since the document came.
THEOREM DocumentsAreApplied == Spec => AppliedAsSent
<1> DEFINE Applied == execute /\ ~disturbed =>
                        /\ file' = sent.vlans
                        /\ hostsFile'.blocks = <<sent.hosts>>
                        /\ restarts = 0 => hostsFile'.own
<1>1. Init => OwnLines /\ DocumentInv
  BY DEF Init, OwnLines, WritesOwn, DocumentInv
<1>2. TypeOK /\ TypeOK' /\ OwnLines /\ DocumentInv /\ [Next]_vars
        => (OwnLines /\ DocumentInv)'
  BY OwnLinesStep, DocumentStep
<1>3. OwnLines /\ DocumentInv /\ TypeOK => Applied
  <2> SUFFICES ASSUME OwnLines, DocumentInv, TypeOK, execute, ~disturbed
               PROVE  /\ file' = sent.vlans
                      /\ hostsFile'.blocks = <<sent.hosts>>
                      /\ restarts = 0 => hostsFile'.own
    OBVIOUS
  <2>1. worker # <<>> /\ Head(worker).do = "execute" /\ UNCHANGED <<file, hostsFile>>
    BY DEF execute, At
  <2>2. SetsTexts \/ SavesFiles \/ Executes
    BY <2>1 DEF DocumentInv
  <2>3. file = sent.vlans /\ hostsFile.blocks = <<sent.hosts>>
    BY <2>1, <2>2, NextInDocument
  <2>4. restarts = 0 => hostsFile.own
    BY <2>1 DEF OwnLines, At
  <2> QED
    BY <2>1, <2>3, <2>4
<1> HIDE DEF Applied
<1>4. Spec => [](OwnLines /\ DocumentInv)
  BY <1>1, <1>2, TypeCorrect, PTL DEF Spec
<1>5. Spec => [][Applied]_vars
  BY <1>3, <1>4, TypeCorrect, PTL
<1> QED
  BY <1>5, PTL DEF Applied, AppliedAsSent
=============================================================================
