------------------------ MODULE ForkPerClientProofs ------------------------
(* Theorems about ForkPerClient, for every set of clients, limit and       *)
(* number of starts.                                                       *)
EXTENDS ForkPerClient, FiniteSetTheorems, TLAPS

IndInv == TypeOK /\ TokenInv /\ TokensAddUp

(* Only clients hold tokens, so the holders can be counted.                *)
LEMMA HoldersFinite == IsFiniteSet(Holders) /\ Cardinality(Holders) \in Nat
<1>1. Holders \subseteq Clients BY DEF Holders
<1> QED BY <1>1, ConstantsAssumption, FS_Subset, FS_CardinalityType

(* The initial values have the types of the variables.                     *)
LEMMA TypeInit == Init => TypeOK
<1> SUFFICES ASSUME Init PROVE TypeOK OBVIOUS
<1>1. semid \in Nat /\ semval \in Nat /\ starts \in Nat BY DEF Init, NoSem
<1>2. id \in [Clients -> Nat] BY DEF Init, NoSem
<1>3. up \in BOOLEAN BY Zenon DEF Init
<1>4. /\ pc \in [Clients -> {"idle"}] /\ conn \in [Clients -> {"none"}]
      /\ msg \in [Clients -> {"none"}] /\ echo \in [Clients -> {"none"}]
  BY DEF Init
<1> QED BY <1>1, <1>2, <1>3, <1>4 DEF TypeOK

(* Every step of the server and of the clients keeps the types.            *)
LEMMA TypeNext == TypeOK /\ [Next]_vars => TypeOK'
<1> SUFFICES ASSUME TypeOK, [Next]_vars PROVE TypeOK' OBVIOUS
<1> USE DEF TypeOK, server
<1>1. CASE StartServer
  <2>1. semid' \in Nat /\ semval' \in Nat /\ starts' \in Nat
    BY <1>1, ConstantsAssumption DEF StartServer, Tokens
  <2>2. up' \in BOOLEAN BY <1>1 DEF StartServer
  <2>3. UNCHANGED <<pc, id, conn, msg, echo>> BY <1>1 DEF StartServer
  <2> QED BY <2>1, <2>2, <2>3
<1>2. CASE Interrupt BY <1>2 DEF Interrupt, NoSem
<1>3. CASE Crash BY <1>3 DEF Crash
<1>4. ASSUME NEW c \in Clients, Accept(c) PROVE TypeOK' BY <1>4 DEF Accept
<1>5. ASSUME NEW c \in Clients, Echo(c) PROVE TypeOK' BY <1>5 DEF Echo
<1>6. ASSUME NEW c \in Clients, Semget(c) PROVE TypeOK' BY <1>6 DEF Semget
<1>7. ASSUME NEW c \in Clients, Connect(c) PROVE TypeOK' BY <1>7 DEF Connect
<1>8. ASSUME NEW c \in Clients, SemopDown(c) PROVE TypeOK' BY <1>8 DEF SemopDown
<1>9. ASSUME NEW c \in Clients, SemopFails(c) PROVE TypeOK' BY <1>9 DEF SemopFails
<1>10. ASSUME NEW c \in Clients, Read(c) PROVE TypeOK' BY <1>10 DEF Read
<1>11. ASSUME NEW c \in Clients, SemopUp(c) PROVE TypeOK' BY <1>11 DEF SemopUp
<1>12. ASSUME NEW c \in Clients, Lost(c) PROVE TypeOK' BY <1>12 DEF Lost
<1>13. ASSUME NEW c \in Clients, Kill(c) PROVE TypeOK' BY <1>13 DEF Kill
<1>14. ASSUME NEW c \in Clients, NEW line \in Lines, Say(c, line) PROVE TypeOK'
  BY <1>14, ConstantsAssumption DEF Say
<1>15. CASE UNCHANGED vars BY <1>15 DEF vars
<1> QED
  BY <1>1, <1>2, <1>3, <1>4, <1>5, <1>6, <1>7, <1>8, <1>9, <1>10, <1>11, <1>12,
     <1>13, <1>14, <1>15 DEF Next, ClientStep

(* Every variable keeps its type. *)
THEOREM TypeCorrect == Spec => []TypeOK
BY TypeInit, TypeNext, PTL DEF Spec
-----------------------------------------------------------------------------
(* Before the first start there are no tokens.                             *)
LEMMA TokenInit == Init => TokenInv /\ TokensAddUp
BY DEF Init, TokenInv, TokensAddUp, InSession, NoSem

(* semop() succeeds only on the semaphore that exists, and Ctrl-C closes   *)
(* every connection when it removes it.                                    *)
LEMMA TokenNext == TypeOK /\ TypeOK' /\ TokenInv /\ [Next]_vars => TokenInv'
<1> SUFFICES ASSUME TypeOK, TypeOK', TokenInv, [Next]_vars PROVE TokenInv' OBVIOUS
<1> USE DEF TypeOK, TokenInv, InSession, server
<1>1. CASE StartServer BY <1>1 DEF StartServer, NoSem
<1>2. CASE Interrupt BY <1>2 DEF Interrupt, NoSem
<1>3. CASE Crash BY <1>3 DEF Crash
<1>4. ASSUME NEW c \in Clients, Accept(c) PROVE TokenInv' BY <1>4 DEF Accept
<1>5. ASSUME NEW c \in Clients, Echo(c) PROVE TokenInv' BY <1>5 DEF Echo
<1>6. ASSUME NEW c \in Clients, Semget(c) PROVE TokenInv' BY <1>6 DEF Semget
<1>7. ASSUME NEW c \in Clients, Connect(c) PROVE TokenInv' BY <1>7 DEF Connect
<1>8. ASSUME NEW c \in Clients, SemopDown(c) PROVE TokenInv'
  BY <1>8 DEF SemopDown, Usable
<1>9. ASSUME NEW c \in Clients, SemopFails(c) PROVE TokenInv' BY <1>9 DEF SemopFails
<1>10. ASSUME NEW c \in Clients, Read(c) PROVE TokenInv' BY <1>10 DEF Read
<1>11. ASSUME NEW c \in Clients, SemopUp(c) PROVE TokenInv'
  BY <1>11 DEF SemopUp, Usable
<1>12. ASSUME NEW c \in Clients, Lost(c) PROVE TokenInv' BY <1>12 DEF Lost
<1>13. ASSUME NEW c \in Clients, Kill(c) PROVE TokenInv' BY <1>13 DEF Kill
<1>14. ASSUME NEW c \in Clients, NEW line \in Lines, Say(c, line) PROVE TokenInv'
  BY <1>14 DEF Say
<1>15. CASE UNCHANGED vars BY <1>15 DEF vars
<1> QED
  BY <1>1, <1>2, <1>3, <1>4, <1>5, <1>6, <1>7, <1>8, <1>9, <1>10, <1>11, <1>12,
     <1>13, <1>14, <1>15 DEF Next, ClientStep
-----------------------------------------------------------------------------
(* One start more allows MAX_CLIENTS tokens more.                          *)
LEMMA BudgetGrows ==
    ASSUME NEW m \in Nat, NEW n \in Int
    PROVE  m * (n + 1) = m * n + m
OBVIOUS

(* A step that leaves the semaphore alone and gives nobody a session keeps *)
(* the sum.                                                                *)
LEMMA NoTokenTaken ==
    ASSUME TypeOK, TokensAddUp, UNCHANGED <<semid, semval, starts>>,
           Holders' \subseteq Holders
    PROVE  TokensAddUp'
<1>1. /\ Cardinality(Holders') <= Cardinality(Holders)
      /\ Cardinality(Holders) \in Nat /\ Cardinality(Holders') \in Nat
  BY HoldersFinite, FS_Subset, FS_CardinalityType
<1>2. MAX_CLIENTS * (starts - semid + 1) \in Int
  BY ConstantsAssumption DEF TypeOK
<1> QED BY <1>1, <1>2 DEF TokensAddUp, TypeOK

(* A semop() moves a token between the semaphore and one client; a start   *)
(* adds MAX_CLIENTS to both sides; nothing else adds tokens.               *)
LEMMA TokensNext ==
    TypeOK /\ TypeOK' /\ TokenInv /\ TokensAddUp /\ [Next]_vars => TokensAddUp'
<1> SUFFICES ASSUME TypeOK, TypeOK', TokenInv, TokensAddUp, [Next]_vars
             PROVE  TokensAddUp'
  OBVIOUS
<1> DEFINE Budget == MAX_CLIENTS * (starts - semid + 1)
<1>b. Budget \in Int BY ConstantsAssumption DEF TypeOK
<1>h. IsFiniteSet(Holders) /\ Cardinality(Holders) \in Nat BY HoldersFinite
<1>1. CASE StartServer
  <2>1. /\ starts' = starts + 1 /\ semval' = semval + MAX_CLIENTS
        /\ semid' = IF semid = NoSem THEN starts + 1 ELSE semid
        /\ UNCHANGED <<pc, id>>
    BY <1>1 DEF StartServer, Tokens
  <2>2. CASE semid = NoSem
    <3>1. Holders' = {}
      BY <2>1, <2>2 DEF TypeOK, TokenInv, Holders, InSession
    <3>2. Cardinality(Holders') = 0 BY <3>1, FS_EmptySet
    <3>3. semval' = MAX_CLIENTS
      BY <2>1, <2>2, ConstantsAssumption DEF TypeOK, TokenInv
    <3>4. starts' - semid' + 1 = 1 BY <2>1, <2>2 DEF TypeOK
    <3> QED BY <3>2, <3>3, <3>4, ConstantsAssumption DEF TokensAddUp
  <2>3. CASE semid # NoSem
    <3>1. Holders' = Holders BY <2>1, <2>3 DEF Holders, InSession
    <3>2. starts' - semid' + 1 = (starts - semid + 1) + 1
      BY <2>1, <2>3 DEF TypeOK
    <3>3. MAX_CLIENTS * (starts' - semid' + 1) = Budget + MAX_CLIENTS
      <4>1. starts - semid + 1 \in Int BY DEF TypeOK
      <4> QED BY <3>2, <4>1, BudgetGrows, ConstantsAssumption
    <3>4. semval + Cardinality(Holders) <= Budget BY <2>3 DEF TokensAddUp
    <3> HIDE DEF Budget
    <3>5. semval' + Cardinality(Holders) <= Budget + MAX_CLIENTS
      BY <2>1, <3>4, <1>b, <1>h, ConstantsAssumption DEF TypeOK
    <3> QED BY <3>1, <3>3, <3>5 DEF TokensAddUp
  <2> QED BY <2>2, <2>3
<1>2. CASE Interrupt BY <1>2 DEF Interrupt, TokensAddUp
<1>3. CASE Crash BY <1>3, NoTokenTaken DEF Crash, Holders, InSession
<1>4. ASSUME NEW c \in Clients, Accept(c) PROVE TokensAddUp'
  BY <1>4, NoTokenTaken DEF Accept, Holders, InSession, server
<1>5. ASSUME NEW c \in Clients, Echo(c) PROVE TokensAddUp'
  BY <1>5, NoTokenTaken DEF Echo, Holders, InSession, server
<1>6. ASSUME NEW c \in Clients, Semget(c) PROVE TokensAddUp'
  BY <1>6, NoTokenTaken DEF Semget, Holders, InSession, server, TypeOK
<1>7. ASSUME NEW c \in Clients, Connect(c) PROVE TokensAddUp'
  BY <1>7, NoTokenTaken DEF Connect, Holders, InSession, server, TypeOK
<1>8. ASSUME NEW c \in Clients, SemopDown(c) PROVE TokensAddUp'
  <2>1. /\ semval' = semval - 1 /\ UNCHANGED <<semid, starts>>
        /\ semid # NoSem
    BY <1>8 DEF SemopDown, Usable, server
  <2>2. Holders' = Holders \cup {c} /\ c \notin Holders
    BY <1>8 DEF SemopDown, Usable, Holders, InSession, TypeOK, server
  <2>3. Cardinality(Holders') = Cardinality(Holders) + 1
    BY <2>2, <1>h, FS_AddElement
  <2> QED BY <2>1, <2>3, <1>h, <1>b DEF TokensAddUp, TypeOK
<1>9. ASSUME NEW c \in Clients, SemopFails(c) PROVE TokensAddUp'
  BY <1>9, NoTokenTaken DEF SemopFails, Holders, InSession, server, TypeOK
<1>10. ASSUME NEW c \in Clients, Read(c) PROVE TokensAddUp'
  BY <1>10, NoTokenTaken DEF Read, Holders, InSession, server, TypeOK
<1>11. ASSUME NEW c \in Clients, SemopUp(c) PROVE TokensAddUp'
  <2>1. CASE Usable(c)
    <3>1. /\ semval' = semval + 1 /\ UNCHANGED <<semid, starts>>
          /\ semid # NoSem
      BY <1>11, <2>1 DEF SemopUp, Usable, server
    <3>2. Holders' = Holders \ {c} /\ c \in Holders
      BY <1>11, <2>1 DEF SemopUp, Usable, Holders, InSession, TypeOK, server
    <3>3. Cardinality(Holders') = Cardinality(Holders) - 1
      BY <3>2, <1>h, FS_RemoveElement
    <3> QED BY <3>1, <3>3, <1>h, <1>b DEF TokensAddUp, TypeOK
  <2>2. CASE ~Usable(c)
    BY <1>11, <2>2, NoTokenTaken DEF SemopUp, Holders, InSession, server, TypeOK
  <2> QED BY <2>1, <2>2
<1>12. ASSUME NEW c \in Clients, Lost(c) PROVE TokensAddUp'
  BY <1>12, NoTokenTaken DEF Lost, Holders, InSession, server, TypeOK
<1>13. ASSUME NEW c \in Clients, Kill(c) PROVE TokensAddUp'
  BY <1>13, NoTokenTaken DEF Kill, Holders, InSession, server, TypeOK
<1>14. ASSUME NEW c \in Clients, NEW line \in Lines, Say(c, line)
       PROVE  TokensAddUp'
  BY <1>14, NoTokenTaken DEF Say, Holders, InSession, server, TypeOK
<1>15. CASE UNCHANGED vars
  BY <1>15, NoTokenTaken DEF vars, server, Holders, InSession
<1> QED
  BY <1>1, <1>2, <1>3, <1>4, <1>5, <1>6, <1>7, <1>8, <1>9, <1>10, <1>11, <1>12,
     <1>13, <1>14, <1>15 DEF Next, ClientStep

(* The inductive invariant holds in every state of the system.             *)
LEMMA Invariance == Spec => []IndInv
<1>1. Init => IndInv BY TypeInit, TokenInit DEF IndInv
<1>2. IndInv /\ [Next]_vars => IndInv'
  BY TypeNext, TokenNext, TokensNext DEF IndInv
<1> QED BY <1>1, <1>2, PTL DEF Spec

(* The tokens in the semaphore and in the hands of clients never exceed    *)
(* MAX_CLIENTS for each start since the semaphore was created: the         *)
(* semop(-1) and semop(+1) of client.c pair up, whatever is killed when.   *)
THEOREM TokensNeverMultiply == Spec => []TokensAddUp
<1>1. IndInv => TokensAddUp BY DEF IndInv
<1> QED BY <1>1, Invariance, PTL

(* No child serves a client on the strength of a token of a semaphore that *)
(* Ctrl-C has removed.                                                     *)
THEOREM ServedByToken == Spec => []ServedByCurrentToken
<1>1. IndInv => ServedByCurrentToken
  BY DEF IndInv, TokenInv, TypeOK, ServedByCurrentToken, Served, InSession
<1> QED BY <1>1, Invariance, PTL

(* The limit of README.md, as long as the server is started only after     *)
(* Ctrl-C ended the previous one.                                          *)
THEOREM LimitKept == ASSUME CleanStarts PROVE Spec => []AtMostMaxClients
<1>1. IndInv => AtMostMaxClients
  <2> SUFFICES ASSUME IndInv PROVE AtMostMaxClients OBVIOUS
  <2>h. IsFiniteSet(Holders) /\ Cardinality(Holders) \in Nat BY HoldersFinite
  <2>1. Served \subseteq Holders
    BY DEF IndInv, TokenInv, TypeOK, Served, Holders, InSession
  <2>2. Cardinality(Served) <= Cardinality(Holders) /\ Cardinality(Served) \in Nat
    BY <2>1, <2>h, FS_Subset, FS_CardinalityType
  <2>3. CASE semid # NoSem
    <3>1. starts - semid + 1 = 1 BY <2>3 DEF IndInv, TokenInv, TypeOK
    <3>2. semval + Cardinality(Holders) <= MAX_CLIENTS
      BY <2>3, <3>1, ConstantsAssumption DEF IndInv, TokensAddUp
    <3> QED BY <3>2, <2>2, <2>h, ConstantsAssumption
            DEF IndInv, TypeOK, AtMostMaxClients
  <2>4. CASE semid = NoSem
    <3>1. Served = {}
      BY <2>4 DEF IndInv, TokenInv, TypeOK, Served, InSession
    <3> QED BY <3>1, FS_EmptySet, ConstantsAssumption DEF AtMostMaxClients
  <2> QED BY <2>3, <2>4
<1> QED BY <1>1, Invariance, PTL
=============================================================================
