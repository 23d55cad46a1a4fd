-------------------------- MODULE PgLogger_proofs --------------------------
(***************************************************************************)
(* The safety of the PostgreSQL logger, for any sensors and any tables.    *)
(* The argument: a session the server has is one the library knows to be   *)
(* good, so within one session every request of a call arrives; what is    *)
(* inserted is inserted in a transaction or not at all; and after a steady *)
(* call that stored nothing the connection is known to be bad, so that the *)
(* next call begins with a new session.                                    *)
(***************************************************************************)
EXTENDS PgLogger, TLAPS

\* A session is known to be good: the library never takes a live one for a bad one.
Known == session => db = "ok"

\* Nothing is left to send between calls, and nothing is stored before the commit.
Unsent == pc # "insert" => todo = {}
NothingYet == pc # "idle" => rows = {}

\* A transaction lives in a session and inside a call; with a session there is one
\* as long as inserts are sent, and it holds what was sent, or nothing.
Transaction ==
    /\ tx # "none" => session /\ pc = "insert"
    /\ pc = "insert" /\ session => tx # "none"
    /\ tx = "open" => pending = offered \ todo
    /\ tx = "aborted" => pending = {}

\* What the logger takes for prepared is prepared, except for want of a table.
Made == /\ session /\ ~spoilt => stmts \subseteq prepared
        /\ pc \in {"begin", "insert"} => Statement \in stmts

\* In a steady call everything is there, and no insert fails.
Steady == /\ steady => up /\ tables = Tables
          /\ pc = "insert" /\ steady /\ session /\ ~spoilt => tx = "open"

\* After a loss the connection is known to be bad or closed, and the next steady call
\* has a session from db_status on.
AfterLoss ==
    lost = 1 => IF pc \in {"idle", "status"} THEN db # "ok" ELSE steady => session

IInv == /\ TypeOK /\ AllOrNothing /\ LossBounded
        /\ Known /\ Unsent /\ NothingYet /\ Transaction /\ Made /\ Steady /\ AfterLoss
-----------------------------------------------------------------------------
\* The first state: no connection, no call.
LEMMA Beginning ==
    Init => IInv
<1> SUFFICES ASSUME Init PROVE IInv
    OBVIOUS
<1> USE DEF Init
<1>1. TypeOK
    <2>1. up \in BOOLEAN /\ session \in BOOLEAN
        OBVIOUS
    <2>2. steady \in BOOLEAN /\ spoilt \in BOOLEAN
        OBVIOUS
    <2>3. (session => up) /\ (db = "null" => stmts = {} /\ ~session)
        OBVIOUS
    <2>4. tables \subseteq Tables /\ prepared \subseteq {Insrt, Insrl} /\ stmts \subseteq {Insrt, Insrl}
        OBVIOUS
    <2>5. pending \subseteq Items /\ rows \subseteq Items /\ offered \subseteq Items /\ todo \subseteq offered
        OBVIOUS
    <2>6. /\ tx \in {"none", "open", "aborted"} /\ db \in {"null", "ok", "bad"}
         /\ pc \in {"idle", "status", "prepare", "begin", "insert"} /\ lost \in 0 .. 2
        OBVIOUS
    <2> QED BY <2>1, <2>2, <2>3, <2>4, <2>5, <2>6 DEF TypeOK
<1>2. AllOrNothing /\ LossBounded /\ AfterLoss
    BY DEF AllOrNothing, LossBounded, AfterLoss
<1>3. Known /\ Unsent /\ NothingYet /\ Transaction
    BY DEF Known, Unsent, NothingYet, Transaction
<1>4. Made /\ Steady
    BY DEF Made, Steady
<1> QED BY <1>1, <1>2, <1>3, <1>4 DEF IInv

\* A call begins: nothing of it is stored yet.
LEMMA Called ==
    ASSUME IInv, NEW items \in SUBSET Items, Call(items) PROVE IInv'
<1> USE DEF IInv, Call
<1>1. TypeOK'
    BY DEF TypeOK, Known, Unsent
<1>2. AllOrNothing'
    BY DEF TypeOK, AllOrNothing, NothingYet, Transaction
<1>3. LossBounded'
    BY DEF LossBounded, AfterLoss, TypeOK, Known, NothingYet, Transaction, Steady
<1>4. Known'
    BY DEF Known, TypeOK
<1>5. Unsent'
    BY DEF Unsent, TypeOK
<1>6. NothingYet'
    BY DEF NothingYet, Transaction, TypeOK
<1>7. Transaction'
    BY DEF Transaction, TypeOK, Known, Unsent
<1>8. Made'
    BY DEF Made, TypeOK, Known
<1>9. Steady'
    BY DEF Steady, TypeOK, Known, Transaction, Made
<1>10. AfterLoss'
    BY DEF AfterLoss, TypeOK, Known, NothingYet, Steady, Transaction, LossBounded
<1> QED BY <1>1, <1>2, <1>3, <1>4, <1>5, <1>6, <1>7, <1>8, <1>9, <1>10

\* db_status ends the call, or leaves a connection that is used.
LEMMA Looked ==
    ASSUME IInv, db_status PROVE IInv'
<1> USE DEF IInv, db_status, Connect, EndCall
<1>1. TypeOK'
    <2>1. up' \in BOOLEAN /\ session' \in BOOLEAN
        BY DEF TypeOK, Known, Unsent
    <2>2. steady' \in BOOLEAN /\ spoilt' \in BOOLEAN
        BY DEF TypeOK, Known, Unsent
    <2>3. (session' => up') /\ (db' = "null" => stmts' = {} /\ ~session')
        BY DEF TypeOK, Known, Unsent
    <2>4. tables' \subseteq Tables /\ prepared' \subseteq {Insrt, Insrl} /\ stmts' \subseteq {Insrt, Insrl}
        BY DEF TypeOK, Known, Unsent
    <2>5. pending' \subseteq Items /\ rows' \subseteq Items /\ offered' \subseteq Items /\ todo' \subseteq offered'
        BY DEF TypeOK, Known, Unsent
    <2>6. /\ tx' \in {"none", "open", "aborted"} /\ db' \in {"null", "ok", "bad"}
         /\ pc' \in {"idle", "status", "prepare", "begin", "insert"} /\ lost' \in 0 .. 2
        BY DEF TypeOK, Known, Unsent
    <2> QED BY <2>1, <2>2, <2>3, <2>4, <2>5, <2>6 DEF TypeOK
<1>2. AllOrNothing'
    BY DEF TypeOK, AllOrNothing, NothingYet, Transaction
<1>3. LossBounded'
    BY DEF LossBounded, AfterLoss, TypeOK, Known, NothingYet, Transaction, Steady
<1>4. Known'
    BY DEF Known, TypeOK
<1>5. Unsent'
    BY DEF Unsent, TypeOK
<1>6. NothingYet'
    BY DEF NothingYet, Transaction, TypeOK
<1>7. Transaction'
    BY DEF Transaction, TypeOK, Known, Unsent
<1>8. Made'
    BY DEF Made, TypeOK, Known
<1>9. Steady'
    BY DEF Steady, TypeOK, Known, Transaction, Made
<1>10. AfterLoss'
    BY DEF AfterLoss, TypeOK, Known, NothingYet, Steady, Transaction, LossBounded
<1> QED BY <1>1, <1>2, <1>3, <1>4, <1>5, <1>6, <1>7, <1>8, <1>9, <1>10

\* The statement is prepared, or the connection is known to be bad, or its table is missing.
LEMMA Prepared ==
    ASSUME IInv, Prepare PROVE IInv'
<1> USE DEF IInv, Prepare, Noticed, Reaches, Insrt, Insrl, Statement
<1>1. TypeOK'
    BY DEF TypeOK, Known, Unsent
<1>2. AllOrNothing'
    BY DEF TypeOK, AllOrNothing, NothingYet, Transaction
<1>3. LossBounded'
    BY DEF LossBounded, AfterLoss, TypeOK, Known, NothingYet, Transaction, Steady
<1>4. Known'
    BY DEF Known, TypeOK
<1>5. Unsent'
    BY DEF Unsent, TypeOK
<1>6. NothingYet'
    BY DEF NothingYet, Transaction, TypeOK
<1>7. Transaction'
    BY DEF Transaction, TypeOK, Known, Unsent
<1>8. Made'
    BY DEF Made, TypeOK, Known
<1>9. Steady'
    BY DEF Steady, TypeOK, Known, Transaction, Made
<1>10. AfterLoss'
    BY DEF AfterLoss, TypeOK, Known, NothingYet, Steady, Transaction, LossBounded
<1> QED BY <1>1, <1>2, <1>3, <1>4, <1>5, <1>6, <1>7, <1>8, <1>9, <1>10

\* With a session the transaction is open before the first insert.
LEMMA Begun ==
    ASSUME IInv, Begin PROVE IInv'
<1> USE DEF IInv, Begin, Noticed, Reaches, Statement, history
<1>1. TypeOK'
    BY DEF TypeOK, Known, Unsent
<1>2. AllOrNothing'
    BY DEF TypeOK, AllOrNothing, NothingYet, Transaction
<1>3. LossBounded'
    BY DEF LossBounded, AfterLoss, TypeOK, Known, NothingYet, Transaction, Steady
<1>4. Known'
    BY DEF Known, TypeOK
<1>5. Unsent'
    BY DEF Unsent, TypeOK
<1>6. NothingYet'
    BY DEF NothingYet, Transaction, TypeOK
<1>7. Transaction'
    BY DEF Transaction, TypeOK, Known, Unsent
<1>8. Made'
    BY DEF Made, TypeOK, Known
<1>9. Steady'
    BY DEF Steady, TypeOK, Known, Transaction, Made
<1>10. AfterLoss'
    BY DEF AfterLoss, TypeOK, Known, NothingYet, Steady, Transaction, LossBounded
<1> QED BY <1>1, <1>2, <1>3, <1>4, <1>5, <1>6, <1>7, <1>8, <1>9, <1>10

\* An insert is added to the transaction or aborts it.
LEMMA Inserted ==
    ASSUME IInv, NEW x \in Items, Insert(x) PROVE IInv'
<1> USE DEF IInv, Insert, Noticed, Reaches, Accepted, Statement, history
<1>1. TypeOK'
    BY DEF TypeOK, Known, Unsent
<1>2. AllOrNothing'
    BY DEF TypeOK, AllOrNothing, NothingYet, Transaction
<1>3. LossBounded'
    BY DEF LossBounded, AfterLoss, TypeOK, Known, NothingYet, Transaction, Steady
<1>4. Known'
    BY DEF Known, TypeOK
<1>5. Unsent'
    BY DEF Unsent, TypeOK
<1>6. NothingYet'
    BY DEF NothingYet, Transaction, TypeOK
<1>7. Transaction'
    BY DEF Transaction, TypeOK, Known, Unsent
<1>8. Made'
    BY DEF Made, TypeOK, Known
<1>9. Steady'
    BY DEF Steady, TypeOK, Known, Transaction, Made, Tables, NeedsPrepared
<1>10. AfterLoss'
    BY DEF AfterLoss, TypeOK, Known, NothingYet, Steady, Transaction, LossBounded
<1> QED BY <1>1, <1>2, <1>3, <1>4, <1>5, <1>6, <1>7, <1>8, <1>9, <1>10

\* The commit stores what was offered, or nothing.
LEMMA Committed ==
    ASSUME IInv, Commit PROVE IInv'
<1> USE DEF IInv, Commit, EndCall, Noticed, Reaches, Statement
<1>1. TypeOK'
    BY DEF TypeOK, Known, Unsent
<1>2. AllOrNothing'
    BY DEF TypeOK, AllOrNothing, NothingYet, Transaction
<1>3. LossBounded'
    BY DEF LossBounded, AfterLoss, TypeOK, Known, NothingYet, Transaction, Steady
<1>4. Known'
    BY DEF Known, TypeOK
<1>5. Unsent'
    BY DEF Unsent, TypeOK
<1>6. NothingYet'
    BY DEF NothingYet, Transaction, TypeOK
<1>7. Transaction'
    BY DEF Transaction, TypeOK, Known, Unsent
<1>8. Made'
    BY DEF Made, TypeOK, Known
<1>9. Steady'
    BY DEF Steady, TypeOK, Known, Transaction, Made
<1>10. AfterLoss'
    BY DEF AfterLoss, TypeOK, Known, NothingYet, Steady, Transaction, LossBounded
<1> QED BY <1>1, <1>2, <1>3, <1>4, <1>5, <1>6, <1>7, <1>8, <1>9, <1>10

\* A reload closes the connection between calls.
LEMMA CleanedUp ==
    ASSUME IInv, w1_cleanup PROVE IInv'
<1> USE DEF IInv, w1_cleanup, Statement
<1>1. TypeOK'
    BY DEF TypeOK, Known, Unsent
<1>2. AllOrNothing'
    BY DEF TypeOK, AllOrNothing, NothingYet, Transaction
<1>3. LossBounded'
    BY DEF LossBounded, AfterLoss, TypeOK, Known, NothingYet, Transaction, Steady
<1>4. Known'
    BY DEF Known, TypeOK
<1>5. Unsent'
    BY DEF Unsent, TypeOK
<1>6. NothingYet'
    BY DEF NothingYet, Transaction, TypeOK
<1>7. Transaction'
    BY DEF Transaction, TypeOK, Known, Unsent
<1>8. Made'
    BY DEF Made, TypeOK, Known
<1>9. Steady'
    BY DEF Steady, TypeOK, Known, Transaction, Made
<1>10. AfterLoss'
    BY DEF AfterLoss, TypeOK, Known, NothingYet, Steady, Transaction, LossBounded
<1> QED BY <1>1, <1>2, <1>3, <1>4, <1>5, <1>6, <1>7, <1>8, <1>9, <1>10

\* The server, the network and the tables.
LEMMA World ==
    ASSUME IInv, \/ Outage \/ Return \/ \E ts \in SUBSET Tables : Alter(ts) PROVE IInv'
<1> USE DEF IInv, Outage, Return, Alter, client, history, Statement
<1>1. TypeOK'
    <2>1. up' \in BOOLEAN /\ session' \in BOOLEAN
        BY DEF TypeOK, Known, Unsent
    <2>2. steady' \in BOOLEAN /\ spoilt' \in BOOLEAN
        BY DEF TypeOK, Known, Unsent
    <2>3. (session' => up') /\ (db' = "null" => stmts' = {} /\ ~session')
        BY DEF TypeOK, Known, Unsent
    <2>4. tables' \subseteq Tables /\ prepared' \subseteq {Insrt, Insrl} /\ stmts' \subseteq {Insrt, Insrl}
        BY DEF TypeOK, Known, Unsent
    <2>5. pending' \subseteq Items /\ rows' \subseteq Items /\ offered' \subseteq Items /\ todo' \subseteq offered'
        BY DEF TypeOK, Known, Unsent
    <2>6. /\ tx' \in {"none", "open", "aborted"} /\ db' \in {"null", "ok", "bad"}
         /\ pc' \in {"idle", "status", "prepare", "begin", "insert"} /\ lost' \in 0 .. 2
        BY DEF TypeOK, Known, Unsent
    <2> QED BY <2>1, <2>2, <2>3, <2>4, <2>5, <2>6 DEF TypeOK
<1>2. AllOrNothing'
    BY DEF TypeOK, AllOrNothing, NothingYet, Transaction
<1>3. LossBounded'
    BY DEF LossBounded, AfterLoss, TypeOK, Known, NothingYet, Transaction, Steady
<1>4. Known'
    BY DEF Known, TypeOK
<1>5. Unsent'
    BY DEF Unsent, TypeOK
<1>6. NothingYet'
    BY DEF NothingYet, Transaction, TypeOK
<1>7. Transaction'
    BY DEF Transaction, TypeOK, Known, Unsent
<1>8. Made'
    BY DEF Made, TypeOK, Known
<1>9. Steady'
    BY DEF Steady, TypeOK, Known, Transaction, Made
<1>10. AfterLoss'
    BY DEF AfterLoss, TypeOK, Known, NothingYet, Steady, Transaction, LossBounded
<1> QED BY <1>1, <1>2, <1>3, <1>4, <1>5, <1>6, <1>7, <1>8, <1>9, <1>10

\* A stutter.
LEMMA Stood ==
    ASSUME IInv, UNCHANGED vars PROVE IInv'
BY DEF vars, server, client, history, IInv, TypeOK, AllOrNothing, LossBounded, Known,
       Unsent, NothingYet, Transaction, Made, Steady, AfterLoss, Statement

LEMMA Kept ==
    IInv /\ [Next]_vars => IInv'
<1> SUFFICES ASSUME IInv, [Next]_vars PROVE IInv'
    OBVIOUS
<1>1. CASE Step
    BY <1>1, Looked, Prepared, Begun, Committed, Inserted DEF Step
<1>2. CASE Calls \/ Call({Message})
    BY <1>2, Called DEF Calls, Items
<1>3. CASE w1_cleanup
    BY <1>3, CleanedUp
<1>4. CASE \/ Outage \/ Return \/ \E ts \in SUBSET Tables : Alter(ts)
    BY <1>4, World
<1>5. CASE UNCHANGED vars
    BY <1>5, Stood
<1> QED BY <1>1, <1>2, <1>3, <1>4, <1>5 DEF Next

THEOREM Invariance == Spec => []IInv
    BY Beginning, Kept, PTL DEF Spec
-----------------------------------------------------------------------------

\* Every variable keeps its type; a closed connection has no session and no statements.
THEOREM TypeCorrect == Spec => []TypeOK
<1>1. IInv => TypeOK
    BY DEF IInv
<1> QED BY <1>1, Invariance, PTL

\* The readings of a pass are stored together or not at all: what w1_logger stores is
\* the whole of its call or nothing.
THEOREM WholePasses == Spec => []AllOrNothing
<1>1. IInv => AllOrNothing
    BY DEF IInv
<1> QED BY <1>1, Invariance, PTL

\* Of steady calls in a row at most one stores nothing, unless a table was missing when
\* a statement was prepared: the call after it begins with a reset connection.
THEOREM LossIsBounded == Spec => []LossBounded
<1>1. IInv => LossBounded
    BY DEF IInv
<1> QED BY <1>1, Invariance, PTL

\* No transaction outlives the call of w1_logger or w1_report that began it.
THEOREM TransactionsEnd == Spec => []NoOpenTransaction
<1>1. IInv => NoOpenTransaction
    BY DEF IInv, Transaction, NoOpenTransaction
<1> QED BY <1>1, Invariance, PTL
=============================================================================
