------------------------------- MODULE Wallet -------------------------------
(***************************************************************************)
(* pkg/domain/wallet: balances with an append-only ledger.  Apply and      *)
(* ApplyTx run under one mutex, so that calls are atomic; retried and      *)
(* duplicated requests repeat a transaction ID, with any changeset.        *)
(* Numbers wrap around as those of int64 do, for which Half is 2^63.       *)
(***************************************************************************)
EXTENDS Integers, Sequences

CONSTANTS
    Owners, Currencies, TxIds, None,
    Half,       \* a number is at least -Half and less than Half
    MaxLedgers  \* bound on the records of the ledger

VARIABLES
    accounts,  \* accounts[o]: Balance, over the currencies
    ledgers,   \* the ledger records of all accounts, in the order of their IDs
    txIndex,   \* txIndex[x][o]: the ledger ID of the transaction's first success
    loaded     \* history: what SetBalance loaded

vars == <<accounts, ledgers, txIndex, loaded>>

Int64 == -Half..(Half - 1)
Wrap(n) == ((n + Half) % (2 * Half)) - Half

\* A changeset names some currencies, maybe with 0; the others are 0 in it.
Changesets == [Currencies -> Int64]
Zero == [c \in Currencies |-> 0]

TypeOK ==
    /\ accounts \in [Owners -> [Currencies -> Int64]]
    /\ loaded \in [Owners -> [Currencies -> Int64]]
    /\ ledgers \in Seq([owner : Owners, changeset : Changesets, tx : TxIds \cup {None}])
    /\ txIndex \in [TxIds -> [Owners -> 0..MaxLedgers]]

\* New, and SetBalance from a snapshot at the start.
Init ==
    /\ loaded \in [Owners -> {Zero, [Zero EXCEPT ![CHOOSE c \in Currencies : TRUE] = Half - 1]}]
    /\ accounts = loaded
    /\ ledgers = <<>>
    /\ txIndex = [x \in TxIds |-> [o \in Owners |-> 0]]

\* addBalance: refuses a sum that wrapped around.
Overflows(balance, delta) ==
    \/ delta > 0 /\ Wrap(balance + delta) < balance
    \/ delta < 0 /\ Wrap(balance + delta) > balance

\* Mutant of Fits: only a sum that wraps around is refused.
FitsUnlessWrapped(o, d) == \A c \in Currencies : ~Overflows(accounts[o][c], d[c])

\* The changeset as a whole is refused when one currency does not allow it.
Fits(o, d) ==
    \A c \in Currencies :
        ~Overflows(accounts[o][c], d[c]) /\ Wrap(accounts[o][c] + d[c]) >= 0

\* The common core: write the balances, append to the ledger.
Post(o, d, x) ==
    /\ Fits(o, d) /\ Len(ledgers) < MaxLedgers
    /\ accounts' = [accounts EXCEPT ![o] = [c \in Currencies |-> Wrap(@[c] + d[c])]]
    /\ ledgers' = Append(ledgers, [owner |-> o, changeset |-> d, tx |-> x])
    /\ UNCHANGED loaded

Apply(o, d) == Post(o, d, None) /\ UNCHANGED txIndex

\* Mutant of ApplyTx: the transaction is remembered before it is tried.
ApplyTxRemembersFirst(x, o, d) ==
    /\ txIndex[x][o] = 0 /\ Len(ledgers) < MaxLedgers
    /\ Post(o, d, x) \/ (~Fits(o, d) /\ UNCHANGED <<accounts, ledgers, loaded>>)
    /\ txIndex' = [txIndex EXCEPT ![x][o] = Len(ledgers) + 1]

\* ApplyTx: a success is remembered under txID and owner, and then only replayed
\* (no change); a refusal is not, and may be retried.
ApplyTx(x, o, d) ==
    /\ txIndex[x][o] = 0
    /\ Post(o, d, x)
    /\ txIndex' = [txIndex EXCEPT ![x][o] = Len(ledgers) + 1]

Next ==
    \E o \in Owners, d \in Changesets : Apply(o, d) \/ \E x \in TxIds : ApplyTx(x, o, d)

Spec == Init /\ [][Next]_vars

-----------------------------------------------------------------------------
(* Properties *)

\* What the records of a ledger come to.
Posted(records, o, c) ==
    LET sum[i \in 0..Len(records)] ==
            IF i = 0 THEN 0
            ELSE sum[i - 1] + (IF records[i].owner = o THEN records[i].changeset[c] ELSE 0)
    IN  sum[Len(records)]

\* wallet.go:1-8: every balance is, in unbounded integers, what was loaded plus
\* the ledger's changesets, and is never negative; wallet.go:121-133: a
\* transaction has at most one record per owner, the one that is replayed, and
\* is used up only by a success: what is remembered has its record.
BooksBalance ==
    /\ \A o \in Owners, c \in Currencies :
          /\ accounts[o][c] >= 0
          /\ accounts[o][c] = loaded[o][c] + Posted(ledgers, o, c)
    /\ \A i \in DOMAIN ledgers :
          ledgers[i].tx # None => txIndex[ledgers[i].tx][ledgers[i].owner] = i
    /\ \A x \in TxIds, o \in Owners : txIndex[x][o] # 0 =>
          /\ txIndex[x][o] \in DOMAIN ledgers
          /\ ledgers[txIndex[x][o]].tx = x /\ ledgers[txIndex[x][o]].owner = o

\* It is inductive as it stands.
IInv == TypeOK /\ BooksBalance
=============================================================================
