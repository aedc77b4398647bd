----------------------------- MODULE MCOVMAlloc -----------------------------
(* Short lists over two addresses and OVM_ETH. *)
EXTENDS OVMAlloc
CONSTANTS v, w

Stored == [k \in Keys |-> IF k < OVMETH THEN v ELSE None]
Account(code, root) == [balance |-> w, nonce |-> v, code |-> code, root |-> root]

(* Account 1 a contract with storage, a plain one or absent; account 2 absent or
   a contract; the token. *)
MCConverted == {[k \in Keys |-> CASE k = 1 -> a [] k = 2 -> b [] OTHER -> Account(w, Stored)] :
                a \in {None, Account(v, Stored), Account(Zero, Nothing)},
                b \in {None, Account(w, Nothing)}}

T(kind, key, value) == [kind |-> kind, key |-> key, value |-> value]
S == T("storage", 0, Zero)

(* The fields of an account: none, some, a name twice; slots set, deleted, given
   twice with the deletion first or last; slots before and after other fields. *)
MCFields == {
    <<>>, <<S>>,
    <<T("balance", 0, v)>>, <<T("nonce", 0, w), T("code", 0, v)>>,
    <<T("balance", 0, v), T("balance", 0, v)>>,
    <<S, T("slot", 1, Zero)>>,
    <<T("code", 0, Zero), S, T("slot", 2, w)>>,
    <<S, T("slot", 1, w), T("slot", 2, Zero), T("balance", 0, Zero)>>,
    <<S, T("slot", 1, Zero), T("slot", 1, w)>>,
    <<S, T("slot", 1, w), T("slot", 2, v), T("slot", 1, Zero)>>,
    <<S, T("slot", 1, w), S, T("slot", 2, w)>> }

MCEntries == {<<T("account", k, Zero)>> \o f \o <<T("end", k, Zero)>> : k \in Keys, f \in MCFields}
MCAllocs == {<<>>} \cup MCEntries \cup {e \o f : e \in MCEntries, f \in MCEntries}

(* Every allocation without a retain list, and every list with a short one. *)
MCLists == UNION {[1..n -> Keys] : n \in 0..3}
MCFiles == {<<<<>>, f>> : f \in MCAllocs}
           \cup {<<l, f>> : l \in MCLists, f \in {<<>>, CHOOSE e \in MCEntries : Len(e) = 4}}

(* The leaves of both tries. *)
MCValues == {v, w} \cup [balance : {v, w, Zero}, nonce : {v, w, Zero}, code : {v, w, Zero},
                         root : [Keys -> {v, w, None}]]
=============================================================================
