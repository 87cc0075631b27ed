--------------------------- MODULE MCPaymentProof ---------------------------
(***************************************************************************)
(* TLC instance of PaymentProof: headers of honest buyers with all windows *)
(* around the clock, with all payers, nonces, tokens and spellings, and    *)
(* headers that differ from an honest one in one respect, signed as they   *)
(* stand or with the signature of the honest one.                          *)
(***************************************************************************)
EXTENDS PaymentProof, TLC

CONSTANTS U, USD1, USDC, alice, bob, mallory

Raw(asset, from, nonce, after, before) ==
    [form |-> "proof", asset |-> asset, extra |-> "valid", extraSpender |-> "b402",
     amount |-> Price, payTo |-> Seller,
     payload |-> IF asset \in Permit2 THEN "permit2" ELSE "eip3009",
     spelling |-> "canonical", from |-> from, to |-> Seller, value |-> Price,
     token |-> asset, spender |-> "b402", after |-> after, before |-> before, nonce |-> nonce]

With(p, signer, message) ==
    [f \in DOMAIN p \cup {"signed"} |->
       IF f = "signed" THEN [by |-> signer, msg |-> Digest(message)] ELSE p[f]]
Sign(p) == With(p, p.from, p)

Windows == {Sign(Raw(a, alice, 1, s, e)) : a \in {U, USDC}, s \in {0, 2}, e \in 1..4}
Identities ==
    {With([p EXCEPT !.spelling = s], p.from, p) :
        p \in {Raw(a, f[1], f[2], 1, 3) : a \in Tokens, f \in {<<alice, 1>>, <<alice, 2>>, <<bob, 1>>}},
        s \in {"canonical", "padded"}}

Altered(p) ==
    {[p EXCEPT !.form = "garbled"], [p EXCEPT !.asset = mallory], [p EXCEPT !.extra = "domain"],
     [p EXCEPT !.extraSpender = "other"], [p EXCEPT !.amount = @ - 1], [p EXCEPT !.payTo = mallory],
     [p EXCEPT !.payload = "other"], [p EXCEPT !.from = bob], [p EXCEPT !.to = mallory],
     [p EXCEPT !.value = @ - 1], [p EXCEPT !.amount = @ - 1, !.value = @ - 1],
     [p EXCEPT !.token = USD1], [p EXCEPT !.spender = "other"], [p EXCEPT !.after = 0],
     [p EXCEPT !.before = 4], [p EXCEPT !.before = 5], [p EXCEPT !.after = -1],
     [p EXCEPT !.nonce = 2], [p EXCEPT !.nonce = MaxUint + 1]}
Bases == {Raw(a, alice, 1, 1, 3) : a \in {U, USDC}}
Alterations ==
    UNION {{With(q, p.from, p) : q \in Altered(p)} \cup {Sign(q) : q \in Altered(p)}
             \cup {With(p, mallory, p)} : p \in Bases}

Symmetry == Permutations(Requests)

MCProofs == Windows \cup Identities \cup Alterations
=============================================================================
