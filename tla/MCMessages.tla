----------------------------- MODULE MCMessages -----------------------------
(***************************************************************************)
(* Messages of every type, the ways in which they reach a signer, and what *)
(* decoding must do with them.                                             *)
(***************************************************************************)
EXTENDS Messages

A == <<1, 2, 3, 4>>
B == <<5, 6, 7, 8>>
Key(x) == [x |-> x, odd |-> x = A]
OutPointA == [txid |-> A, vout |-> 1]
Address == [version |-> 22, hash |-> 5]
Principal == [version |-> 22, hash |-> 5, contract |-> <<"name">>]
Id == [request_id |-> 3, txid |-> A, block_hash |-> B]
Recoverable == [r |-> A, s |-> B, id |-> 1]

ContractTxs ==
    {<<"CompleteDeposit",
       [outpoint |-> OutPointA, amount |-> 7, recipient |-> Principal, deployer |-> Address,
        sweep_txid |-> B, sweep_block_hash |-> A, sweep_block_height |-> 9]>>,
     <<"AcceptWithdrawal",
       [id |-> Id, outpoint |-> OutPointA, tx_fee |-> 6, signer_bitmap |-> 0,
        deployer |-> Address, sweep_block_hash |-> B, sweep_block_height |-> 9]>>,
     <<"RejectWithdrawal", [id |-> Id, signer_bitmap |-> 0, deployer |-> Address]>>,
     <<"RotateKeys",
       [new_keys |-> {Key(A), Key(B)}, aggregate_key |-> Key(B), deployer |-> Address,
        signatures_required |-> 65535]>>}
        \cup {<<"SmartContract", c>> : c \in Range(SmartContracts)}

SignRequests ==
    {[aggregate_key |-> k, nonce |-> 4, tx_fee |-> 5, txid |-> B, contract_tx |-> c] :
        k \in {{}, {Key(B)}}, c \in ContractTxs}

Tuple == [R |-> Key(A), rB |-> Key(B), z |-> A]
BadShare == [shared_key |-> Key(A), tuple_proof |-> Tuple]
Proof == [id |-> A, kG |-> Key(A), kca |-> B]
Commitment == [id |-> Proof, poly |-> <<Key(A), Key(B)>>]
Shares == [dkg_id |-> 1, signer_id |-> 2, comms |-> <<<<2, Commitment>>>>]
Statuses ==
    {<<"Success", {}>>, <<"MissingPublicShares", {1, 3}>>, <<"BadPublicShares", {2}>>,
     <<"BadPrivateShares", <<<<2, BadShare>>, <<1, [BadShare EXCEPT !.shared_key = Key(B)]>>>>>>}
SignatureTypes == {<<"Frost", {}>>, <<"Schnorr", {}>>, <<"Taproot", {}>>, <<"Taproot", {A}>>}
Nonce(x) == [D |-> Key(x), E |-> Key(B)]
NonceReply ==
    [dkg_id |-> 1, sign_id |-> 2, sign_iter_id |-> 3, signer_id |-> 4, key_ids |-> <<5>>,
     nonces |-> <<Nonce(A)>>, message |-> <<1>>]
Share == [id |-> 1, z_i |-> B, key_ids |-> <<2>>]

Inners ==
    {<<"DkgBegin", [dkg_id |-> 1]>>, <<"DkgPublicShares", Shares>>,
     <<"DkgPrivateBegin", [dkg_id |-> 1, signer_ids |-> <<1, 2>>, key_ids |-> <<3>>]>>,
     <<"DkgPrivateShares", [dkg_id |-> 1, signer_id |-> 2,
                            shares |-> <<<<2, <<<<3, "c">>, <<1, "d">>>>>>>>]>>,
     <<"DkgEndBegin", [dkg_id |-> 1, signer_ids |-> <<1, 2>>, key_ids |-> <<3>>]>>,
     <<"NonceResponse", NonceReply>>,
     <<"SignatureShareResponse", [dkg_id |-> 1, sign_id |-> 2, sign_iter_id |-> 3,
                                  signer_id |-> 4, signature_shares |-> <<Share>>]>>}
        \cup {<<"DkgEnd", [dkg_id |-> 1, signer_id |-> 2, status |-> s]>> : s \in Statuses}
        \cup {<<"NonceRequest", [dkg_id |-> 1, sign_id |-> 2, sign_iter_id |-> 3,
                                 message |-> <<1>>, signature_type |-> t]>> : t \in SignatureTypes}
        \cup {<<"SignatureShareRequest",
                [dkg_id |-> 1, sign_id |-> 2, sign_iter_id |-> 3, message |-> <<1>>,
                 nonce_responses |-> <<NonceReply, NonceReply>>, signature_type |-> t]>> :
                    t \in SignatureTypes}

Payloads ==
    {<<"SignerDepositDecision", SignerDepositDecision(d)>> : d \in
        [txid : {A}, output_index : {1}, can_accept : BOOLEAN, can_sign : BOOLEAN]}
        \cup {<<"SignerWithdrawalDecision", SignerWithdrawalDecision(d)>> : d \in
                [request_id : {3}, block_hash : {A}, txid : {B}, is_accepted : BOOLEAN]}
        \cup {<<"StacksTransactionSignRequest", r>> : r \in SignRequests}
        \cup {<<"StacksTransactionSignature", [txid |-> A, signature |-> Recoverable]>>,
              <<"BitcoinPreSignAck", BitcoinPreSignAck>>}
        \cup {<<"BitcoinPreSignRequest",
                [request_package |-> <<[deposits |-> <<OutPointA>>, withdrawals |-> <<Id>>],
                                       [deposits |-> << >>, withdrawals |-> <<Id>>]>>,
                 fee_rate |-> 2, last_fees |-> f]>> : f \in {{}, {[total |-> 1, rate |-> 2]}}}
        \cup {<<"WstsMessage", [id |-> i, inner |-> m]>> :
                i \in {<<"Sweep", A>>, <<"DkgVerification", Key(B)>>, <<"Dkg", B>>}, m \in Inners}

SignerMessages == {ToMessage(p, B) : p \in Payloads}

State ==
    [id |-> 1, key_ids |-> <<2>>, num_keys |-> 3, num_parties |-> 3, threshold |-> 2,
     group_key |-> Key(A),
     party_state |-> [polynomial |-> {<<A, B>>}, private_keys |-> <<<<1, A>>, <<2, B>>>>]]

\* A value of every type that has a conversion of its own.
Values ==
    [PublicKey |-> {Key(A), Key(B)}, RecoverableSignature |-> {Recoverable},
     EcdsaSignature |-> {[r |-> A, s |-> B]}, Scalar |-> {A}, Point |-> {Key(A), Key(B)},
     BitcoinTxid |-> {A}, BitcoinBlockHash |-> {A}, OutPoint |-> {OutPointA},
     StacksBlockId |-> {A}, StacksTxid |-> {A}, QualifiedRequestId |-> {Id},
     SignerState |-> {State, [State EXCEPT !.party_state.polynomial = {}]},
     PartyState |-> {State.party_state}, PrivateKeyShare |-> {<<1, A>>},
     PartyCommitment |-> {<<2, Commitment>>}, PolyCommitment |-> {Commitment},
     DkgPublicShares |-> {<<Shares, Shares>>}, ProofIdentifier |-> {Proof},
     DkgStatus |-> Statuses, BadPrivateShare |-> {BadShare}, TupleProof |-> {Tuple},
     SignatureType |-> SignatureTypes, PublicNonce |-> {Nonce(A)}, SignatureShare |-> {Share},
     Signed |-> {SignEcdsa(m, Key(A)) : m \in {CHOOSE m \in SignerMessages : TRUE}},
     SignerMessage |-> SignerMessages]
        @@ [type \in {c[1] : c \in ContractTxs} \ {"SmartContract"} |->
                {c[2] : c \in {c \in ContractTxs : c[1] = type}}]
        @@ [type \in {p[1] : p \in Payloads} |-> {p[2] : p \in {p \in Payloads : p[1] = type}}]
        @@ [type \in {"DkgEnd", "NonceRequest", "SignatureShareRequest"} |->
                {m[2] : m \in {m \in Inners : m[1] = type}}]
-----------------------------------------------------------------------------

Convert(type, v) ==
    CASE type = "PublicKey" -> PublicKeyProto(v)
      [] type = "RecoverableSignature" -> RecoverableSignatureProto(v)
      [] type = "EcdsaSignature" -> EcdsaSignatureProto(v)
      [] type = "Scalar" -> ScalarProto(v)
      [] type = "Point" -> PointProto(v)
      [] type = "BitcoinTxid" -> BitcoinTxidProto(v)
      [] type = "BitcoinBlockHash" -> BitcoinBlockHashProto(v)
      [] type = "OutPoint" -> OutPointProto(v)
      [] type = "StacksBlockId" -> StacksBlockIdProto(v)
      [] type = "StacksTxid" -> StacksTxidProto(v)
      [] type = "QualifiedRequestId" -> QualifiedRequestIdProto(v)
      [] type = "CompleteDeposit" -> CompleteDepositProto(v)
      [] type = "AcceptWithdrawal" -> AcceptWithdrawalProto(v)
      [] type = "RejectWithdrawal" -> RejectWithdrawalProto(v)
      [] type = "RotateKeys" -> RotateKeysProto(v)
      [] type = "SignerMessage" -> SignerMessageProto(v)
      [] type = "Signed" -> SignedProto(v)
      [] type = "SignerState" -> SignerStateProto(v)
      [] type = "PartyState" -> PartyStateProto(1, v)
      [] type = "PrivateKeyShare" -> PrivateKeyShareProto(v)
      [] type = "PartyCommitment" -> PartyCommitmentProto(v)
      [] type = "PolyCommitment" -> PolyCommitmentProto(v)
      [] type = "DkgPublicShares" -> DkgPublicSharesProto(v)
      [] type = "ProofIdentifier" -> ProofIdentifierProto(v)
      [] type = "DkgStatus" -> DkgStatusProto(v)
      [] type = "BadPrivateShare" -> BadPrivateShareProto(v)
      [] type = "TupleProof" -> TupleProofProto(v)
      [] type = "SignatureType" -> SignatureTypeProto(v)
      [] type = "PublicNonce" -> PublicNonceProto(v)
      [] type = "SignatureShare" -> SignatureShareProto(v)
      [] type \in {"DkgEnd", "NonceRequest", "SignatureShareRequest"} -> WstsInnerProto(<<type, v>>)
      [] OTHER -> PayloadProto(<<type, v>>)

TryConvert(type, p) ==
    CASE type = "PublicKey" -> PublicKeyTry(p)
      [] type = "RecoverableSignature" -> RecoverableSignatureTry(p)
      [] type = "EcdsaSignature" -> EcdsaSignatureTry(p)
      [] type = "Scalar" -> ScalarTry(p)
      [] type = "Point" -> PointTry(p)
      [] type = "BitcoinTxid" -> BitcoinTxidTry(p)
      [] type = "BitcoinBlockHash" -> BitcoinBlockHashTry(p)
      [] type = "OutPoint" -> OutPointTry(p)
      [] type = "StacksBlockId" -> StacksBlockIdTry(p)
      [] type = "StacksTxid" -> StacksTxidTry(p)
      [] type = "QualifiedRequestId" -> QualifiedRequestIdTry(p)
      [] type = "CompleteDeposit" -> CompleteDepositTry(p)
      [] type = "AcceptWithdrawal" -> AcceptWithdrawalTry(p)
      [] type = "RejectWithdrawal" -> RejectWithdrawalTry(p)
      [] type = "RotateKeys" -> RotateKeysTry(p)
      [] type = "SignerMessage" -> SignerMessageTry(p)
      [] type = "Signed" -> SignedTry(p)
      [] type = "SignerState" -> SignerStateTry(p)
      [] type = "PartyState" -> PartyStateTry(p)
      [] type = "PrivateKeyShare" -> PrivateKeyShareTry(p)
      [] type = "PartyCommitment" -> PartyCommitmentTry(p)
      [] type = "PolyCommitment" -> PolyCommitmentTry(p)
      [] type = "DkgPublicShares" -> DkgPublicSharesTry(p)
      [] type = "ProofIdentifier" -> ProofIdentifierTry(p)
      [] type = "DkgStatus" -> DkgStatusTry(p)
      [] type = "BadPrivateShare" -> BadPrivateShareTry(p)
      [] type = "TupleProof" -> TupleProofTry(p)
      [] type = "SignatureType" -> SignatureTypeTry(p)
      [] type = "PublicNonce" -> PublicNonceTry(p)
      [] type = "SignatureShare" -> SignatureShareTry(p)
      [] type \in {"DkgEnd", "NonceRequest", "SignatureShareRequest"} ->
            {m[2] : m \in WstsInnerTry(<<type, p>>)}
      [] OTHER -> {m[2] : m \in PayloadTry(<<type, p>>)}
-----------------------------------------------------------------------------

\* Protobufs with every field whose values no type of the signer takes.
Malformed ==
    {<<"PublicKey", PublicKeyProto(Key(<<o, 1, 1, 1>>))>> : o \in OffCurve}
        \cup {<<"EcdsaSignature", EcdsaSignatureProto([r |-> A, s |-> <<o, 1, 1, 1>>])>> :
                o \in AboveOrder}
        \cup {<<"RecoverableSignature", RecoverableSignatureProto([Recoverable EXCEPT !.id = i])>> :
                i \in {-1, 4}}
        \cup {<<"RotateKeys", RotateKeysProto([c[2] EXCEPT !.signatures_required = 65536])>> :
                c \in {c \in ContractTxs : c[1] = "RotateKeys"}}
        \cup {<<"StacksTransactionSignRequest",
                [StacksTransactionSignRequestProto(CHOOSE r \in SignRequests : TRUE)
                    EXCEPT !.contract_tx = {<<"SmartContract", i>>}]>> : i \in {0, 6}}
        \cup {<<"SignerState", [SignerStateProto(State) EXCEPT !.parties = s]>> :
                s \in {<< >>, <<PartyStateProto(1, State.party_state),
                                PartyStateProto(2, State.party_state)>>}}
        \cup {<<"PolyCommitment", [PolyCommitmentProto(Commitment) EXCEPT !.poly = << >>]>>}

\* A protobuf with a hole for every optional field of its type.
Incomplete ==
    UNION {{<<type, [Convert(type, v) EXCEPT ![f] = {}]>> :
                v \in Values[type], f \in {f \in Options[type] : <<type, f>> \notin MayLack}} :
            type \in DOMAIN Options}

Shown(m) ==
    LET p == m.payload IN
    IF p[1] = "StacksTransactionSignRequest"
    THEN <<m.bitcoin_chain_tip, p[1], [p[2] EXCEPT !.aggregate_key = {}]>>
    ELSE IF p[1] # "WstsMessage" THEN <<m.bitcoin_chain_tip, p[1], p[2]>>
    ELSE LET i == p[2].inner IN
         <<m.bitcoin_chain_tip, p[1], p[2].id, i[1],
           CASE i[1] = "DkgPrivateShares" ->
                    [i[2] EXCEPT !.shares = [n \in DOMAIN @ |-> <<@[n][1], Range(@[n][2])>>]]
             [] i[1] = "DkgEnd" /\ i[2].status[1] = "BadPrivateShares" ->
                    [i[2] EXCEPT !.status[2] = Range(@)]
             [] OTHER -> i[2]>>

(***************************************************************************)
(* What a sender puts on the wire: the message as this version encodes it, *)
(* with a field that a newer schema adds to the signed envelope, with a    *)
(* signature field written twice, or with the signature last.              *)
(***************************************************************************)
Wires == {"plain", "newer", "twice", "last"}

OnWire(m, key, wire) ==
    LET body == ToDigest(m, key)[2] \o IF wire = "newer" THEN <<<<4, "new">>>> ELSE << >>
        signature == EcdsaSignatureProto(SignatureOver(key, Digest(TypeTag(m), body)))
    IN  CASE wire = "twice" -> <<<<1, [signature EXCEPT !.upper_bits = {}]>>, <<1, signature>>>> \o body
          [] wire = "last" -> Append(body, <<1, signature>>)
          [] OTHER -> <<<<1, signature>>>> \o body

\* What the sender signed is what the receiver decodes and verifies.
Arrives(m, key, decoded) ==
    /\ decoded # {}
    /\ \A d \in decoded : /\ VerifyDigest(d[1], d[2])
                          /\ d[1].signer_public_key = key
                          /\ Shown(d[1].inner) = Shown(m)
=============================================================================
