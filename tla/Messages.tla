------------------------------ MODULE Messages ------------------------------
(***************************************************************************)
(* The messages between signers: their protobuf form, the conversions in   *)
(* both directions, and the signature over the encoded bytes               *)
(* (proto/convert.rs, codec.rs, message.rs, ecdsa.rs).                     *)
(*                                                                         *)
(* An optional protobuf field is a set of at most one value.  For a type T *)
(* TProto(v) is the conversion from the signer's value v, which cannot     *)
(* fail, and TTry(p) the conversion back: the set of the values it can     *)
(* return, empty when it returns an error.  A member of a protobuf oneof   *)
(* is a pair <<variant, value>>.                                           *)
(*                                                                         *)
(* 32 bytes are four limbs, the first the most significant.  A HashMap is  *)
(* the sequence of its pairs in the order in which it iterates, which two  *)
(* equal maps need not share.                                              *)
(***************************************************************************)
EXTENDS Integers, Sequences, SequencesExt, FiniteSets, FiniteSetsExt, TLC

CONSTANTS
    OffCurve,    \* first limbs of the 32 bytes that are no x coordinate
    AboveOrder   \* first limbs of the 32 bytes at or above the group order

Opt(v) == {v}

Required(field, Try(_)) == UNION {Try(v) : v \in field}

Optional(field, Try(_)) == IF field = {} THEN {{}} ELSE {{v} : v \in Required(field, Try)}

Repeated(seq, Try(_)) ==
    IF \E i \in DOMAIN seq : Try(seq[i]) = {}
    THEN {}
    ELSE {out \in [DOMAIN seq -> UNION {Try(seq[i]) : i \in DOMAIN seq}] :
            \A i \in DOMAIN seq : out[i] \in Try(seq[i])}

Each(seq, Proto(_)) == [i \in DOMAIN seq |-> Proto(seq[i])]

\* The orders in which a new HashMap with these pairs can iterate.
Orders(pairs) == {s \in [DOMAIN pairs -> Range(pairs)] : Range(s) = Range(pairs)}
-----------------------------------------------------------------------------
(* Bytes, keys and signatures                                              *)

Uint256Proto(b) ==
    [bits_part0 |-> b[1], bits_part1 |-> b[2], bits_part2 |-> b[3], bits_part3 |-> b[4]]

Uint256Try(p) == {<<p.bits_part0, p.bits_part1, p.bits_part2, p.bits_part3>>}

PublicKeyProto(k) == [x_only_public_key |-> Opt(Uint256Proto(k.x)), parity_is_odd |-> k.odd]

PublicKeyTry(p) ==
    {[x |-> x, odd |-> p.parity_is_odd] :
        x \in {x \in Required(p.x_only_public_key, Uint256Try) : x[1] \notin OffCurve}}

RecoverableSignatureProto(s) ==
    [lower_bits |-> Opt(Uint256Proto(s.r)), upper_bits |-> Opt(Uint256Proto(s.s)),
     recovery_id |-> s.id]

RecoverableSignatureTry(p) ==
    {[r |-> r, s |-> s, id |-> id] :
        r \in {r \in Required(p.lower_bits, Uint256Try) : r[1] \notin AboveOrder},
        s \in {s \in Required(p.upper_bits, Uint256Try) : s[1] \notin AboveOrder},
        id \in {p.recovery_id} \cap 0..3}

EcdsaSignatureProto(s) ==
    [lower_bits |-> Opt(Uint256Proto(s.r)), upper_bits |-> Opt(Uint256Proto(s.s))]

EcdsaSignatureTry(p) ==
    {[r |-> r, s |-> s] :
        r \in {r \in Required(p.lower_bits, Uint256Try) : r[1] \notin AboveOrder},
        s \in {s \in Required(p.upper_bits, Uint256Try) : s[1] \notin AboveOrder}}

BitcoinTxidProto(id) == [txid |-> Opt(Uint256Proto(id))]

BitcoinTxidTry(p) == Required(p.txid, Uint256Try)

BitcoinBlockHashProto(h) == [block_hash |-> Opt(Uint256Proto(h))]

BitcoinBlockHashTry(p) == Required(p.block_hash, Uint256Try)

OutPointProto(o) == [txid |-> Opt(BitcoinTxidProto(o.txid)), vout |-> o.vout]

OutPointTry(p) == {[txid |-> t, vout |-> p.vout] : t \in Required(p.txid, BitcoinTxidTry)}

StacksTxidProto(id) == [txid |-> Opt(Uint256Proto(id))]

StacksTxidTry(p) == Required(p.txid, Uint256Try)

StacksBlockIdProto(h) == [block_id |-> Opt(Uint256Proto(h))]

StacksBlockIdTry(p) == Required(p.block_id, Uint256Try)

\* The consensus serialization of an address is its version and its hash,
\* and that of a principal has the name of a contract as well.
StacksAddressProto(a) == [address |-> <<a.version, a.hash>>]

StacksAddressTry(p) ==
    {[version |-> a[1], hash |-> a[2]] : a \in {a \in {p.address} : Len(a) >= 2}}

StacksPrincipalProto(a) == [data |-> <<a.version, a.hash>> \o a.contract]

StacksPrincipalTry(p) ==
    {[version |-> a[1], hash |-> a[2], contract |-> SubSeq(a, 3, Len(a))] :
        a \in {a \in {p.data} : Len(a) >= 2}}
-----------------------------------------------------------------------------
(* Decisions and Stacks transactions                                       *)

\* The messages that carry the rows of a signer's own decisions.
SignerDepositDecision(signer) ==
    [txid |-> signer.txid, output_index |-> signer.output_index, can_accept |-> signer.can_accept,
     can_sign |-> signer.can_sign]

SignerWithdrawalDecision(signer) ==
    [request_id |-> signer.request_id, block_hash |-> signer.block_hash, txid |-> signer.txid,
     accepted |-> signer.is_accepted]

SignerDepositDecisionProto(d) ==
    [outpoint |-> Opt([txid |-> Opt(BitcoinTxidProto(d.txid)), vout |-> d.output_index]),
     can_accept |-> d.can_accept, can_sign |-> d.can_sign]

SignerDepositDecisionTry(p) ==
    {[txid |-> o.txid, output_index |-> o.vout, can_accept |-> p.can_accept,
      can_sign |-> p.can_sign] : o \in Required(p.outpoint, OutPointTry)}

SignerWithdrawalDecisionProto(d) ==
    [request_id |-> d.request_id, block_id |-> Opt(StacksBlockIdProto(d.block_hash)),
     accepted |-> d.accepted, txid |-> Opt(StacksTxidProto(d.txid))]

SignerWithdrawalDecisionTry(p) ==
    {[request_id |-> p.request_id, block_hash |-> b, accepted |-> p.accepted, txid |-> t] :
        b \in Required(p.block_id, StacksBlockIdTry), t \in Required(p.txid, StacksTxidTry)}

QualifiedRequestIdProto(q) ==
    [request_id |-> q.request_id, txid |-> Opt(StacksTxidProto(q.txid)),
     block_hash |-> Opt(StacksBlockIdProto(q.block_hash))]

QualifiedRequestIdTry(p) ==
    {[request_id |-> p.request_id, txid |-> t, block_hash |-> b] :
        t \in Required(p.txid, StacksTxidTry), b \in Required(p.block_hash, StacksBlockIdTry)}

CompleteDepositProto(c) ==
    [outpoint |-> Opt(OutPointProto(c.outpoint)), amount |-> c.amount,
     recipient |-> Opt(StacksPrincipalProto(c.recipient)),
     deployer |-> Opt(StacksAddressProto(c.deployer)),
     sweep_txid |-> Opt(BitcoinTxidProto(c.sweep_txid)),
     sweep_block_hash |-> Opt(BitcoinBlockHashProto(c.sweep_block_hash)),
     sweep_block_height |-> c.sweep_block_height]

CompleteDepositTry(p) ==
    {[outpoint |-> o, amount |-> p.amount, recipient |-> r, deployer |-> d, sweep_txid |-> t,
      sweep_block_hash |-> h, sweep_block_height |-> p.sweep_block_height] :
        o \in Required(p.outpoint, OutPointTry), r \in Required(p.recipient, StacksPrincipalTry),
        d \in Required(p.deployer, StacksAddressTry), t \in Required(p.sweep_txid, BitcoinTxidTry),
        h \in Required(p.sweep_block_hash, BitcoinBlockHashTry)}

\* The bitmap of signers is no longer sent: it decodes to zero.
AcceptWithdrawalProto(c) ==
    [id |-> Opt(QualifiedRequestIdProto(c.id)), outpoint |-> Opt(OutPointProto(c.outpoint)),
     tx_fee |-> c.tx_fee, signer_bitmap |-> << >>,
     deployer |-> Opt(StacksAddressProto(c.deployer)),
     sweep_block_hash |-> Opt(BitcoinBlockHashProto(c.sweep_block_hash)),
     sweep_block_height |-> c.sweep_block_height]

AcceptWithdrawalTry(p) ==
    {[id |-> i, outpoint |-> o, tx_fee |-> p.tx_fee, signer_bitmap |-> 0, deployer |-> d,
      sweep_block_hash |-> h, sweep_block_height |-> p.sweep_block_height] :
        i \in Required(p.id, QualifiedRequestIdTry), o \in Required(p.outpoint, OutPointTry),
        d \in Required(p.deployer, StacksAddressTry),
        h \in Required(p.sweep_block_hash, BitcoinBlockHashTry)}

RejectWithdrawalProto(c) ==
    [id |-> Opt(QualifiedRequestIdProto(c.id)), signer_bitmap |-> << >>,
     deployer |-> Opt(StacksAddressProto(c.deployer))]

RejectWithdrawalTry(p) ==
    {[id |-> i, signer_bitmap |-> 0, deployer |-> d] :
        i \in Required(p.id, QualifiedRequestIdTry), d \in Required(p.deployer, StacksAddressTry)}

\* Keys are kept in a BTreeSet, in the order of their bytes.
RotateKeysProto(c) ==
    [new_keys |-> Each(SetToSortSeq(c.new_keys, LAMBDA j, k : j.x[1] < k.x[1]), PublicKeyProto),
     aggregate_key |-> Opt(PublicKeyProto(c.aggregate_key)),
     deployer |-> Opt(StacksAddressProto(c.deployer)),
     signatures_required |-> c.signatures_required]

RotateKeysTry(p) ==
    {[new_keys |-> Range(ks), aggregate_key |-> k, deployer |-> d, signatures_required |-> n] :
        ks \in Repeated(p.new_keys, PublicKeyTry), k \in Required(p.aggregate_key, PublicKeyTry),
        d \in Required(p.deployer, StacksAddressTry),
        n \in {p.signatures_required} \cap 0..(2^16 - 1)}

SmartContracts ==
    <<"SbtcRegistry", "SbtcToken", "SbtcDeposit", "SbtcWithdrawal", "SbtcBootstrapSigners">>

SmartContractProto(c) == CHOOSE i \in DOMAIN SmartContracts : SmartContracts[i] = c

SmartContractTry(i) == {SmartContracts[n] : n \in {i} \cap DOMAIN SmartContracts}

StacksTransactionSignRequestProto(r) ==
    LET c == r.contract_tx IN
    [aggregate_key |-> {PublicKeyProto(k) : k \in r.aggregate_key}, nonce |-> r.nonce,
     tx_fee |-> r.tx_fee, txid |-> Opt(StacksTxidProto(r.txid)),
     contract_tx |-> Opt(
        CASE c[1] = "CompleteDeposit" -> <<c[1], CompleteDepositProto(c[2])>>
          [] c[1] = "AcceptWithdrawal" -> <<c[1], AcceptWithdrawalProto(c[2])>>
          [] c[1] = "RejectWithdrawal" -> <<c[1], RejectWithdrawalProto(c[2])>>
          [] c[1] = "RotateKeys" -> <<c[1], RotateKeysProto(c[2])>>
          [] OTHER -> <<c[1], SmartContractProto(c[2])>>)]

ContractTxTry(c) ==
    {<<c[1], v>> : v \in
        CASE c[1] = "CompleteDeposit" -> CompleteDepositTry(c[2])
          [] c[1] = "AcceptWithdrawal" -> AcceptWithdrawalTry(c[2])
          [] c[1] = "RejectWithdrawal" -> RejectWithdrawalTry(c[2])
          [] c[1] = "RotateKeys" -> RotateKeysTry(c[2])
          [] OTHER -> SmartContractTry(c[2])}

\* The deprecated aggregate key of the sender is dropped.
StacksTransactionSignRequestTry(p) ==
    {[aggregate_key |-> {}, nonce |-> p.nonce, tx_fee |-> p.tx_fee, txid |-> t,
      contract_tx |-> c] :
        t \in Required(p.txid, StacksTxidTry), c \in Required(p.contract_tx, ContractTxTry)}

StacksTransactionSignatureProto(s) ==
    [txid |-> Opt(StacksTxidProto(s.txid)),
     signature |-> Opt(RecoverableSignatureProto(s.signature))]

StacksTransactionSignatureTry(p) ==
    {[txid |-> t, signature |-> s] : t \in Required(p.txid, StacksTxidTry),
                                     s \in Required(p.signature, RecoverableSignatureTry)}
-----------------------------------------------------------------------------
(* The messages of WSTS                                                    *)

PointProto(k) == [x_coordinate |-> Opt(Uint256Proto(k.x)), parity_is_odd |-> k.odd]

PointTry(p) ==
    {[x |-> x, odd |-> p.parity_is_odd] :
        x \in {x \in Required(p.x_coordinate, Uint256Try) : x[1] \notin OffCurve}}

ScalarProto(z) == [value |-> Opt(Uint256Proto(z))]

\* Bytes at or above the group order are reduced.
ScalarTry(p) ==
    {IF b[1] \in AboveOrder THEN <<0, b[2], b[3], b[4]>> ELSE b :
        b \in Required(p.value, Uint256Try)}

PolynomialProto(f) == [data |-> Each(f, ScalarProto)]

PolynomialTry(p) == Repeated(p.data, ScalarTry)

PrivateKeyShareProto(s) == [key_id |-> s[1], private_key |-> Opt(ScalarProto(s[2]))]

PrivateKeyShareTry(p) == {<<p.key_id, z>> : z \in Required(p.private_key, ScalarTry)}

PartyStateProto(key_id, s) ==
    [key_id |-> key_id, polynomial |-> {PolynomialProto(f) : f \in s.polynomial},
     private_keys |-> Each(s.private_keys, PrivateKeyShareProto), nonce |-> {}]

PartyStateTry(p) ==
    {[polynomial |-> f, private_keys |-> k] :
        f \in Optional(p.polynomial, PolynomialTry),
        k \in Repeated(p.private_keys, PrivateKeyShareTry)}

SignerStateProto(s) ==
    [id |-> s.id, key_ids |-> s.key_ids, num_keys |-> s.num_keys, num_parties |-> s.num_parties,
     threshold |-> s.threshold, group_key |-> Opt(PointProto(s.group_key)),
     parties |-> <<PartyStateProto(s.id, s.party_state)>>]

SignerStateTry(p) ==
    {[id |-> p.id, key_ids |-> p.key_ids, num_keys |-> p.num_keys, num_parties |-> p.num_parties,
      threshold |-> p.threshold, group_key |-> k, party_state |-> s] :
        k \in Required(p.group_key, PointTry),
        s \in IF Len(p.parties) = 1 THEN PartyStateTry(p.parties[1]) ELSE {}}

ProofIdentifierProto(i) ==
    [id |-> Opt(ScalarProto(i.id)), schnorr_response |-> Opt(PointProto(i.kG)),
     aggregate_commitment |-> Opt(ScalarProto(i.kca))]

ProofIdentifierTry(p) ==
    {[id |-> i, kG |-> g, kca |-> c] :
        i \in Required(p.id, ScalarTry), g \in Required(p.schnorr_response, PointTry),
        c \in Required(p.aggregate_commitment, ScalarTry)}

PolyCommitmentProto(c) == [id |-> Opt(ProofIdentifierProto(c.id)), poly |-> Each(c.poly, PointProto)]

\* A polynomial without coefficients is refused by PolyCommitment::new.
PolyCommitmentTry(p) ==
    {[id |-> i, poly |-> f] : i \in Required(p.id, ProofIdentifierTry),
                              f \in {f \in Repeated(p.poly, PointTry) : f # << >>}}

PartyCommitmentProto(c) == [signer_id |-> c[1], commitment |-> Opt(PolyCommitmentProto(c[2]))]

PartyCommitmentTry(p) == {<<p.signer_id, c>> : c \in Required(p.commitment, PolyCommitmentTry)}

SignerDkgPublicSharesProto(m) ==
    [dkg_id |-> m.dkg_id, signer_id |-> m.signer_id,
     commitments |-> Each(m.comms, PartyCommitmentProto)]

SignerDkgPublicSharesTry(p) ==
    {[dkg_id |-> p.dkg_id, signer_id |-> p.signer_id, comms |-> c] :
        c \in Repeated(p.commitments, PartyCommitmentTry)}

\* All the public shares of a round, kept by signer id beside the SignerState.
DkgPublicSharesProto(m) == [shares |-> Each(m, SignerDkgPublicSharesProto)]

DkgPublicSharesTry(p) == Repeated(p.shares, SignerDkgPublicSharesTry)

DkgBeginProto(m) == [dkg_id |-> m.dkg_id]

DkgBeginTry(p) == {[dkg_id |-> p.dkg_id]}

DkgPrivateBeginProto(m) == [dkg_id |-> m.dkg_id, signer_ids |-> m.signer_ids, key_ids |-> m.key_ids]

DkgPrivateBeginTry(p) ==
    {[dkg_id |-> p.dkg_id, signer_ids |-> p.signer_ids, key_ids |-> p.key_ids]}

DkgEndBeginProto(m) == [dkg_id |-> m.dkg_id, signer_ids |-> m.signer_ids, key_ids |-> m.key_ids]

DkgEndBeginTry(p) == {[dkg_id |-> p.dkg_id, signer_ids |-> p.signer_ids, key_ids |-> p.key_ids]}

DkgPrivateSharesProto(m) ==
    [dkg_id |-> m.dkg_id, signer_id |-> m.signer_id,
     shares |-> Each(m.shares, LAMBDA s :
        [source_signer_id |-> s[1],
         encrypted_shares |-> Each(s[2], LAMBDA e :
            [signer_id |-> e[1], encrypted_secret_share |-> e[2]])])]

DkgPrivateSharesTry(p) ==
    {[dkg_id |-> p.dkg_id, signer_id |-> p.signer_id, shares |-> s] : s \in
        Repeated(p.shares, LAMBDA s :
            {<<s.source_signer_id, o>> : o \in Orders(Each(s.encrypted_shares, LAMBDA e :
                <<e.signer_id, e.encrypted_secret_share>>))})}

TupleProofProto(t) ==
    [combined_commitment |-> Opt(PointProto(t.rB)),
     signature |-> Opt([random_commitment |-> Opt(PointProto(t.R)),
                        response |-> Opt(ScalarProto(t.z))])]

TupleProofTry(p) ==
    {[R |-> r, rB |-> b, z |-> z] :
        r \in UNION {Required(s.random_commitment, PointTry) : s \in p.signature},
        b \in Required(p.combined_commitment, PointTry),
        z \in UNION {Required(s.response, ScalarTry) : s \in p.signature}}

BadPrivateShareProto(b) ==
    [shared_key |-> Opt(PointProto(b.shared_key)), tuple_proof |-> Opt(TupleProofProto(b.tuple_proof))]

BadPrivateShareTry(p) ==
    {[shared_key |-> k, tuple_proof |-> t] :
        k \in Required(p.shared_key, PointTry), t \in Required(p.tuple_proof, TupleProofTry)}

\* HashMaps and HashSets become maps that are sorted by their keys.
BadPrivateSharesProto(m) ==
    Each(SortSeq(m, LAMBDA a, b : a[1] < b[1]), LAMBDA e : <<e[1], BadPrivateShareProto(e[2])>>)

BadPrivateSharesTry(p) ==
    UNION {Orders(m) : m \in
        Repeated(p, LAMBDA e : {<<e[1], v>> : v \in BadPrivateShareTry(e[2])})}

DkgStatusProto(s) ==
    [mode |-> Opt(IF s[1] = "BadPrivateShares" THEN <<s[1], BadPrivateSharesProto(s[2])>>
                  ELSE <<s[1], SetToSortSeq(s[2], <)>>)]

DkgStatusTry(p) ==
    UNION {{<<m[1], v>> : v \in IF m[1] = "BadPrivateShares" THEN BadPrivateSharesTry(m[2])
                                ELSE {Range(m[2])}} : m \in p.mode}

DkgEndProto(m) ==
    [dkg_id |-> m.dkg_id, signer_id |-> m.signer_id, status |-> Opt(DkgStatusProto(m.status))]

DkgEndTry(p) ==
    {[dkg_id |-> p.dkg_id, signer_id |-> p.signer_id, status |-> s] :
        s \in Required(p.status, DkgStatusTry)}

SignatureTypeProto(t) ==
    [signature_type |-> Opt(
        IF t[1] = "Taproot"
        THEN <<t[1], [merkle_root |-> {[root |-> Opt(Uint256Proto(r))] : r \in t[2]}]>>
        ELSE <<t[1], << >>>>)]

SignatureTypeTry(p) ==
    UNION {{<<t[1], r>> : r \in
                IF t[1] = "Taproot"
                THEN Optional(t[2].merkle_root, LAMBDA m : Required(m.root, Uint256Try))
                ELSE {{}}} : t \in p.signature_type}

NonceRequestProto(m) ==
    [dkg_id |-> m.dkg_id, sign_id |-> m.sign_id, sign_iter_id |-> m.sign_iter_id,
     message |-> m.message, signature_type |-> Opt(SignatureTypeProto(m.signature_type))]

NonceRequestTry(p) ==
    {[dkg_id |-> p.dkg_id, sign_id |-> p.sign_id, sign_iter_id |-> p.sign_iter_id,
      message |-> p.message, signature_type |-> t] :
        t \in Required(p.signature_type, SignatureTypeTry)}

PublicNonceProto(n) == [nonce_d |-> Opt(PointProto(n.D)), nonce_e |-> Opt(PointProto(n.E))]

PublicNonceTry(p) ==
    {[D |-> d, E |-> e] : d \in Required(p.nonce_d, PointTry), e \in Required(p.nonce_e, PointTry)}

NonceResponseProto(m) ==
    [dkg_id |-> m.dkg_id, sign_id |-> m.sign_id, sign_iter_id |-> m.sign_iter_id,
     signer_id |-> m.signer_id, key_ids |-> m.key_ids,
     nonces |-> Each(m.nonces, PublicNonceProto), message |-> m.message]

NonceResponseTry(p) ==
    {[dkg_id |-> p.dkg_id, sign_id |-> p.sign_id, sign_iter_id |-> p.sign_iter_id,
      signer_id |-> p.signer_id, key_ids |-> p.key_ids, nonces |-> n, message |-> p.message] :
        n \in Repeated(p.nonces, PublicNonceTry)}

SignatureShareRequestProto(m) ==
    [dkg_id |-> m.dkg_id, sign_id |-> m.sign_id, sign_iter_id |-> m.sign_iter_id,
     message |-> m.message, nonce_responses |-> Each(m.nonce_responses, NonceResponseProto),
     signature_type |-> Opt(SignatureTypeProto(m.signature_type))]

SignatureShareRequestTry(p) ==
    {[dkg_id |-> p.dkg_id, sign_id |-> p.sign_id, sign_iter_id |-> p.sign_iter_id,
      nonce_responses |-> n, message |-> p.message, signature_type |-> t] :
        n \in Repeated(p.nonce_responses, NonceResponseTry),
        t \in Required(p.signature_type, SignatureTypeTry)}

SignatureShareProto(s) ==
    [id |-> s.id, signature_share |-> Opt(ScalarProto(s.z_i)), key_ids |-> s.key_ids]

SignatureShareTry(p) ==
    {[id |-> p.id, z_i |-> z, key_ids |-> p.key_ids] : z \in Required(p.signature_share, ScalarTry)}

SignatureShareResponseProto(m) ==
    [dkg_id |-> m.dkg_id, sign_id |-> m.sign_id, sign_iter_id |-> m.sign_iter_id,
     signer_id |-> m.signer_id, signature_shares |-> Each(m.signature_shares, SignatureShareProto)]

SignatureShareResponseTry(p) ==
    {[dkg_id |-> p.dkg_id, sign_id |-> p.sign_id, sign_iter_id |-> p.sign_iter_id,
      signer_id |-> p.signer_id, signature_shares |-> s] :
        s \in Repeated(p.signature_shares, SignatureShareTry)}
-----------------------------------------------------------------------------
(* Payloads and signed messages                                            *)

WstsInnerProto(m) ==
    CASE m[1] = "DkgBegin" -> DkgBeginProto(m[2])
      [] m[1] = "DkgPublicShares" -> SignerDkgPublicSharesProto(m[2])
      [] m[1] = "DkgPrivateBegin" -> DkgPrivateBeginProto(m[2])
      [] m[1] = "DkgPrivateShares" -> DkgPrivateSharesProto(m[2])
      [] m[1] = "DkgEndBegin" -> DkgEndBeginProto(m[2])
      [] m[1] = "DkgEnd" -> DkgEndProto(m[2])
      [] m[1] = "NonceRequest" -> NonceRequestProto(m[2])
      [] m[1] = "NonceResponse" -> NonceResponseProto(m[2])
      [] m[1] = "SignatureShareRequest" -> SignatureShareRequestProto(m[2])
      [] m[1] = "SignatureShareResponse" -> SignatureShareResponseProto(m[2])

WstsInnerTry(m) ==
    {<<m[1], v>> : v \in
        CASE m[1] = "DkgBegin" -> DkgBeginTry(m[2])
          [] m[1] = "DkgPublicShares" -> SignerDkgPublicSharesTry(m[2])
          [] m[1] = "DkgPrivateBegin" -> DkgPrivateBeginTry(m[2])
          [] m[1] = "DkgPrivateShares" -> DkgPrivateSharesTry(m[2])
          [] m[1] = "DkgEndBegin" -> DkgEndBeginTry(m[2])
          [] m[1] = "DkgEnd" -> DkgEndTry(m[2])
          [] m[1] = "NonceRequest" -> NonceRequestTry(m[2])
          [] m[1] = "NonceResponse" -> NonceResponseTry(m[2])
          [] m[1] = "SignatureShareRequest" -> SignatureShareRequestTry(m[2])
          [] m[1] = "SignatureShareResponse" -> SignatureShareResponseTry(m[2])}

\* A round is named by the sweep, by the new key or by the digest of DKG.
WstsMessageId(id) ==
    CASE id[1] = "Sweep" -> <<id[1], BitcoinTxidProto(id[2])>>
      [] id[1] = "DkgVerification" -> <<id[1], PublicKeyProto(id[2])>>
      [] id[1] = "Dkg" -> <<id[1], Uint256Proto(id[2])>>

WstsMessageIdTry(id) ==
    {<<id[1], v>> : v \in
        CASE id[1] = "Sweep" -> BitcoinTxidTry(id[2])
          [] id[1] = "DkgVerification" -> PublicKeyTry(id[2])
          [] id[1] = "Dkg" -> Uint256Try(id[2])}

WstsMessageProto(m) ==
    [id |-> Opt(WstsMessageId(m.id)), inner |-> Opt(<<m.inner[1], WstsInnerProto(m.inner)>>)]

WstsMessageTry(p) ==
    {[id |-> i, inner |-> m] : i \in Required(p.id, WstsMessageIdTry),
                               m \in Required(p.inner, WstsInnerTry)}

TxRequestIdsProto(r) ==
    [deposits |-> Each(r.deposits, OutPointProto),
     withdrawals |-> Each(r.withdrawals, QualifiedRequestIdProto)]

TxRequestIdsTry(p) ==
    {[deposits |-> d, withdrawals |-> w] : d \in Repeated(p.deposits, OutPointTry),
                                           w \in Repeated(p.withdrawals, QualifiedRequestIdTry)}

\* The deprecated fees of the last sweep are passed on as they are.
BitcoinPreSignRequestProto(r) ==
    [request_package |-> Each(r.request_package, TxRequestIdsProto), fee_rate |-> r.fee_rate,
     last_fees |-> r.last_fees]

BitcoinPreSignRequestTry(p) ==
    {[request_package |-> r, fee_rate |-> p.fee_rate, last_fees |-> p.last_fees] :
        r \in Repeated(p.request_package, TxRequestIdsTry)}

BitcoinPreSignAck == << >>

PayloadProto(m) ==
    CASE m[1] = "SignerDepositDecision" -> SignerDepositDecisionProto(m[2])
      [] m[1] = "SignerWithdrawalDecision" -> SignerWithdrawalDecisionProto(m[2])
      [] m[1] = "StacksTransactionSignRequest" -> StacksTransactionSignRequestProto(m[2])
      [] m[1] = "StacksTransactionSignature" -> StacksTransactionSignatureProto(m[2])
      [] m[1] = "WstsMessage" -> WstsMessageProto(m[2])
      [] m[1] = "BitcoinPreSignRequest" -> BitcoinPreSignRequestProto(m[2])
      [] m[1] = "BitcoinPreSignAck" -> BitcoinPreSignAck

PayloadTry(m) ==
    {<<m[1], v>> : v \in
        CASE m[1] = "SignerDepositDecision" -> SignerDepositDecisionTry(m[2])
          [] m[1] = "SignerWithdrawalDecision" -> SignerWithdrawalDecisionTry(m[2])
          [] m[1] = "StacksTransactionSignRequest" -> StacksTransactionSignRequestTry(m[2])
          [] m[1] = "StacksTransactionSignature" -> StacksTransactionSignatureTry(m[2])
          [] m[1] = "WstsMessage" -> WstsMessageTry(m[2])
          [] m[1] = "BitcoinPreSignRequest" -> BitcoinPreSignRequestTry(m[2])
          [] m[1] = "BitcoinPreSignAck" -> {BitcoinPreSignAck}}

ToMessage(payload, bitcoin_chain_tip) ==
    [bitcoin_chain_tip |-> bitcoin_chain_tip, payload |-> payload]

SignerMessageProto(m) ==
    [bitcoin_chain_tip |-> Opt(BitcoinBlockHashProto(m.bitcoin_chain_tip)),
     payload |-> Opt(<<m.payload[1], PayloadProto(m.payload)>>)]

SignerMessageTry(p) ==
    {[bitcoin_chain_tip |-> b, payload |-> m] :
        b \in Required(p.bitcoin_chain_tip, BitcoinBlockHashTry),
        m \in Required(p.payload, PayloadTry)}

SignedProto(m) ==
    [signature |-> Opt(EcdsaSignatureProto(m.signature)),
     signer_public_key |-> Opt(PublicKeyProto(m.signer_public_key)),
     signer_message |-> Opt(SignerMessageProto(m.inner))]

SignedTry(p) ==
    {[inner |-> m, signature |-> s, signer_public_key |-> k] :
        m \in Required(p.signer_message, SignerMessageTry),
        s \in Required(p.signature, EcdsaSignatureTry),
        k \in Required(p.signer_public_key, PublicKeyTry)}

(***************************************************************************)
(* The encoding of a Signed protobuf is the sequence of its fields, in the *)
(* order of their tags.  A missing field is not encoded.  A field with an  *)
(* unknown tag comes from a sender with a newer schema: it is skipped, but *)
(* its bytes are part of what was signed.  Hashing is injective.           *)
(***************************************************************************)
TagOf == <<"signature", "signer_public_key", "signer_message">>

EncodeToVec(p) ==
    LET fields == [t \in 1..3 |-> <<t, p[TagOf[t]]>>]
    IN  [i \in 1..Len(SelectSeq(fields, LAMBDA f : f[2] # {})) |->
            LET f == SelectSeq(fields, LAMBDA g : g[2] # {})[i]
            IN  <<f[1], CHOOSE v \in f[2] : TRUE>>]

TypeTag(m) == m.payload[1]

Digest(type_tag, bytes) == <<type_tag, bytes>>

ToDigest(m, key) ==
    Digest(TypeTag(m), EncodeToVec([signature |-> {},
                                    signer_public_key |-> Opt(PublicKeyProto(key)),
                                    signer_message |-> Opt(SignerMessageProto(m))]))

\* An ECDSA signature, which only the holder of the key makes.
SignatureOver(key, digest) == [r |-> <<1, 1, 1, key.x[1]>>, s |-> <<1, 2, key, digest>>]

SignEcdsa(m, key) ==
    [signature |-> SignatureOver(key, ToDigest(m, key)), inner |-> m, signer_public_key |-> key]

VerifyDigest(m, digest) == m.signature = SignatureOver(m.signer_public_key, digest)

\* A field that occurs again is merged: what it sets replaces the earlier.
\* Senders repeat no field but, across versions, the signature.
MergeField(message, field) ==
    IF field[1] \notin DOMAIN TagOf THEN message
    ELSE LET old == message[TagOf[field[1]]] IN
         [message EXCEPT ![TagOf[field[1]]] =
            {IF old = {} THEN field[2]
             ELSE LET was == CHOOSE v \in old : TRUE IN
                  [f \in DOMAIN field[2] |->
                    IF field[1] = 1 /\ field[2][f] = {} THEN was[f] ELSE field[2][f]]}]

Merged(data) ==
    FoldLeft(MergeField, [signature |-> {}, signer_public_key |-> {}, signer_message |-> {}], data)

InTagOrder(data) == \A i \in 2..Len(data) : data[i][1] >= data[i - 1][1]

\* mutant: the digest is computed again from the decoded message
DecodeAndReencode(data) ==
    {<<m, ToDigest(m.inner, m.signer_public_key)>> :
        m \in IF InTagOrder(data) THEN SignedTry(Merged(data)) ELSE {}}

DecodeWithDigest(data) ==
    LET last == Max({0} \cup {i \in DOMAIN data : data[i][1] = 1})
    IN  {<<m, Digest(TypeTag(m.inner), SubSeq(data, last + 1, Len(data)))>> :
            m \in IF InTagOrder(data) THEN SignedTry(Merged(data)) ELSE {}}
-----------------------------------------------------------------------------
(* The optional fields of the generated protobuf types                     *)

CryptoOptions ==
    [PublicKey |-> {"x_only_public_key"}, RecoverableSignature |-> {"lower_bits", "upper_bits"},
     EcdsaSignature |-> {"lower_bits", "upper_bits"}, Scalar |-> {"value"},
     Point |-> {"x_coordinate"}]

BitcoinOptions ==
    [BitcoinTxid |-> {"txid"}, BitcoinBlockHash |-> {"block_hash"}, OutPoint |-> {"txid"}]

StacksOptions == [StacksBlockId |-> {"block_id"}, StacksTxid |-> {"txid"}]

RequestOptions ==
    [QualifiedRequestId |-> {"txid", "block_hash"}, SignerDepositDecision |-> {"outpoint"},
     SignerWithdrawalDecision |-> {"block_id", "txid"},
     StacksTransactionSignature |-> {"txid", "signature"},
     StacksTransactionSignRequest |-> {"aggregate_key", "txid", "contract_tx"}]

ContractCallOptions ==
    [CompleteDeposit |-> {"outpoint", "recipient", "deployer", "sweep_txid", "sweep_block_hash"},
     AcceptWithdrawal |-> {"id", "outpoint", "deployer", "sweep_block_hash"},
     RejectWithdrawal |-> {"id", "deployer"}, RotateKeys |-> {"aggregate_key", "deployer"}]

SignerMessageOptions ==
    [SignerMessage |-> {"bitcoin_chain_tip", "payload"}, WstsMessage |-> {"id", "inner"},
     Signed |-> {"signature", "signer_public_key", "signer_message"},
     BitcoinPreSignRequest |-> {"last_fees"}]

DkgOptions ==
    [SignerState |-> {"group_key"}, PartyState |-> {"polynomial"},
     PrivateKeyShare |-> {"private_key"}, PartyCommitment |-> {"commitment"}]

SigningOptions ==
    [DkgEnd |-> {"status"}, SignatureType |-> {"signature_type"},
     NonceRequest |-> {"signature_type"}, SignatureShareRequest |-> {"signature_type"},
     PolyCommitment |-> {"id"}]

ProofOptions ==
    [ProofIdentifier |-> {"id", "schnorr_response", "aggregate_commitment"},
     DkgStatus |-> {"mode"}, BadPrivateShare |-> {"shared_key", "tuple_proof"},
     TupleProof |-> {"combined_commitment", "signature"},
     PublicNonce |-> {"nonce_d", "nonce_e"}, SignatureShare |-> {"signature_share"}]

Options ==
    CryptoOptions @@ BitcoinOptions @@ StacksOptions @@ RequestOptions @@ ContractCallOptions
        @@ SignerMessageOptions @@ DkgOptions @@ SigningOptions @@ ProofOptions

\* The fields that a message may lack.
MayLack ==
    {<<"StacksTransactionSignRequest", "aggregate_key">>, <<"BitcoinPreSignRequest", "last_fees">>,
     <<"PartyState", "polynomial">>}
=============================================================================
