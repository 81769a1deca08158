------------------------------ MODULE Wallets -------------------------------
(***************************************************************************)
(* The optional wallet of an account (wallet-panel.tsx and the /me/wallet   *)
(* routes): the account fetches a challenge, its wallet signs it, and the   *)
(* server keeps nothing between: it rebuilds the message from the account   *)
(* and the time the request names.  A signature is the record of what was   *)
(* signed by whom, and may be sent again by anyone.                        *)
(***************************************************************************)
EXTENDS Ledger, PriceFeed

CONSTANTS
    Address,        \* wallets
    NoAddress,
    ChallengeTTL    \* WALLET_CHALLENGE_TTL_MS

ASSUME WalletsAssumption == NoAddress \notin Address /\ ChallengeTTL \in Nat

VARIABLES
    wallet,     \* users.wallet
    linking,    \* the wallet panel of each user
    signatures  \* the signatures that were made

walletVars == <<wallet, linking, signatures>>

NotLinking == [phase |-> "idle"]

WalletsInit ==
    /\ wallet = [u \in User |-> NoAddress]
    /\ linking = [u \in User |-> NotLinking]
    /\ signatures = {}

\* walletChallenge, by what it tells apart.
Challenge(u, issued) == <<u, issued>>

\* connect(): the challenge, for which nothing is remembered.
AskChallenge(u) ==
    /\ Authorised(u)
    /\ linking[u].phase = "idle"
    /\ linking' = [linking EXCEPT ![u] = [phase |-> "signing", issued |-> clock]]
    /\ UNCHANGED <<wallet, signatures>>

\* signWalletChallenge: whichever account the browser wallet has selected.
SignChallenge(u, a) ==
    /\ linking[u].phase = "signing"
    /\ LET s == [by |-> a, message |-> Challenge(u, linking[u].issued)] IN
         /\ signatures' = signatures \cup {s}
         /\ linking' = [linking EXCEPT ![u] =
              [phase |-> "saving", issued |-> @.issued, signature |-> s]]
    /\ UNCHANGED wallet

\* The user declines, or a request fails.
LinkFails(u) ==
    /\ linking[u].phase # "idle"
    /\ linking' = [linking EXCEPT ![u] = NotLinking]
    /\ UNCHANGED <<wallet, signatures>>

\* Mutant of Proves: the message is not compared.
MutProves(s, u, issued) == clock <= issued + ChallengeTTL

\* POST /me/wallet: recent, and recovered over our message for this account.
Proves(s, u, issued) ==
    /\ clock <= issued + ChallengeTTL
    /\ s.message = Challenge(u, issued)

SaveWallet(u) ==
    /\ linking[u].phase = "saving"
    /\ wallet' = IF Proves(linking[u].signature, u, linking[u].issued)
                 THEN [wallet EXCEPT ![u] = linking[u].signature.by] ELSE wallet
    /\ linking' = [linking EXCEPT ![u] = NotLinking]
    /\ UNCHANGED signatures

\* A request with a signature that is around, from any session.
SendAgain(u, s) ==
    /\ Authorised(u)
    /\ Proves(s, u, s.message[2])
    /\ wallet' = [wallet EXCEPT ![u] = s.by]
    /\ UNCHANGED <<linking, signatures>>

\* DELETE /me/wallet
Unlink(u) ==
    /\ Authorised(u)
    /\ wallet[u] # NoAddress
    /\ wallet' = [wallet EXCEPT ![u] = NoAddress]
    /\ UNCHANGED <<linking, signatures>>
=============================================================================
