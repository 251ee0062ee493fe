---------------------------- MODULE IdempotencyStore ----------------------------
(***************************************************************************)
(* The part of rho-kit's idempotency.Store that the webhook handler uses,  *)
(* as pure operators on a store.  The implementation is not in this        *)
(* repository: the operators say what webhooks/handler.go relies on.  A    *)
(* key is absent, locked under the token TryLock returned, or done (a      *)
(* response was Set).  Set and Unlock under a token that does not hold the *)
(* lock change nothing (ErrLockLost).                                      *)
(***************************************************************************)
EXTENDS Naturals

Absent == [state |-> "absent", token |-> 0]

StoreType(Keys) ==
    [Keys -> [state: {"absent", "locked", "done"}, token: Nat]]

\* Store.Get reports a cached response only for a finished key.
Found(store, key) == store[key].state = "done"

\* Store.TryLock succeeds only on a key that is neither locked nor done.
Lockable(store, key) == store[key].state = "absent"

Lock(store, key, tok) ==
    [store EXCEPT ![key] = [state |-> "locked", token |-> tok]]

Owns(store, key, tok) == store[key] = [state |-> "locked", token |-> tok]

\* Store.Set: the lock becomes the cached response.
SetDone(store, key, tok) ==
    IF Owns(store, key, tok)
    THEN [store EXCEPT ![key] = [state |-> "done", token |-> tok]]
    ELSE store

\* Store.Unlock: the key can be claimed again.
Release(store, key, tok) ==
    IF Owns(store, key, tok) THEN [store EXCEPT ![key] = Absent] ELSE store
=============================================================================
