-------------------------------- MODULE Crypt --------------------------------
(***************************************************************************)
(* The cipher of the chat (crypt.c) and the program that makes and cracks   *)
(* keys (keygen.c).  long is wide enough for the products of these numbers; *)
(* totient computes with doubles, which are exact for them.                 *)
(***************************************************************************)
EXTENDS Integers

FPE == -1   \* a division by zero kills the program

isPrime(n) ==
  /\ n > 0
  /\ IF n % 2 = 0 THEN n = 2
     ELSE IF n % 3 = 0 THEN n = 3
     ELSE \A i \in {k \in 5 .. n : k % 2 = 1 /\ k * k <= n} : n % i # 0

\* The numbers from 2 on, counted until the n-th prime.
getNthPrime(n) ==
  LET next(p) == CHOOSE q \in p + 1 .. 2 * p :
        isPrime(q) /\ \A r \in p + 1 .. q - 1 : ~isPrime(r)
      prime[k \in 1 .. n] == IF k = 1 THEN 2 ELSE next(prime[k - 1])
  IN  IF n <= 0 THEN 0 ELSE prime[n]

GCD(a, b) ==
  LET gcd[p \in {<<a, b>>} \cup (0 .. b) \X (0 .. b)] ==
        IF p[2] # 0 THEN gcd[<<p[2], p[1] % p[2]>>] ELSE p[1]
  IN  gcd[<<a, b>>]

totient(n) ==
  LET prod[i \in 1 .. n] ==
        IF i = 1 THEN n
        ELSE IF n % i = 0 /\ isPrime(i) THEN prod[i - 1] - prod[i - 1] \div i
        ELSE prod[i - 1]
  IN  IF n < 2 THEN n ELSE prod[n]

\* Mutant: the first number will do.
FirstSearched(x) == (3 * x) \div 2 + 1

\* The first number from 1.5 x + 1 on that has no divisor in common with x.
coprime(x) ==
  LET start == (3 * x) \div 2 + 1
  IN  CHOOSE search \in start .. start + x + 1 :
        GCD(x, search) = 1 /\ \A s \in start .. search - 1 : GCD(x, s) # 1

\* b multiplications; none for b < 1.
modulo(a, b, c) ==
  LET t[k \in 0 .. b] == IF k = 0 THEN 1 ELSE (t[k - 1] * a) % c
  IN  IF b < 1 THEN 1 ELSE IF c = 0 THEN FPE ELSE t[b]

mod_inverse(base, exp, m) == modulo(base, exp, m)
endecrypt(msg, key, c) == modulo(msg, key, c)

\* The keys made from the n-th and the m-th prime.
generate_from_primes(n, m) ==
  LET p1 == getNthPrime(n)
      p2 == getNthPrime(m)
      t == totient(p1) * totient(p2)
      e == coprime(t)
      d == mod_inverse(e, totient(t) - 1, t)
  IN  [public |-> [a |-> e, b |-> p1 * p2], private |-> [a |-> d, b |-> p1 * p2]]

\* Through both keys and back; nothing comes back through FPE.
ThereAndBack(keys, msg) ==
  LET cipher == endecrypt(msg, keys.public.a, keys.public.b)
  IN  IF cipher = FPE THEN FPE ELSE endecrypt(cipher, keys.private.a, keys.private.b)

\* keygen's search for a key that deciphers 13; it is then tried on a text, but
\* is called valid whether or not the text comes back.
crack(n, m, limit) ==
  LET original == 13
      crypted == endecrypt(original, n, m)
      keys == {i \in 2 .. limit : endecrypt(crypted, i, m) = original}
  IN  IF keys = {} THEN 0 ELSE CHOOSE d \in keys : \A i \in keys : d <= i

==============================================================================
