-------------------------------- MODULE Accel --------------------------------
(* The Accelerate routines of tiger_host_accel.c and sgemm of                 *)
(* tiger_host_linalg.c: what WSOLA searches with and what it splices with.    *)
(* Arithmetic is exact, in the field of Prime elements, which has roots of    *)
(* unity of every order up to Largest; a cosine is the even half of one and a *)
(* sine the odd half, so the identities between them hold as they do of the   *)
(* reals.  What needs an order (a magnitude, a maximum, a clamp) is over the  *)
(* integers.  Memory is a function of its address, a vector is                *)
(* [at, by]: where it begins and its stride.                                  *)
EXTENDS Integers, FiniteSetsExt

Prime == 97
Largest == 16
Root == 8            \* of order Largest
Imag == 22           \* its square is -1
Half == 49

Mod(x) == x % Prime
RECURSIVE Pow(_, _)
Pow(x, n) == IF n = 0 THEN 1 ELSE Mod(x * Pow(x, n - 1))

\* cos and sin of 2 pi k / n.
Unit(k, n) == Pow(Root, (k * (Largest \div n)) % Largest)
CosTable == [k \in 0..(Largest - 1) |-> Mod(Half * (Unit(k, Largest) + Unit(-k, Largest)))]
SinTable == [k \in 0..(Largest - 1) |->
               Mod(Half * (Unit(-k, Largest) - Unit(k, Largest)) * Imag)]
Cos(k, n) == CosTable[(k * (Largest \div n)) % Largest]
Sin(k, n) == SinTable[(k * (Largest \div n)) % Largest]

\* Complex numbers, and vectors of them by index from 0.
C(re, im) == [re |-> Mod(re), im |-> Mod(im)]
Plus(a, b) == C(a.re + b.re, a.im + b.im)
Minus(a, b) == C(a.re - b.re, a.im - b.im)
Times(a, b) == C(a.re * b.re - a.im * b.im, a.re * b.im + a.im * b.re)
Scaled(x, a) == C(x * a.re, x * a.im)
Conj(a) == C(a.re, -a.im)

-----------------------------------------------------------------------------
(* The setup: the butterfly angles stage by stage, so that a smaller          *)
(* transform's are a prefix, and the angles that recombine the two halves of  *)
(* a transform of exactly this size.                                          *)

None == [n |-> 0, ready |-> FALSE, t |-> <<>>, r |-> <<>>]

StageAngle(i) == LET half == CHOOSE h \in {1, 2, 4, 8} : h - 1 <= i /\ i < 2 * h - 1
                 IN  C(Cos(i - (half - 1), 2 * half), Sin(i - (half - 1), 2 * half))

\* The tables may not be had (malloc); the setup is then of no use but its size.
create_fftsetup(n, memory) ==
  [n |-> n, ready |-> memory /\ n > 1,
   t |-> [i \in 0..(n - 2) |-> StageAngle(i)],
   r |-> [k \in 0..(n \div 2 - 1) |-> C(Cos(k, n), -Sin(k, n))]]

\* One step of the bit-reversed counter: add at the top, carry downwards.
RECURSIVE Carry(_, _)
Carry(j, bit) == IF (j \div bit) % 2 = 1 THEN Carry(j - bit, bit \div 2) ELSE j + bit

RECURSIVE Swaps(_, _, _, _)
Swaps(v, i, j, m) ==
  IF i = m THEN v
  ELSE LET k == Carry(j, m \div 2)
       IN  Swaps(IF i < k THEN [v EXCEPT ![i] = v[k], ![k] = v[i]] ELSE v, i + 1, k, m)

\* The angle of butterfly k of a stage: from the setup, or computed.
Angle(setup, half, k, sign) ==
  LET a == IF setup.ready THEN setup.t[half - 1 + k]
           ELSE C(Cos(k, 2 * half), Sin(k, 2 * half))
  IN  IF sign < 0 THEN Conj(a) ELSE a

RECURSIVE Stages(_, _, _, _, _)
Stages(v, len, m, sign, setup) ==
  IF len > m THEN v
  ELSE LET half == len \div 2
           low(i) == i % len < half
           other(i) == IF low(i) THEN i + half ELSE i - half
           upper(i) == Times(v[i], Angle(setup, half, i % half, sign))
       IN  Stages([i \in 0..(m - 1) |-> IF low(i) THEN Plus(v[i], upper(other(i)))
                                        ELSE Minus(v[other(i)], upper(i))],
                  2 * len, m, sign, setup)

fft_complex(v, m, sign, setup) == Stages(Swaps(v, 1, 0, m), 2, m, sign, setup)

\* The half-bin twiddle, from the setup only if it was made for this size.
\* From any setup that has tables.
TwiddleOfAny(setup, k, n) == IF setup.ready THEN setup.r[k] ELSE C(Cos(k, n), -Sin(k, n))
Twiddle(setup, k, n) == IF setup.ready /\ setup.n = n THEN setup.r[k]
                        ELSE C(Cos(k, n), -Sin(k, n))

\* The packed transform of a real signal of n samples in n / 2 slots.
Forward(v, n, setup) ==
  LET h == n \div 2
      f == fft_complex(v, h, -1, setup)
      even(k) == Scaled(Half, Plus(f[k], Conj(f[h - k])))
      odd(k) == Scaled(Half, C(f[k].im + f[h - k].im, f[h - k].re - f[k].re))
  IN  [k \in 0..(h - 1) |->
         Scaled(2, IF k = 0 THEN C(f[0].re + f[0].im, f[0].re - f[0].im)
                   ELSE Plus(even(k), Times(odd(k), Twiddle(setup, k, n))))]

\* The half-spectrum unpacked by conjugate symmetry, transformed, interleaved.
Backward(v, n, setup) ==
  LET h == n \div 2
      full == [k \in 0..(n - 1) |-> CASE k = 0 -> C(v[0].re, 0)
                                      [] k = h -> C(v[0].im, 0)
                                      [] k < h -> v[k]
                                      [] OTHER -> Conj(v[n - k])]
      g == fft_complex(full, n, 1, setup)
  IN  [k \in 0..(h - 1) |-> C(g[2 * k].re, g[2 * k + 1].re)]

\* vDSP_fft_zrip on split memory: nothing for less than two samples, nor for a
\* setup made for fewer.
fft_zrip(setup, mem, z, n, direction) ==
  LET h == n \div 2
      v == [k \in 0..(h - 1) |-> mem[z.at + k * z.by]]
      w == IF direction = "forward" THEN Forward(v, n, setup) ELSE Backward(v, n, setup)
  IN  IF h = 0 \/ (setup # None /\ setup.n < n) THEN mem
      ELSE [a \in DOMAIN mem |->
              IF \E k \in 0..(h - 1) : a = z.at + k * z.by
              THEN w[(a - z.at) \div z.by] ELSE mem[a]]

-----------------------------------------------------------------------------
(* Elementwise.  Reading a vector, and writing one over memory.               *)

At(mem, v, i) == mem[v.at + i * v.by]
Write(mem, v, n, f(_)) ==
  [a \in DOMAIN mem |-> IF \E i \in 0..(n - 1) : a = v.at + i * v.by
                        THEN f(CHOOSE i \in 0..(n - 1) : a = v.at + i * v.by)
                        ELSE mem[a]]
SumOver(n, f(_)) == FoldSet(LAMBDA i, s : s + f(i), 0, 0..(n - 1))
Abs(x) == IF x < 0 THEN -x ELSE x

\* Interleaved to split and back: sample 2i is the real part of slot i.
ctoz(c, by, n) == [i \in 0..(n - 1) |-> C(c[i * by], c[i * by + 1])]
ztoc(z, mem, by, n) == [a \in DOMAIN mem |->
  IF a \div by < n /\ a % by < 2
  THEN IF a % by = 0 THEN z[a \div by].re ELSE z[a \div by].im ELSE mem[a]]

zvcmul(a, b, n) == [i \in 0..(n - 1) |-> Times(Conj(a[i]), b[i])]

svemg(mem, a, n) == SumOver(n, LAMBDA i : Abs(At(mem, a, i)))
vmsb(mem, a, b, c, d, n) ==
  Write(mem, d, n, LAMBDA i : At(mem, a, i) * At(mem, b, i) - At(mem, c, i))
vmma(mem, a, b, c, d, e, n) ==
  Write(mem, e, n, LAMBDA i : At(mem, a, i) * At(mem, b, i)
                              + At(mem, c, i) * At(mem, d, i))

\* The maximum, the first of them, and its index times the stride.
maxvi(mem, a, n) ==
  LET best == CHOOSE i \in 0..(n - 1) :
                /\ \A j \in 0..(n - 1) : At(mem, a, j) <= At(mem, a, i)
                /\ \A j \in 0..(i - 1) : At(mem, a, j) < At(mem, a, i)
  IN  [top |-> At(mem, a, best), index |-> best * Abs(a.by)]

\* The Hann window, of which the engine may want the first half only.
hann_window(n, half) ==
  [k \in 0..((IF half THEN (n + 1) \div 2 ELSE n) - 1) |-> Mod(Half * (1 - Cos(k, n)))]

-----------------------------------------------------------------------------
\* sgemm: C := alpha A B + beta C, rows or columns first, either operand
\* transposed; a zero alpha or beta leaves its operand unread.
Entry(row, lead, i, j) == IF row THEN i * lead + j ELSE j * lead + i

sgemm(row, ta, tb, m, n, k, alpha, a, lda, b, ldb, beta, c, ldc) ==
  LET first(i, h) == a[IF ta THEN Entry(row, lda, h, i) ELSE Entry(row, lda, i, h)]
      second(h, j) == b[IF tb THEN Entry(row, ldb, j, h) ELSE Entry(row, ldb, h, j)]
      sum(i, j) == IF alpha = 0 THEN 0
                   ELSE SumOver(k, LAMBDA h : first(i, h) * second(h, j))
      cell(x) == {ij \in (0..(m - 1)) \X (0..(n - 1)) : x = Entry(row, ldc, ij[1], ij[2])}
  IN  [x \in DOMAIN c |->
         IF cell(x) = {} THEN c[x]
         ELSE LET ij == CHOOSE p \in cell(x) : TRUE
              IN  alpha * sum(ij[1], ij[2]) + (IF beta = 0 THEN 0 ELSE beta * c[x])]

=============================================================================
