----------------------------- MODULE Dispatches -----------------------------
(***************************************************************************)
(* What the command buffers of src/vkzg.cpp are recorded from. A dispatch  *)
(* names its kernel, the buffer it writes, the buffers it reads, and a     *)
(* mode where the kernel has push constants that matter here. A buffer has *)
(* one value per blob; a table has its one value under blob 0.             *)
(***************************************************************************)
EXTENDS Domain

Dispatch(kernel, out, a, b, mode) ==
  <<[kernel |-> kernel, out |-> out, a |-> a, b |-> b, mode |-> mode]>>

\* A transform of size 2^(log1 + log2), of which the second pass scales by scale.
Ntt(out, between, in, roots, log1, log2, scale) ==
  LET mode == [log1 |-> log1, log2 |-> log2, scale |-> scale] IN
  Dispatch("ntt1", between, in, roots, mode) \o Dispatch("ntt2", out, between, roots, mode)

\* k_ntt_pass on blob b.
NttKernel(d, buf, b) ==
  LET N1 == 2 ^ d.mode.log1
      N2 == 2 ^ d.mode.log2 IN
  IF d.kernel = "ntt1" THEN PassOf(Pass1(N1 * N2, N1, N2), buf[d.b][0], 1, buf[d.a][b])
  ELSE PassOf(Pass2(N1 * N2, N1, N2), buf[d.b][0], d.mode.scale, buf[d.a][b])
=============================================================================
