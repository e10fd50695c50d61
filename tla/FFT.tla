-------------------------------- MODULE FFT ---------------------------------
(***************************************************************************)
(* Fourier transforms, convolution and deconvolution (fft.cpp).  The plans *)
(* are those of VkFFT, which transforms FLOAT elements, takes the extents  *)
(* of the real array and trusts the other array to be as large as they     *)
(* need.  The padded extents come from next_smooth: smooth is a parameter. *)
(***************************************************************************)
EXTENDS Tier8

\* The interleaved complex values of a real image of the given extents.
HermitianShape(shape) == [shape EXCEPT ![1] = (@ \div 2 + 1) * 2]

create_hermitian(m, input) ==
  Create(m, HermitianShape(Shape(m, input)), Array(m, input).dim, "COMPLEX")

\* Elements are taken for FLOAT, whatever the array says.
TakenForFloat(m, p) == Blame(m, Type(m, p) # "FLOAT", "misread")

\* Neither transform nor the pairwise kernels compare the sizes of their arrays.
ForwardTransform(m, input, output) ==
  LET spectrum == HermitianShape(Shape(m, input))
  IN Then([fit \in {Fit(TakenForFloat(m, input), Size(m, output) >= Elements(spectrum))} |->
  Return(Launch(fit, Gather, <<input>>, <<output>>, spectrum), output)])
InverseTransform(m, input, output) ==
  LET spectrum == HermitianShape(Shape(m, output))
  IN Then([fit \in {Fit(TakenForFloat(m, output), Size(m, input) >= Elements(spectrum))} |->
  execute(fit, Gather, <<input>>, output)])

performFFT(m, input, output) ==
  Then([made \in {IF output = Null THEN create_hermitian(m, input) ELSE Return(m, output)} |->
  ForwardTransform(made, input, Ret(made))])
performIFFT(m, input, output) == InverseTransform(Require(m, output # Null), input, output)

execOperationKernel(m, inputA, inputB, output) ==
  LET fit == Size(m, inputA) = Size(m, inputB) /\ Size(m, inputA) = Size(m, output)
  IN execute(Fit(m, fit), Elementwise, <<inputA, inputB>>, output)
execRemoveSmallValues(m, buffer) == execute(m, Elementwise, <<buffer>>, buffer)
execTotalVariationTerm(m, estimate, correction, variation) ==
  execute(m, Stencil, <<estimate, correction>>, variation)

performConvolution(m, input, psf, output) ==
  Then([fft_input \in {performFFT(m, input, Null)} |->
  Then([fft_psf \in {performFFT(fft_input, psf, Null)} |->
  Then([fft_out \in {CreateAs(fft_psf, Ret(fft_psf))} |->
  Then([product \in {execOperationKernel(fft_out, Ret(fft_input), Ret(fft_psf), Ret(fft_out))} |->
  performIFFT(product, Ret(fft_out), output)])])])])

\* The estimate is refined in place; a normalization loses its small values in place.
performDeconvolution(m, observe, psf, normal, estimate, iterations, use_tv) ==
  Then([reblurred \in {CreateAs(m, observe)} |->
  Then([made \in
      {IF estimate # Null THEN Return(reblurred, estimate)
       ELSE Then([new \in {CreateAs(reblurred, observe)} |->
            Return(CopyTo(new, observe, Ret(new)), Ret(new))])} |->
  Then([fft_psf \in {create_hermitian(made, psf)} |->
  Then([fft_estimate \in {create_hermitian(fft_psf, Ret(made))} |->
  Then([variation \in
          {IF use_tv THEN CreateAs(fft_estimate, observe) ELSE Return(fft_estimate, Null)} |->
  Then([normalized \in
          {IF normal = Null THEN variation ELSE execRemoveSmallValues(variation, normal)} |->
  Then([ready \in {performFFT(normalized, psf, Ret(fft_psf))} |->
  LET spectrum == Ret(fft_estimate)
      blurred == Ret(reblurred)
      estimated == Ret(made)
      Filtered(n, p) ==
        Then([transformed \in {ForwardTransform(n, p, spectrum)} |->
        Then([product \in {execOperationKernel(transformed, spectrum, Ret(fft_psf), spectrum)} |->
        InverseTransform(product, spectrum, blurred)])])
      Iterate(n, i) ==
        Then([ratio \in {execOperationKernel(Filtered(n, estimated), observe, blurred, blurred)} |->
        Then([corrected \in {Filtered(ratio, blurred)} |->
        Then([term \in
            {IF use_tv
             THEN execTotalVariationTerm(corrected, estimated, blurred, Ret(variation))
             ELSE Return(corrected, blurred)} |->
        Then([updated \in {execOperationKernel(term, estimated, Ret(term), estimated)} |->
        IF normal = Null THEN updated
        ELSE execOperationKernel(updated, estimated, normal, estimated)])])])])
  IN Return(FoldLeft(Iterate, ready, [i \in 1..iterations |-> i]), estimated)])])])])])])])

-----------------------------------------------------------------------------

fft(m, src, dst) == performFFT(m, src, dst)

ifft(m, src, dst) == performIFFT(m, src, dst)

\* An array of other extents than the smooth ones is padded into a new one.
Padded(m, p, smooth) ==
  IF Shape(m, p) = smooth THEN Return(m, p) ELSE pad(m, p, Null, smooth)

Smaller(m, inner, outer) == \A i \in 1..3 : Shape(m, inner)[i] <= Shape(m, outer)[i]

\* A supplied destination has to be as large as the padded image; the result of a padded
\* convolution is another array.
convolve_fft(m, src, kernel, dst, smooth) ==
  Then([pad_input \in {Padded(Require(m, Smaller(m, kernel, src)), src, smooth)} |->
  Then([pad_kernel \in {Padded(pad_input, kernel, smooth)} |->
  Then([shifted \in {circular_shift(pad_kernel, Ret(pad_kernel), Null)} |->
  Then([made \in {create_like(shifted, Ret(pad_input), dst, "UNKNOWN")} |->
  Then([done \in {performConvolution(made, Ret(pad_input), Ret(shifted), Ret(made))} |->
  IF Shape(m, src) = smooth THEN Return(done, Ret(made))
  ELSE unpad(done, Ret(made), Null, Shape(m, src))])])])])])

\* A supplied destination is the first estimate; without one the estimate starts at 1.
deconvolve(m, src, psf, normalization, dst, smooth, iteration, use_tv) ==
  Then([pad_input \in {Padded(Require(m, Smaller(m, psf, src)), src, smooth)} |->
  Then([pad_psf \in {Padded(pad_input, psf, smooth)} |->
  Then([pad_norm \in
      {IF normalization = Null THEN Return(pad_psf, Null)
       ELSE Padded(pad_psf, normalization, smooth)} |->
  Then([pad_dst \in
      {IF dst # Null THEN Padded(pad_norm, dst, smooth)
       ELSE Then([created \in {CreateAs(pad_norm, Ret(pad_input))} |->
            Fill(created, Ret(created))])} |->
  Then([shifted \in {circular_shift(pad_dst, Ret(pad_psf), Null)} |->
  Then([done \in {performDeconvolution(shifted, Ret(pad_input), Ret(shifted), Ret(pad_norm),
                            Ret(pad_dst), iteration, use_tv)} |->
  IF Shape(m, src) = smooth THEN Return(done, Ret(pad_dst))
  ELSE unpad(done, Ret(pad_dst), Null, Shape(m, src))])])])])])])

=============================================================================
