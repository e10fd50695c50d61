---------------------------- MODULE Tier1Pixels -----------------------------
(***************************************************************************)
(* Tier 1: the operations that compute each pixel of the destination from  *)
(* the pixels at the same position (tier1/).  Each takes the state m of    *)
(* the arrays, its sources and its destination, and is named after the     *)
(* function without the suffix _func.  The scalars and indices a kernel    *)
(* computes with are left out.                                             *)
(***************************************************************************)
EXTENDS Tier0

\* The common shape of an operation: a destination like its source, one launch over it.
Like(m, kernel, src, dst, type) ==
  Then([made \in {create_like(m, src, dst, type)} |->
  execute(made, kernel, <<src>>, Ret(made))])

\* The same for an operation with a second array the kernel looks values up in.
LikeWith(m, kernel, src, other, dst, type) ==
  Then([made \in {create_like(m, src, dst, type)} |->
  execute(made, kernel, <<src, other>>, Ret(made))])

\* The promoted type of two sources.
Promoted(m, src0, src1) == promoteType(Type(m, src0), Type(m, src1))

-----------------------------------------------------------------------------
(* Expressions of two images: math_images_ops.cpp, mask.cpp, ... *)

apply_images_math_operation(m, src0, src1, dst, type) ==
  Then([made \in {create_or_check_broadcast_dst(m, src0, src1, dst, type)} |->
  execute(made, Elementwise, <<src0, src1>>, Ret(made))])

add_images_weighted(m, src0, src1, dst) ==
  Then([made \in {create_or_check_broadcast_dst(m, src0, src1, dst, Promoted(m, src0, src1))} |->
  evaluate(made, <<src0, src1>>, Ret(made))])

power_images(m, src0, src1, dst) == apply_images_math_operation(m, src0, src1, dst, "FLOAT")
maximum_images(m, src0, src1, dst) ==
  apply_images_math_operation(m, src0, src1, dst, Promoted(m, src0, src1))
minimum_images(m, src0, src1, dst) ==
  apply_images_math_operation(m, src0, src1, dst, Promoted(m, src0, src1))
modulo_images(m, src0, src1, dst) ==
  apply_images_math_operation(m, src0, src1, dst, Promoted(m, src0, src1))
multiply_images(m, src0, src1, dst) ==
  apply_images_math_operation(m, src0, src1, dst, Promoted(m, src0, src1))
divide_images(m, src0, src1, dst) == apply_images_math_operation(m, src0, src1, dst, "FLOAT")
greater(m, src0, src1, dst) == apply_images_math_operation(m, src0, src1, dst, BOOL)
greater_or_equal(m, src0, src1, dst) == apply_images_math_operation(m, src0, src1, dst, BOOL)
smaller(m, src0, src1, dst) == apply_images_math_operation(m, src0, src1, dst, BOOL)
smaller_or_equal(m, src0, src1, dst) == apply_images_math_operation(m, src0, src1, dst, BOOL)
equal(m, src0, src1, dst) == apply_images_math_operation(m, src0, src1, dst, BOOL)
not_equal(m, src0, src1, dst) == apply_images_math_operation(m, src0, src1, dst, BOOL)
binary_and(m, src0, src1, dst) == apply_images_math_operation(m, src0, src1, dst, BOOL)
binary_or(m, src0, src1, dst) == apply_images_math_operation(m, src0, src1, dst, BOOL)
binary_xor(m, src0, src1, dst) == apply_images_math_operation(m, src0, src1, dst, BOOL)
binary_subtract(m, src0, src1, dst) == apply_images_math_operation(m, src0, src1, dst, BOOL)

mask(m, src, by, dst) == apply_images_math_operation(m, src, by, dst, Type(m, src))
mask_label(m, src0, src1, dst) ==
  apply_images_math_operation(m, src0, src1, dst, Promoted(m, src0, src1))

-----------------------------------------------------------------------------
(* Expressions of an image and a scalar: math_binary_ops.cpp.  The launch is *)
(* over the extents of the source.                                           *)

apply_binary_math_operation(m, src, dst) ==
  Return(Launch(m, Elementwise, <<src>>, <<dst>>, Shape(m, src)), dst)

\* The destination the functions below create before they apply their expression.
WithScalar(m, src, dst, type) ==
  Then([made \in {create_like(m, src, dst, type)} |->
  apply_binary_math_operation(made, src, Ret(made))])

power(m, src, dst) == WithScalar(m, src, dst, "FLOAT")
root(m, src, dst) == WithScalar(m, src, dst, "FLOAT")
maximum_image_and_scalar(m, src, dst) == WithScalar(m, src, dst, "UNKNOWN")
minimum_image_and_scalar(m, src, dst) == WithScalar(m, src, dst, "UNKNOWN")
add_image_and_scalar(m, src, dst) == WithScalar(m, src, dst, "FLOAT")
subtract_scalar_from_image(m, src, dst) == WithScalar(m, src, dst, "FLOAT")
subtract_image_from_scalar(m, src, dst) == WithScalar(m, src, dst, "FLOAT")
divide_image_by_scalar(m, src, dst) == WithScalar(m, src, dst, "FLOAT")
divide_scalar_by_image(m, src, dst) == WithScalar(m, src, dst, "FLOAT")
multiply_image_and_scalar(m, src, dst) == WithScalar(m, src, dst, "FLOAT")
greater_constant(m, src, dst) == WithScalar(m, src, dst, BOOL)
greater_or_equal_constant(m, src, dst) == WithScalar(m, src, dst, BOOL)
smaller_constant(m, src, dst) == WithScalar(m, src, dst, BOOL)
smaller_or_equal_constant(m, src, dst) == WithScalar(m, src, dst, BOOL)
equal_constant(m, src, dst) == WithScalar(m, src, dst, BOOL)
not_equal_constant(m, src, dst) == WithScalar(m, src, dst, BOOL)

-----------------------------------------------------------------------------
(* Expressions of one image: math_unary_ops.cpp, math_trigonometry_ops.cpp *)

apply_unary_math_operation(m, src, dst) == execute(m, Elementwise, <<src>>, dst)

\* The destination the functions below create before they apply their expression.
OfImage(m, src, dst, type) ==
  Then([made \in {create_like(m, src, dst, type)} |->
  apply_unary_math_operation(made, src, Ret(made))])

absolute(m, src, dst) == OfImage(m, src, dst, "UNKNOWN")
cubic_root(m, src, dst) == OfImage(m, src, dst, "FLOAT")
square_root(m, src, dst) == OfImage(m, src, dst, "FLOAT")
exponential(m, src, dst) == OfImage(m, src, dst, "FLOAT")
exponential2(m, src, dst) == OfImage(m, src, dst, "FLOAT")
exponential10(m, src, dst) == OfImage(m, src, dst, "FLOAT")
logarithm(m, src, dst) == OfImage(m, src, dst, "FLOAT")
logarithm2(m, src, dst) == OfImage(m, src, dst, "FLOAT")
logarithm10(m, src, dst) == OfImage(m, src, dst, "FLOAT")
reciprocal(m, src, dst) == OfImage(m, src, dst, "FLOAT")
ceil(m, src, dst) == OfImage(m, src, dst, "UNKNOWN")
floor(m, src, dst) == OfImage(m, src, dst, "UNKNOWN")
round(m, src, dst) == OfImage(m, src, dst, "UNKNOWN")
truncate(m, src, dst) == OfImage(m, src, dst, "UNKNOWN")
binary_not(m, src, dst) == OfImage(m, src, dst, BOOL)

apply_trigonometric_op(m, src, dst) == Like(m, Elementwise, src, dst, "FLOAT")

sin(m, src, dst) == apply_trigonometric_op(m, src, dst)
cos(m, src, dst) == apply_trigonometric_op(m, src, dst)
tan(m, src, dst) == apply_trigonometric_op(m, src, dst)
asin(m, src, dst) == apply_trigonometric_op(m, src, dst)
acos(m, src, dst) == apply_trigonometric_op(m, src, dst)
atan(m, src, dst) == apply_trigonometric_op(m, src, dst)
sinh(m, src, dst) == apply_trigonometric_op(m, src, dst)
cosh(m, src, dst) == apply_trigonometric_op(m, src, dst)
tanh(m, src, dst) == apply_trigonometric_op(m, src, dst)

nan_to_num(m, src, dst) == Like(m, Elementwise, src, dst, "UNKNOWN")
undefined_to_zero(m, src, dst) == Like(m, Elementwise, src, dst, "UNKNOWN")
replace_value(m, src, dst) == Like(m, Elementwise, src, dst, "UNKNOWN")
replace_intensity(m, src, dst) == replace_value(m, src, dst)
multiply_image_and_position(m, src, dst) == Like(m, Elementwise, src, dst, "FLOAT")
set_nonzero_pixels_to_pixelindex(m, src, dst) == Like(m, Elementwise, src, dst, INDEX)

\* sign.cpp clears the destination before the kernel reads the source.
sign(m, src, dst) ==
  Then([made \in {create_like(m, src, dst, "UNKNOWN")} |->
  execute(Fill(made, Ret(made)), Elementwise, <<src>>, Ret(made))])

=============================================================================
